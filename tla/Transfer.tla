------------------------------ MODULE Transfer ------------------------------
(***************************************************************************)
(* Import and export from Settings: the dialog, the handlers in the main   *)
(* process, and those who must hear of an import, which are the engine and *)
(* the list of tunnels.                                                    *)
(* src/src/web/scripts/components/import-export-dialog.js,                 *)
(* src/src/app/ipc/portable.js, reconcileAll() of tunnel/engine.js.        *)
(*                                                                         *)
(* What an import makes of the document is module Stores; here a tunnel is *)
(* the version of its definition, one per write.  The main process serves  *)
(* a read or a write in one go; a sweep of the engine goes tunnel by       *)
(* tunnel with awaits in between.  Every tunnel is enabled and none has a  *)
(* schedule.                                                               *)
(***************************************************************************)
EXTENDS Naturals, Sequences, FiniteSets, SequencesExt

CONSTANTS
  Rows,      \* BOUND: ids of tunnels, stored or to be
  Packs,     \* BOUND: what a file may hold: `rows`, whether `sealed` and `sound`
  Idle,      \* no call on its way, or no file
  MaxWrites  \* BOUND: writes of the document

(* A call of the dialog: what it asks for, how far it is, what came of it. *)
Modes == {"merge", "replace"}
Passes == {"none", "right", "wrong"}
Calls(op, asked) ==
  [op : {op}, what : asked, at : {"asked", "answered"},
   res : {"none", "ok", "canceled", "invalid", "error"}, file : Packs \cup {Idle}]

ASSUME TransferAssumption ==
  /\ IsFiniteSet(Rows)
  /\ Packs \subseteq [rows : SUBSET Rows, sealed : BOOLEAN, sound : BOOLEAN]
  /\ Idle \notin Calls("export", BOOLEAN) /\ Idle \notin Calls("look", {"bundle", "hosts"})
  /\ Idle \notin Calls("apply", [mode : Modes, pass : Passes])
  /\ Idle \notin Calls("add", SUBSET Rows)

VARIABLES
  sheet,  \* the dialog: `open`, its `form`, the file `seen` in it, the `banner`
  busy,   \* #busy of the dialog
  ask,    \* the dialog's call to the main process: Idle, or what and how far
  writes, kept, \* writes so far; the version stored of each tunnel, 0 for none
  live,   \* the version each tunnel of the engine runs, 0 for none
  sweeps, \* what each sweep of the engine has still to reconcile
  view    \* the list of tunnels: the `rows` it shows, the `reads` on their way

transferVars == <<sheet, busy, ask, writes, kept, live, sweeps, view>>

NoRows == [i \in Rows |-> 0]
Stored(k) == {i \in Rows : k[i] # 0}

Shut == [open |-> FALSE, form |-> "none", seen |-> Idle, banner |-> FALSE]

TransferInit ==
  /\ sheet = Shut
  /\ busy = FALSE /\ ask = Idle /\ writes = 1
  /\ kept \in [Rows -> {0, 1}] /\ live = kept
  /\ sweeps = <<>> /\ view = [rows |-> kept, reads |-> <<>>]

-----------------------------------------------------------------------------
(* The dialog.  It stands over the popup, so what is on the Data panel can *)
(* be clicked only while it is closed.                                     *)
Render(form, file) == [open |-> TRUE, form |-> form, seen |-> file, banner |-> FALSE]

(* In a dialog that is closed an error is seen by nobody.                  *)
ShowError == sheet' = [sheet EXCEPT !.banner = sheet.open]

Send(op, what) ==
  /\ busy' = TRUE
  /\ ask' = [op |-> op, what |-> what, at |-> "asked", res |-> "none", file |-> Idle]

OpenExport ==
  /\ ~sheet.open
  /\ sheet' = Render("export", Idle)
  /\ UNCHANGED <<busy, ask, writes, kept, live, sweeps, view>>

Cancel ==
  /\ sheet.open
  /\ sheet' = Shut
  /\ UNCHANGED <<busy, ask, writes, kept, live, sweeps, view>>

(* doExport(): a passphrase, when the secrets go along, twice the same.    *)
SubmitExport(seal, pass) ==
  /\ sheet.open /\ sheet.form = "export" /\ ~busy
  /\ IF seal /\ pass # "twice"
     THEN ShowError /\ UNCHANGED <<busy, ask>>
     ELSE Send("export", seal) /\ UNCHANGED sheet
  /\ UNCHANGED <<writes, kept, live, sweeps, view>>

(* startImport(), startSshImport(): which file, and what is in it.         *)
Start(form) ==
  /\ ~sheet.open /\ ~busy
  /\ Send("look", form)
  /\ UNCHANGED <<sheet, writes, kept, live, sweeps, view>>

(* doImport(), doSshImport().                                              *)
SubmitBundle(mode, pass) ==
  /\ sheet.open /\ sheet.form = "bundle" /\ ~busy
  /\ pass # "none" => sheet.seen.sealed
  /\ Send("apply", [mode |-> mode, pass |-> pass])
  /\ UNCHANGED <<sheet, writes, kept, live, sweeps, view>>

SubmitHosts(chosen) ==
  /\ sheet.open /\ sheet.form = "hosts" /\ ~busy
  /\ chosen # {} /\ chosen \subseteq sheet.seen.rows
  /\ Send("add", chosen)
  /\ UNCHANGED <<sheet, writes, kept, live, sweeps, view>>

-----------------------------------------------------------------------------
(* The handlers.                                                           *)
Reply(res, file) == ask' = [ask EXCEPT !.at = "answered", !.res = res, !.file = file]

AskedFor(op) == ask # Idle /\ ask.op = op /\ ask.at = "asked"

(* portable:export writes a file outside the store; it may fail.           *)
ServeExport(res) ==
  /\ AskedFor("export")
  /\ Reply(res, Idle)
  /\ UNCHANGED <<sheet, busy, writes, kept, live, sweeps, view>>

(* portable:preview, sshconfig:scan: the user may close the file dialog.   *)
ServeLook(file) ==
  /\ AskedFor("look")
  /\ Reply(CASE file = Idle -> "canceled" [] file # Idle /\ ~file.sound -> "invalid"
              [] OTHER -> "ok", file)
  /\ UNCHANGED <<sheet, busy, writes, kept, live, sweeps, view>>

(* reconcileAll() walks the definitions that are stored when it begins;    *)
(* `stored` is their order.                                                *)
Reconcile(stored) == sweeps' = Append(sweeps, stored)

Orders(S) == {s \in [1..Cardinality(S) -> S] : Range(s) = S}

(* portable:import: the file is read again; nothing is written unless all  *)
(* of it is good and the passphrase opens it.  Merging keeps the tunnels   *)
(* the bundle does not have, replacing does not.                           *)
ServeApply(file) ==
  LET good == file.sound /\ (file.sealed => ask.what.pass = "right")
      merged == [i \in Rows |-> IF i \in file.rows THEN writes + 1
                                ELSE IF ask.what.mode = "merge" THEN kept[i] ELSE 0]
  IN
  /\ AskedFor("apply") /\ writes < MaxWrites
  /\ IF good
     THEN /\ writes' = writes + 1 /\ kept' = merged
          /\ \E s \in Orders(Stored(merged)) : Reconcile(s)
          /\ Reply("ok", Idle)
     ELSE Reply("error", Idle) /\ UNCHANGED <<writes, kept, sweeps>>
  /\ UNCHANGED <<sheet, busy, live, view>>

(* sshconfig:import: the hosts chosen become new tunnels.                  *)
ServeAdd ==
  LET new == {i \in Rows : kept[i] = 0}
      added(N) == [i \in Rows |-> IF i \in N THEN writes + 1 ELSE kept[i]]
  IN
  /\ AskedFor("add") /\ writes < MaxWrites
  /\ \E N \in SUBSET new :
       /\ Cardinality(N) = Cardinality(ask.what)
       /\ writes' = writes + 1 /\ kept' = added(N)
       /\ \E s \in Orders(Stored(added(N))) : Reconcile(s)
  /\ Reply("ok", Idle)
  /\ UNCHANGED <<sheet, busy, live, view>>

(* reconcile(): dispose, arm or apply, by what is stored by now.           *)
Sweep(k) ==
  /\ k \in DOMAIN sweeps
  /\ IF sweeps[k] = <<>>
     THEN sweeps' = RemoveAt(sweeps, k) /\ UNCHANGED live
     ELSE /\ live' = [live EXCEPT ![Head(sweeps[k])] = kept[Head(sweeps[k])]]
          /\ sweeps' = [sweeps EXCEPT ![k] = Tail(@)]
  /\ UNCHANGED <<sheet, busy, ask, writes, kept, view>>

-----------------------------------------------------------------------------
(* The window again.                                                       *)
Load == view' = [view EXCEPT !.reads = Append(@, [at |-> "asked", rows |-> NoRows])]

ServeList ==
  \E k \in DOMAIN view.reads :
    /\ view.reads[k].at = "asked" /\ \A j \in 1..(k - 1) : view.reads[j].at = "answered"
    /\ view' = [view EXCEPT !.reads[k] = [at |-> "answered", rows |-> kept]]
    /\ UNCHANGED <<sheet, busy, ask, writes, kept, live, sweeps>>

Loaded ==
  /\ view.reads # <<>> /\ Head(view.reads).at = "answered"
  /\ view' = [rows |-> Head(view.reads).rows, reads |-> Tail(view.reads)]
  /\ UNCHANGED <<sheet, busy, ask, writes, kept, live, sweeps>>

(* Mutant: a dialog the user has closed announces nothing.                 *)
Close_Mutant(changed) ==
  /\ sheet' = Shut
  /\ IF changed /\ sheet.open THEN Load ELSE UNCHANGED view

(* The dialog closes, and announceDataChanged() makes the list load again. *)
Close(changed) ==
  /\ sheet' = Shut
  /\ IF changed THEN Load ELSE UNCHANGED view

Replied ==
  /\ ask # Idle /\ ask.at = "answered"
  /\ busy' = FALSE /\ ask' = Idle
  /\ \/ /\ ask.op = "look"
        /\ sheet' = IF ask.res = "ok" THEN Render(ask.what, ask.file) ELSE sheet
        /\ UNCHANGED view
     \/ ask.op # "look" /\ ask.res = "error" /\ ShowError /\ UNCHANGED view
     \/ ask.op # "look" /\ ask.res # "error" /\ Close(ask.op \in {"apply", "add"})
  /\ UNCHANGED <<writes, kept, live, sweeps>>

(* A row's own menu deletes the tunnel, and its editor saves it; the store *)
(* has the engine reconcile it, and the list loads.                        *)
WriteRow(i, v) ==
  /\ ~sheet.open /\ view.rows[i] # 0 /\ kept[i] # 0 /\ writes < MaxWrites
  /\ v \in {0, writes + 1}
  /\ writes' = writes + 1
  /\ kept' = [kept EXCEPT ![i] = v] /\ live' = [live EXCEPT ![i] = v]
  /\ Load
  /\ UNCHANGED <<sheet, busy, ask, sweeps>>

(* A change of the language reloads the page.  Calls come in order, so a   *)
(* write that was asked for is served before the new page's read.          *)
Reload ==
  /\ ask # Idle => ask.op \in {"export", "look"} \/ ask.at = "answered"
  /\ sheet' = Shut /\ busy' = FALSE /\ ask' = Idle
  /\ view' = [rows |-> NoRows, reads |-> <<[at |-> "asked", rows |-> NoRows]>>]
  /\ UNCHANGED <<writes, kept, live, sweeps>>

TransferNext ==
  \/ OpenExport \/ Cancel
  \/ \E seal \in BOOLEAN, pass \in {"once", "twice"} : SubmitExport(seal, pass)
  \/ \E form \in {"bundle", "hosts"} : Start(form)
  \/ \E mode \in Modes, pass \in Passes : SubmitBundle(mode, pass)
  \/ \E chosen \in SUBSET Rows : SubmitHosts(chosen)
  \/ \E res \in {"ok", "canceled", "error"} : ServeExport(res)
  \/ \E file \in Packs \cup {Idle} : ServeLook(file)
  \/ \E file \in Packs : ServeApply(file)
  \/ ServeAdd
  \/ \E k \in DOMAIN sweeps : Sweep(k)
  \/ ServeList \/ Loaded \/ Replied
  \/ \E i \in Rows : WriteRow(i, 0) \/ WriteRow(i, writes + 1)
  \/ Reload

TransferSpec == TransferInit /\ [][TransferNext]_transferVars

-----------------------------------------------------------------------------
(* When all is at rest the list shows what is stored and every stored      *)
(* tunnel runs as it is stored, however imports, edits, deletions, closed  *)
(* dialogs and reloads crossed; the dialog is never left busy.             *)
(* (import-export-dialog.js:341-362, ipc/portable.js:57-69)                *)
ImportArrives ==
  /\ busy = (ask # Idle)
  /\ (ask = Idle /\ view.reads = <<>>) => view.rows = kept
  /\ sweeps = <<>> => \A i \in Stored(kept) : live[i] = kept[i]

(* A successful import reconciles every affected tunnel                    *)
(* (ipc/portable.js:31-32), and a deleted one is disposed of               *)
(* (engine.js:262): nothing runs any more that an import has removed.      *)
ImportDisposes == sweeps = <<>> => \A i \in Rows : live[i] # 0 => kept[i] # 0
=============================================================================
