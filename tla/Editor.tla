-------------------------------- MODULE Editor --------------------------------
(***************************************************************************)
(* The tunnel editor of the main window: the form, the debounced checks of *)
(* the two host names, the save, and "Test resolution", a walk of the SSH  *)
(* chain in the main process that a popup over the editor shows.           *)
(*                                                                         *)
(* Every await of the dialog is a step of its own: loading a definition,   *)
(* the two look-ups of a check, a save, a test.  The dialog is one object  *)
(* that every opening reuses, so an answer may find it showing a later     *)
(* opening.                                                                *)
(*                                                                         *)
(* Abstraction: of the form, the host names this machine can check         *)
(* (NoHost: an empty or unreadable field, a literal address, a slot the    *)
(* tunnel's type or its jump hosts take away from this machine); of a      *)
(* host, whether it passes.  A test keeps only whether it was aborted; its *)
(* walk may end at any time, aborted or not.                               *)
(***************************************************************************)
EXTENDS Naturals, Sequences

CONSTANTS
  Hosts,      \* host names a user may type
  Refused,    \* those that do not resolve, or that cannot be bound to
  NoHost,     \* a field that names nothing this machine can check
  MaxOpens,   \* bound on the openings of the dialog
  MaxTests    \* bound on the tests

ASSUME EditorAssumption ==
  Refused \subseteq Hosts /\ NoHost \notin Hosts /\ MaxOpens \in Nat /\ MaxTests \in Nat

Slots == {"entry", "target"}
Forms == [Slots -> Hosts \cup {NoHost}]
Blank == [s \in Slots |-> NoHost]
Opens == 1 .. MaxOpens
Tests == 1 .. MaxTests

VARIABLES
  form,      \* the form
  opening,   \* the opening it belongs to: the record a save writes (0: none)
  loads,     \* the openings whose reference lists are still being read
  shown,     \* the dialog is open
  timer,     \* the debounce timer is armed
  checks,    \* the look-ups in flight; fresh: no later check has begun
  warn,      \* the warning under each slot: the host it names, or NoHost
  busy,      \* a submit is in flight
  saves,     \* the saves sent to the main process
  records,   \* how many records each opening has written
  awaited,   \* the dialog waits for a test's result
  cancelled, \* it no longer wants it
  popup,     \* the results popup is open
  pipe,      \* what the window has sent about tests
  active,    \* the test a cancel would abort (0: none)
  tests,     \* each test in the main process
  replies    \* the results on their way to the window

formVars == <<form, opening, loads, shown>>
checkVars == <<timer, checks, warn>>
saveVars == <<busy, saves, records>>
mainVars == <<active, tests, replies>>
testVars == <<awaited, cancelled, popup, pipe>>
editorVars == <<formVars, checkVars, saveVars, testVars, mainVars>>

EditorInit ==
  /\ form = Blank /\ opening = 0 /\ loads = <<>> /\ shown = FALSE
  /\ timer = FALSE /\ checks = {} /\ warn = Blank
  /\ busy = FALSE /\ saves = <<>> /\ records = [o \in Opens |-> 0]
  /\ awaited = FALSE /\ cancelled = FALSE /\ popup = FALSE /\ pipe = <<>>
  /\ active = 0 /\ tests = [t \in Tests |-> "new"] /\ replies = <<>>

-----------------------------------------------------------------------------
\* The checks of the host names.

Verdict(h) == IF h \in Refused THEN h ELSE NoHost

\* One slot's turn: a look-up, or at once no warning.
Turn(s, h) == IF h = NoHost THEN {} ELSE {[slot |-> s, host |-> h, fresh |-> TRUE]}

\* A check asks about the entry first, about the target when that is answered.
Started(w, stale) ==
  LET w1 == IF form'.entry = NoHost THEN [w EXCEPT !.entry = NoHost] ELSE w
      w2 == IF form'.entry = NoHost /\ form'.target = NoHost
            THEN [w1 EXCEPT !.target = NoHost] ELSE w1
  IN /\ warn' = w2
     /\ checks' = stale \cup (IF form'.entry # NoHost THEN Turn("entry", form'.entry)
                              ELSE Turn("target", form'.target))

\* Whatever was in flight is superseded.
RunCheck == Started(warn, {[c EXCEPT !.fresh = FALSE] : c \in checks})

\* The timer fires, in the dialog or after it has closed.
Elapsed ==
  /\ timer /\ timer' = FALSE /\ UNCHANGED formVars /\ RunCheck
  /\ UNCHANGED <<saveVars, testVars, mainVars>>

Heeded_Mutant(c) == c.slot = "target" \/ c.fresh

\* Only the latest check may still speak for the form.
Heeded(c) == c.fresh

Looked(c) ==
  /\ c \in checks
  /\ IF ~Heeded(c) THEN checks' = checks \ {c} /\ warn' = warn
     ELSE LET w == [warn EXCEPT ![c.slot] = Verdict(c.host)]
          IN IF c.slot = "target" THEN checks' = checks \ {c} /\ warn' = w
             ELSE /\ checks' = (checks \ {c}) \cup Turn("target", form.target)
                  /\ warn' = IF form.target = NoHost THEN [w EXCEPT !.target = NoHost] ELSE w
  /\ UNCHANGED <<timer, formVars, saveVars, testVars, mainVars>>

-----------------------------------------------------------------------------
\* Opening, editing, saving and leaving the dialog.

\* A row opens a filled form; the menu's New Tunnel a blank one, over an open
\* dialog too.  The form changes at once, the lists come later.
Open(o, f) ==
  /\ o = opening + 1
  /\ shown \/ popup => f = Blank
  /\ form' = f /\ opening' = o /\ loads' = Append(loads, o)
  /\ UNCHANGED <<shown, checkVars, saveVars, testVars, mainVars>>

\* The popup closes; a test still awaited is cancelled.
ClosePopup ==
  /\ popup' = FALSE
  /\ pipe' = IF awaited /\ ~cancelled THEN Append(pipe, 0) ELSE pipe

Loaded ==
  /\ loads # <<>> /\ loads' = Tail(loads) /\ shown' = TRUE
  /\ UNCHANGED <<form, opening>>
  /\ ClosePopup /\ awaited' = FALSE /\ cancelled' = FALSE
  /\ RunCheck /\ timer' = timer
  /\ UNCHANGED <<saveVars, mainVars>>

InFront == shown /\ ~popup

Edit(s, h) ==
  /\ InFront /\ form' = [form EXCEPT ![s] = h] /\ timer' = TRUE
  /\ UNCHANGED <<opening, loads, shown, checks, warn, saveVars, testVars, mainVars>>

MaySubmit_Mutant == TRUE

\* A second Enter while the first save is in flight does nothing; a form the
\* validator refuses is not sent (that changes nothing, so it is left out).
\* Assumption: nobody completes and submits the form of a second opening in the
\* milliseconds its lists take (loads = <<>>).
MaySubmit == ~busy

Save ==
  /\ InFront /\ MaySubmit /\ loads = <<>>
  /\ busy' = TRUE /\ saves' = Append(saves, opening)
  /\ UNCHANGED <<records, formVars, checkVars, testVars, mainVars>>

\* The store writes the record and the dialog, whatever it shows now, closes;
\* or the store refuses and it stays.
SaveEnds(ok) ==
  /\ saves # <<>> /\ saves' = Tail(saves) /\ busy' = FALSE
  /\ records' = IF ok THEN [records EXCEPT ![Head(saves)] = @ + 1] ELSE records
  /\ shown' = (shown /\ ~ok)
  /\ UNCHANGED <<form, opening, loads, checkVars, testVars, mainVars>>

Leave ==
  /\ InFront /\ shown' = FALSE
  /\ UNCHANGED <<form, opening, loads, checkVars, saveVars, testVars, mainVars>>

-----------------------------------------------------------------------------
\* "Test resolution": the window's side.

Test(t) ==
  /\ InFront /\ ~awaited
  /\ tests[t] = "new" /\ \A u \in Tests : u < t => tests[u] # "new"
  /\ tests' = [tests EXCEPT ![t] = "sent"] /\ pipe' = Append(pipe, t)
  /\ awaited' = TRUE /\ cancelled' = FALSE /\ popup' = TRUE
  /\ UNCHANGED <<active, replies, formVars, checkVars, saveVars>>

\* The popup's button, or Escape.
Dismiss ==
  /\ popup /\ ClosePopup
  /\ cancelled' = (cancelled \/ awaited)
  /\ UNCHANGED <<awaited, formVars, checkVars, saveVars, mainVars>>

\* A result comes back, the awaited one or that of a test forgotten by a
\* reopening: the dialog cannot tell.
Result ==
  /\ replies # <<>> /\ replies' = Tail(replies) /\ awaited' = FALSE
  /\ UNCHANGED <<cancelled, popup, pipe, active, tests, formVars, checkVars, saveVars>>

\* The main process's side.

Aborted == [t \in Tests |-> IF t = active THEN "aborted" ELSE tests[t]]

\* A new test supersedes the one before; a cancel ends the active one.
Handle ==
  /\ pipe # <<>> /\ pipe' = Tail(pipe)
  /\ active' = Head(pipe)
  /\ tests' = [t \in Tests |-> IF t = Head(pipe) THEN "running" ELSE Aborted[t]]
  /\ UNCHANGED <<replies, awaited, cancelled, popup, formVars, checkVars, saveVars>>

Finish_Mutant(t) ==
  /\ tests[t] \in {"running", "aborted"}
  /\ tests' = [tests EXCEPT ![t] = "done"] /\ replies' = Append(replies, t)
  /\ active' = 0
  /\ UNCHANGED <<formVars, checkVars, saveVars, testVars>>

\* The walk is over, and the test is no longer the one to cancel.
Finish(t) ==
  /\ tests[t] \in {"running", "aborted"}
  /\ tests' = [tests EXCEPT ![t] = "done"] /\ replies' = Append(replies, t)
  /\ active' = IF active = t THEN 0 ELSE active
  /\ UNCHANGED <<formVars, checkVars, saveVars, testVars>>

EditorNext ==
  \/ \E o \in Opens, f \in Forms : Open(o, f)
  \/ Loaded
  \/ \E s \in Slots, h \in Hosts \cup {NoHost} : Edit(s, h)
  \/ Elapsed
  \/ \E c \in checks : Looked(c)
  \/ Save
  \/ \E ok \in BOOLEAN : SaveEnds(ok)
  \/ Leave
  \/ \E t \in Tests : Test(t) \/ Finish(t)
  \/ Dismiss \/ Result \/ Handle

EditorSpec == EditorInit /\ [][EditorNext]_editorVars

-----------------------------------------------------------------------------
\* Once nothing is pending, each warning is the one the form deserves: no late
\* answer about a host typed earlier, or in an earlier opening, stays on show
\* (#resolveSeq, runResolveCheck).
WarningIsCurrent ==
  ~timer /\ loads = <<>> /\ (\A c \in checks : ~c.fresh)
    => \A s \in Slots : warn[s] = Verdict(form[s])

\* However often Enter is pressed, and whatever is opened while a save is in
\* flight, one opening of the editor writes at most one record (Dialog.#submit).
OneRecordPerEditor == \A o \in Opens : records[o] <= 1

\* Once the window's messages are handled, no test that the user cancelled goes
\* on dialling: the abort finds it, whichever test ended in between (resolve:cancel).
CancelReachesTest ==
  cancelled /\ pipe = <<>> => \A t \in Tests : tests[t] # "running"

\* Answers that come late and clicks that come twice change nothing: of warnings,
\* of saves and of tests.
EditorKeepsUp == WarningIsCurrent /\ OneRecordPerEditor /\ CancelReachesTest
=============================================================================
