------------------------------- MODULE Pickers -------------------------------
(***************************************************************************)
(* The pickers of a form: one for the credential, one for the chain of     *)
(* jump hosts, each with the editor it opens on a record of its own kind;  *)
(* the jump host's editor holds a credential picker in turn.               *)
(* src/src/web/scripts/components/credential-picker-field.js,              *)
(* jump-host-picker-field.js, credential-editor-dialog.js and              *)
(* jump-host-editor-dialog.js, over the two stores in the main process.    *)
(*                                                                         *)
(* The form around them (the tunnel's or the console's editor) stays open  *)
(* and reads the pickers when it is saved.  The main process serves the    *)
(* calls in order and each in one go; the answers come back in order, and  *)
(* the user goes on clicking meanwhile.                                    *)
(*                                                                         *)
(* Left out: labels, hosts and ports, the checks on them, key paths and    *)
(* the state of a key file, and what else refers to a record: a deletion   *)
(* may be refused for that.                                                *)
(***************************************************************************)
EXTENDS Naturals, Sequences, SequencesExt, Lists

CONSTANTS
  Creds, Hosts,  \* BOUND: ids of credentials and of jump hosts, stored or to be
  Auths,         \* authentication types on offer
  Nil,           \* no record, or none chosen
  MaxClicks      \* BOUND: what the user does

Kinds == {"agent", "password", "key"}  \* of credentials

ASSUME PickersAssumption ==
  /\ Nil \notin Creds \cup Hosts /\ Auths \subseteq Kinds
  /\ Nil \notin [auth : Kinds, secret : Kinds \cup {"none"}]

Forms == {"outer", "host"}  \* the form, and the jump host's editor in front of it

VARIABLES
  credStore, \* credentials: Nil, or the type and what the secret was typed for
  hostStore, \* jump hosts: Nil, or the credential
  spent,     \* the ids of deleted records, which are not given out again
  picker,    \* the credential pickers: `value`, the `options` on offer
  chain,     \* the jump-host picker: `ids` in order, `known`, `focus`, `creating`
  credDlg,   \* the editor of each credential picker
  hostDlg,   \* the editor of the jump-host picker
  calls, answers, \* between the window and the main process
  wants,     \* history: what the user chose last in each picker, and which hosts
  clicks,
  crossed    \* history: an editor was reused while it was saving, or two held one record

stored == <<credStore, hostStore, spent>>
wire == <<calls, answers>>
pickerVars == <<stored, picker, chain, credDlg, hostDlg, wire, wants, clicks, crossed>>

HoldsText(auth) == auth # "agent"

ClosedCred == [open |-> FALSE, id |-> Nil, loaded |-> Nil, had |-> FALSE,
               auth |-> "agent", typed |-> "none", saving |-> FALSE]

ClosedHost == [open |-> FALSE, id |-> Nil, cred |-> Nil, saving |-> FALSE]

Present(f) == {x \in DOMAIN f : f[x] # Nil}

PickersInit ==
  /\ credStore \in [Creds -> {Nil, [auth |-> "password", secret |-> "password"]}]
  /\ hostStore \in [Hosts -> Present(credStore) \cup {Nil}]
  /\ spent = {}
  /\ picker = [f \in Forms |-> [value |-> Nil, options |-> IF f = "outer" THEN Present(credStore)
                                                           ELSE {}]]
  /\ chain = [ids |-> <<>>, known |-> Present(hostStore), focus |-> Nil, creating |-> FALSE]
  /\ credDlg = [f \in Forms |-> ClosedCred] /\ hostDlg = ClosedHost
  /\ calls = <<>> /\ answers = <<>>
  /\ wants = [cred |-> [f \in Forms |-> Nil], hosts |-> {}]
  /\ clicks = 0 /\ crossed = FALSE

-----------------------------------------------------------------------------
(* What the user can reach: an editor that is open is in front.  Which of  *)
(* two that were opened behind each other's back is left open.             *)
AtForm(f) ==
  /\ ~credDlg[f].open
  /\ f = "outer" => ~hostDlg.open
  /\ f = "host" => hostDlg.open

Click == clicks < MaxClicks /\ clicks' = clicks + 1

Call(c) == calls' = Append(calls, c) /\ UNCHANGED answers

(* setValue(): a value that is not on offer falls back to the placeholder. *)
Shown(p, id) == [p EXCEPT !.value = IF id \in p.options THEN id ELSE Nil]

(* The event of a changed credential: every picker asks for the list.      *)
CredsChanged == <<[op |-> "creds", f |-> "outer", then |-> "keep"],
                  [op |-> "creds", f |-> "host", then |-> "keep"]>>

(* onChange of a credential picker: the jump host's form keeps the id too. *)
Tell(f, id) ==
  /\ wants' = [wants EXCEPT !.cred[f] = id]
  /\ hostDlg' = IF f = "host" THEN [hostDlg EXCEPT !.cred = id] ELSE hostDlg

(* The credential pickers.                                                 *)
PickCred(f, id) ==
  /\ Click /\ AtForm(f) /\ id \in picker[f].options \cup {Nil}
  /\ picker' = [picker EXCEPT ![f].value = id]
  /\ Tell(f, id)
  /\ UNCHANGED <<stored, chain, credDlg, wire, crossed>>

AskEditCred(f) ==
  /\ Click /\ AtForm(f) /\ picker[f].value # Nil
  /\ Call([op |-> "cred", f |-> f, id |-> picker[f].value])
  /\ UNCHANGED <<stored, picker, chain, credDlg, hostDlg, wants, crossed>>

AskDeleteCred(f) ==
  /\ Click /\ AtForm(f) /\ picker[f].value # Nil
  /\ Call([op |-> "drop cred", id |-> picker[f].value])
  /\ UNCHANGED <<stored, picker, chain, credDlg, hostDlg, wants, crossed>>

-----------------------------------------------------------------------------
(* The credential editor.  #load() fills it; the secret itself never comes *)
(* to the window, only whether there is one.                               *)
LoadedCred(d, id, c) ==
  [d EXCEPT !.open = TRUE, !.id = id, !.typed = "none",
            !.loaded = IF c = Nil THEN Nil ELSE c.auth,
            !.had = c # Nil /\ c.secret # "none",
            !.auth = IF c = Nil THEN "agent" ELSE c.auth]

NewCred(f) ==
  /\ Click /\ AtForm(f)
  /\ credDlg' = [credDlg EXCEPT ![f] = LoadedCred(@, Nil, Nil)]
  /\ crossed' = (crossed \/ credDlg[f].saving)
  /\ UNCHANGED <<stored, picker, chain, hostDlg, wire, wants>>

(* Mutant: the text typed for the old type is carried over.                *)
WithAuth_Mutant(d, auth) == [d EXCEPT !.auth = auth]

(* #changeType(): a password is no passphrase.                             *)
WithAuth(d, auth) == [d EXCEPT !.auth = auth, !.typed = "none"]

ChangeType(f, auth) ==
  /\ Click /\ credDlg[f].open /\ auth # credDlg[f].auth
  /\ credDlg' = [credDlg EXCEPT ![f] = WithAuth(@, auth)]
  /\ crossed' = (crossed \/ credDlg[f].saving)
  /\ UNCHANGED <<stored, picker, chain, hostDlg, wire, wants>>

TypeSecret(f) ==
  /\ Click /\ credDlg[f].open /\ HoldsText(credDlg[f].auth)
  /\ credDlg' = [credDlg EXCEPT ![f].typed = credDlg[f].auth]
  /\ crossed' = (crossed \/ credDlg[f].saving)
  /\ UNCHANGED <<stored, picker, chain, hostDlg, wire, wants>>

Retainable(d) == d.auth = d.loaded /\ d.had

(* #save(): one at a time for an editor.  A typed secret is sent, or the   *)
(* wish to keep the stored one, or neither.                                *)
SaveCredential(f) ==
  LET d == credDlg[f]
  IN  /\ Click /\ d.open /\ ~d.saving
      /\ Call([op |-> "save cred", f |-> f, id |-> d.id, auth |-> d.auth,
               typed |-> IF HoldsText(d.auth) THEN d.typed ELSE "none",
               keep |-> HoldsText(d.auth) /\ d.typed = "none" /\ Retainable(d)])
      /\ credDlg' = [credDlg EXCEPT ![f].saving = TRUE]
      /\ UNCHANGED <<stored, picker, chain, hostDlg, wants, crossed>>

CancelCred(f) ==
  /\ Click /\ credDlg[f].open
  /\ credDlg' = [credDlg EXCEPT ![f].open = FALSE]
  /\ crossed' = (crossed \/ credDlg[f].saving)
  /\ UNCHANGED <<stored, picker, chain, hostDlg, wire, wants>>

-----------------------------------------------------------------------------
(* The chain of jump hosts.                                                *)
Focus(h) ==
  /\ Click /\ AtForm("outer") /\ h \in chain.known
  /\ chain' = [chain EXCEPT !.focus = h]
  /\ UNCHANGED <<stored, picker, credDlg, hostDlg, wire, wants, crossed>>

AddHop ==
  /\ Click /\ AtForm("outer") /\ chain.focus \notin ToSet(chain.ids) \cup {Nil}
  /\ chain' = [chain EXCEPT !.ids = Append(@, chain.focus)]
  /\ wants' = [wants EXCEPT !.hosts = @ \cup {chain.focus}]
  /\ UNCHANGED <<stored, picker, credDlg, hostDlg, wire, crossed>>

RemoveHop(i) ==
  /\ Click /\ AtForm("outer") /\ i \in DOMAIN chain.ids
  /\ chain' = [chain EXCEPT !.ids = RemoveAt(@, i)]
  /\ wants' = [wants EXCEPT !.hosts = @ \ {chain.ids[i]}]
  /\ UNCHANGED <<stored, picker, credDlg, hostDlg, wire, crossed>>

(* #move() one place up or down: two neighbours change places.             *)
MoveHop(i) ==
  /\ Click /\ AtForm("outer") /\ {i, i + 1} \subseteq DOMAIN chain.ids
  /\ chain' = [chain EXCEPT !.ids[i] = chain.ids[i + 1], !.ids[i + 1] = chain.ids[i]]
  /\ UNCHANGED <<stored, picker, credDlg, hostDlg, wire, wants, crossed>>

(* The form is filled and the list asked for, and then the editor opens.   *)
LoadHost(id, c) ==
  /\ hostDlg' = [hostDlg EXCEPT !.id = id, !.cred = c]
  /\ wants' = [wants EXCEPT !.cred["host"] = c]

NewHost ==
  /\ Click /\ AtForm("outer")
  /\ chain' = [chain EXCEPT !.creating = TRUE]
  /\ LoadHost(Nil, Nil)
  /\ Call([op |-> "creds", f |-> "host", then |-> "open"])
  /\ crossed' = (crossed \/ hostDlg.saving)
  /\ UNCHANGED <<stored, picker, credDlg>>

AskEditHost ==
  /\ Click /\ AtForm("outer") /\ chain.focus # Nil
  /\ Call([op |-> "host", id |-> chain.focus])
  /\ UNCHANGED <<stored, picker, chain, credDlg, hostDlg, wants, crossed>>

AskDeleteHost ==
  /\ Click /\ AtForm("outer") /\ chain.focus # Nil
  /\ Call([op |-> "drop host", id |-> chain.focus])
  /\ UNCHANGED <<stored, picker, chain, credDlg, hostDlg, wants, crossed>>

SaveHost ==
  /\ Click /\ hostDlg.open /\ ~credDlg["host"].open /\ ~hostDlg.saving /\ hostDlg.cred # Nil
  /\ Call([op |-> "save host", id |-> hostDlg.id, cred |-> hostDlg.cred])
  /\ hostDlg' = [hostDlg EXCEPT !.saving = TRUE]
  /\ UNCHANGED <<stored, picker, chain, credDlg, wants, crossed>>

CancelHost ==
  /\ Click /\ hostDlg.open /\ ~credDlg["host"].open
  /\ hostDlg' = [hostDlg EXCEPT !.open = FALSE]
  /\ crossed' = (crossed \/ hostDlg.saving)
  /\ UNCHANGED <<stored, picker, chain, credDlg, wire, wants>>

-----------------------------------------------------------------------------
(* The main process serves the call that came first.                       *)
Answered(ret) ==
  /\ calls' = Tail(calls)
  /\ answers' = Append(answers, [call |-> Head(calls), ret |-> ret])
  /\ UNCHANGED <<picker, chain, credDlg, hostDlg, wants, clicks, crossed>>

Asked(op) == calls # <<>> /\ Head(calls).op = op

ServeRead ==
  /\ calls # <<>>
  /\ CASE Head(calls).op = "creds" -> Answered(Present(credStore))
       [] Head(calls).op = "hosts" -> Answered(Present(hostStore))
       [] Head(calls).op = "cred"  -> Answered(credStore[Head(calls).id])
       [] Head(calls).op = "host"  -> Answered(hostStore[Head(calls).id])
       [] OTHER -> FALSE
  /\ UNCHANGED stored

(* sealCredential(): the secret that is sent, or the one that is there if  *)
(* it is to be kept and the type is the same.                              *)
SecretFor(c, old) ==
  IF c.typed # "none" THEN c.typed
  ELSE IF c.keep /\ old # Nil /\ old.auth = c.auth THEN old.secret ELSE "none"

(* Where a save goes: its record if that is there, else a fresh one.       *)
SaveTargets(f, id) == IF id = Nil THEN DOMAIN f \ (Present(f) \cup spent) ELSE Present(f) \cap {id}

ServeSaveCred ==
  LET c == Head(calls)
  IN  /\ Asked("save cred")
      /\ \/ \E id \in SaveTargets(credStore, c.id) :
              /\ credStore' = [credStore EXCEPT ![id] =
                                 [auth |-> c.auth, secret |-> SecretFor(c, credStore[id])]]
              /\ Answered(id)
         \/ /\ SaveTargets(credStore, c.id) = {}
            /\ UNCHANGED credStore /\ Answered(Nil)
      /\ UNCHANGED <<hostStore, spent>>

ServeSaveHost ==
  LET c == Head(calls)
  IN  /\ Asked("save host")
      /\ \/ /\ credStore[c.cred] # Nil
            /\ \E id \in SaveTargets(hostStore, c.id) :
                 hostStore' = [hostStore EXCEPT ![id] = c.cred] /\ Answered(id)
         \/ /\ credStore[c.cred] = Nil \/ SaveTargets(hostStore, c.id) = {}
            /\ UNCHANGED hostStore /\ Answered(Nil)
      /\ UNCHANGED <<credStore, spent>>

(* A deletion, refused while a jump host, or anything else, refers to it.  *)
ServeDrop ==
  LET id == Head(calls).id
  IN  \/ /\ Asked("drop cred") /\ credStore[id] # Nil
         /\ \A h \in Hosts : hostStore[h] # id
         /\ credStore' = [credStore EXCEPT ![id] = Nil] /\ spent' = spent \cup {id} /\ Answered(id)
         /\ UNCHANGED hostStore
      \/ /\ Asked("drop host") /\ hostStore[id] # Nil
         /\ hostStore' = [hostStore EXCEPT ![id] = Nil] /\ spent' = spent \cup {id} /\ Answered(id)
         /\ UNCHANGED credStore
      \/ /\ Asked("drop cred") \/ Asked("drop host")
         /\ UNCHANGED stored /\ Answered(Nil)

-----------------------------------------------------------------------------
(* The window gets the answer that was sent first.                         *)
Answer(op) == answers # <<>> /\ Head(answers).call.op = op

Taken(asks) == answers' = Tail(answers) /\ calls' = calls \o asks /\ UNCHANGED <<stored, clicks, crossed>>

(* refresh(): the options are there, the selection is asserted again; then *)
(* what waited for the list goes on.                                       *)
CredsListed ==
  LET a == Head(answers)
      f == a.call.f
      p == [picker[f] EXCEPT !.options = a.ret]
      kept == Shown(p, p.value)
  IN  /\ Answer("creds")
      /\ \/ /\ a.call.then = "keep"
            /\ picker' = [picker EXCEPT ![f] = kept]
            /\ UNCHANGED <<hostDlg, wants>>
         \/ /\ a.call.then = "open"
            /\ picker' = [picker EXCEPT ![f] = Shown(kept, hostDlg.cred)]
            /\ hostDlg' = [hostDlg EXCEPT !.open = TRUE]
            /\ UNCHANGED wants
         \/ /\ a.call.then = "choose"
            /\ picker' = [picker EXCEPT ![f] = Shown(kept, a.call.id)]
            /\ Tell(f, picker'[f].value)
      /\ Taken(<<>>)
      /\ UNCHANGED <<chain, credDlg>>

CredGot ==
  LET a == Head(answers)
      f == a.call.f
  IN  /\ Answer("cred")
      /\ credDlg' = IF a.ret = Nil THEN credDlg
                    ELSE [credDlg EXCEPT ![f] = LoadedCred(@, a.call.id, a.ret)]
      /\ answers' = Tail(answers)
      /\ crossed' = (crossed \/ (a.ret # Nil /\
                      (credDlg[f].saving \/ credDlg[f].open \/ \E g \in Forms :
                         credDlg[g].open /\ credDlg[g].id = a.call.id)))
      /\ UNCHANGED <<stored, calls, clicks, picker, chain, hostDlg, wants>>

(* Mutant: the list is asked for once more, and that is all.               *)
ChooseSaved_Mutant(f, id) == CredsChanged

(* onSaved of a picker's editor: the list once more, and then the choice.  *)
ChooseSaved(f, id) ==
  Append(CredsChanged, [op |-> "creds", f |-> f, then |-> "choose", id |-> id])

CredSaved ==
  LET a == Head(answers)
      f == a.call.f
  IN  /\ Answer("save cred")
      /\ credDlg' = [credDlg EXCEPT ![f].saving = FALSE, ![f].open = @ /\ a.ret = Nil]
      /\ Taken(IF a.ret = Nil THEN <<>> ELSE ChooseSaved(f, a.ret))
      /\ wants' = IF a.ret = Nil THEN wants ELSE [wants EXCEPT !.cred[f] = a.ret]
      /\ UNCHANGED <<picker, chain, hostDlg>>

CredDropped ==
  /\ Answer("drop cred")
  /\ Taken(IF Head(answers).ret = Nil THEN <<>> ELSE CredsChanged)
  /\ UNCHANGED <<picker, chain, credDlg, hostDlg, wants>>

(* refresh(): hosts that are gone leave the chain.  One just made joins it *)
(* and is in focus; one just edited is in focus.                           *)
HostsListed ==
  LET a == Head(answers)
      kept == Only(chain.ids, a.ret)
      joins == a.call.then = "joins" /\ a.call.id \notin ToSet(kept)
  IN  /\ Answer("hosts")
      /\ chain' = [chain EXCEPT
           !.known = a.ret,
           !.ids = IF joins THEN Append(kept, a.call.id) ELSE kept,
           !.focus = IF a.call.then # "keep" /\ a.call.id \in a.ret THEN a.call.id
                     ELSE IF @ \in a.ret THEN @ ELSE Nil]
      /\ wants' = [wants EXCEPT !.hosts = IF joins THEN @ \cup {a.call.id} ELSE @]
      /\ Taken(<<>>)
      /\ UNCHANGED <<picker, credDlg, hostDlg>>

HostGot ==
  LET a == Head(answers)
  IN  /\ Answer("host")
      /\ \/ a.ret = Nil /\ Taken(<<>>) /\ UNCHANGED <<chain, hostDlg, wants>>
         \/ /\ a.ret # Nil
            /\ chain' = [chain EXCEPT !.creating = FALSE]
            /\ LoadHost(a.call.id, a.ret)
            /\ answers' = Tail(answers)
            /\ calls' = Append(calls, [op |-> "creds", f |-> "host", then |-> "open"])
            /\ crossed' = (crossed \/ hostDlg.saving \/ hostDlg.open)
            /\ UNCHANGED <<stored, clicks>>
      /\ UNCHANGED <<picker, credDlg>>

HostSaved ==
  LET a == Head(answers)
      mine == [op |-> "hosts", id |-> a.ret, then |-> IF chain.creating THEN "joins" ELSE "focus"]
  IN  /\ Answer("save host")
      /\ hostDlg' = [hostDlg EXCEPT !.saving = FALSE, !.open = @ /\ a.ret = Nil]
      /\ Taken(IF a.ret = Nil THEN <<>> ELSE <<[op |-> "hosts", then |-> "keep"], mine>>)
      /\ UNCHANGED <<picker, chain, credDlg, wants>>

HostDropped ==
  /\ Answer("drop host")
  /\ Taken(IF Head(answers).ret = Nil THEN <<>> ELSE <<[op |-> "hosts", then |-> "keep"]>>)
  /\ UNCHANGED <<picker, chain, credDlg, hostDlg, wants>>

PickersNext ==
  \/ \E f \in Forms :
       \/ \E id \in Creds \cup {Nil} : PickCred(f, id)
       \/ AskEditCred(f) \/ AskDeleteCred(f) \/ NewCred(f)
       \/ \E auth \in Auths : ChangeType(f, auth)
       \/ TypeSecret(f) \/ SaveCredential(f) \/ CancelCred(f)
  \/ \E h \in Hosts : Focus(h)
  \/ AddHop \/ (\E i \in DOMAIN chain.ids : RemoveHop(i) \/ MoveHop(i))
  \/ NewHost \/ AskEditHost \/ AskDeleteHost \/ SaveHost \/ CancelHost
  \/ ServeRead \/ ServeSaveCred \/ ServeSaveHost \/ ServeDrop
  \/ CredsListed \/ CredGot \/ CredSaved \/ CredDropped
  \/ HostsListed \/ HostGot \/ HostSaved \/ HostDropped

PickersSpec == PickersInit /\ [][PickersNext]_pickerVars

-----------------------------------------------------------------------------
AtRest == calls = <<>> /\ answers = <<>>

(* When nothing is under way, each picker offers what is stored and shows  *)
(* what the user chose in it last, by picking it or by making it in its    *)
(* editor, unless that has been deleted since; the jump host's form means  *)
(* the same credential; and the chain holds the hosts the user put there   *)
(* or made, once each, as far as they are stored.                          *)
(* (credential-picker-field.js:20-22, 93, 180-186; jump-host-picker-       *)
(* field.js:95-97, 270-283)                                                *)
ChoiceIsKept ==
  AtRest /\ ~crossed =>
    /\ \A f \in Forms :
         f = "outer" \/ hostDlg.open =>
           /\ picker[f].options = Present(credStore)
           /\ picker[f].value = IF wants.cred[f] \in Present(credStore) THEN wants.cred[f] ELSE Nil
    /\ hostDlg.open => hostDlg.cred = wants.cred["host"]
    /\ chain.known = Present(hostStore) /\ chain.focus \in chain.known \cup {Nil}
    /\ ToSet(chain.ids) = wants.hosts \cap Present(hostStore)
    /\ IsInjective(chain.ids)

(* A secret is stored only for the type it was typed for, and a stored one *)
(* goes only with its record or with a change of the type: saving an edit  *)
(* in which nothing was typed keeps it.                                    *)
(* (credential-editor-dialog.js:221-242, 386; credential-store.js:125-136) *)
SecretsFollowEdits ==
  \A c \in Creds :
    credStore'[c] # Nil =>
      /\ credStore'[c].secret \in {"none", credStore'[c].auth}
      /\ (credStore[c] # Nil /\ credStore[c].auth = credStore'[c].auth
          /\ credStore[c].secret # "none" /\ ~crossed')
           => credStore'[c].secret # "none"

(* What is chosen stays chosen, and what is typed stays with its record.   *)
PickersKeep == [][ChoiceIsKept' /\ SecretsFollowEdits]_pickerVars
=============================================================================
