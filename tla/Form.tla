--------------------------------- MODULE Form ---------------------------------
(***************************************************************************)
(* The tunnel editor's form and the record it stands for: opening fills    *)
(* the form from a stored record, editing changes it, saving turns it back *)
(* into a payload that two validators check and the store merges.          *)
(*                                                                         *)
(* Abstraction: an address is a host and a port, either of which may be    *)
(* missing; "a" and "b" are ports in range, "ssh" is 22, "bad" is out of   *)
(* range; "lo" is 127.0.0.1, "v6" an IPv6 literal.  retry stands for the   *)
(* numeric overrides (retry and lingerMs).  Jump hosts, toggles, tabs and  *)
(* hints on a field are left out.                                          *)
(***************************************************************************)
EXTENDS Naturals

CONSTANTS
  MaxEdits,  \* bound on what the user changes in the form
  MaxDialogs \* bound on the dialogs opened

Types == {"local", "remote", "dynamic"}
Ports == {"a", "b", "ssh"}   \* the ports isValidPort lets pass
Addr(h, p) == [host |-> h, port |-> p]
NoText == Addr("", "none")
Absent == Addr("none", "none")

VARIABLES
  record,   \* the stored tunnel
  fields,   \* what the fields show; Closed when the dialog is
  editing,  \* the dialog writes to the record, and not a new one
  strict,   \* a save was refused: every change validates again
  errors,   \* the fields with a message under them
  reading,  \* the name of the network is being read for a schedule
  edits, dialogs

fieldVars == <<record, fields, editing, strict, errors, reading, edits, dialogs>>

Closed == [type |-> "closed"]

-----------------------------------------------------------------------------
\* address.js: what a field's text says.

\* The text "h:p" as a field reads it: a bare IPv6 literal keeps its colons.
SplitHostPort(h, p) == IF h = "v6" /\ p # "none" THEN Addr("v6:port", "none") ELSE Addr(h, p)

EntryError(t) == t.port \notin Ports
ParseEntry(t) == Addr(IF t.host = "" THEN "lo" ELSE t.host, t.port)

TargetError(t) == t.host = "" \/ t.port = "bad"

ExitError(t) == t.port = "bad"
ParseExit(t) == IF t = NoText THEN Absent ELSE Addr(IF t.host = "" THEN "lo" ELSE t.host, t.port)

-----------------------------------------------------------------------------
\* The validators: the names of the fields at fault.

\* A stored schedule that gives a time needs days and two ends that differ; a
\* host to reach needs a port.
ScheduleErrors(s) ==
  (IF s.time = "noDays" THEN {"schedule.time.days"} ELSE {})
    \cup (IF s.time = "sameEnds" THEN {"schedule.time.end"} ELSE {})
    \cup (IF s.net = "noPort" THEN {"schedule.network.reach.port"} ELSE {})

DestinationErrors(d) ==
  (IF d.destination.host = "none" THEN {"destination.host"} ELSE {})
    \cup (IF d.destination.port \notin Ports THEN {"destination.port"} ELSE {})

ValidateDefinition(d) ==
  (IF d.name = "" THEN {"name"} ELSE {})
    \cup (IF d.type # "remote" /\ d.localPort \notin Ports THEN {"localPort"} ELSE {})
    \cup (IF d.type # "dynamic" THEN DestinationErrors(d) ELSE {})
    \cup (IF d.type = "remote" /\ d.remoteBind.port \notin Ports THEN {"remoteBind.port"} ELSE {})
    \cup (IF d.sshHost = "none" THEN {"sshHost"} ELSE {})
    \cup (IF d.credentialId = "" THEN {"credentialId"} ELSE {})
    \cup (IF d.retry = "bad" THEN {"retry.baseMs"} ELSE {})
    \cup ScheduleErrors(d.schedule)

\* The copy of the validator in the renderer, kept to the letter.
Preflight(d) == ValidateDefinition(d)

-----------------------------------------------------------------------------
\* The schedule's part of the form: a condition that is off keeps no value.

SetSchedule(s) == [time |-> IF s.time = "none" THEN "off" ELSE s.time,
                   net |-> IF s.net = "none" THEN "off" ELSE s.net]

ScheduleValue(f) == [time |-> IF f.time = "off" THEN "none" ELSE f.time,
                     net |-> IF f.net \in {"off", "empty"} THEN "none" ELSE f.net]

-----------------------------------------------------------------------------
\* From the record to the form.

\* A loopback host is not written out, nor the port 22 of the target.
Shown(h, p) == IF h \in {"none", "lo"} THEN Addr("", p) ELSE SplitHostPort(h, p)

ReconstructEntry(d) ==
  IF d.entryAddress # Absent THEN d.entryAddress
  ELSE IF d.type = "remote" THEN Shown(d.remoteBind.host, d.remoteBind.port)
  ELSE Shown(d.bindHost, d.localPort)

ReconstructTarget(d) ==
  IF d.sshHost = "none" THEN Addr(d.destination.host, "none")
  ELSE IF d.sshPort \in {"none", "ssh"} THEN Addr(d.sshHost, "none")
  ELSE SplitHostPort(d.sshHost, d.sshPort)

ReconstructExit(d) ==
  CASE d.type = "dynamic" -> NoText
    [] d.type # "dynamic" /\ d.exitAddress # Absent -> d.exitAddress
    [] d.type # "dynamic" /\ d.exitAddress = Absent ->
         LET own == d.type = "local" /\ (d.sshHost = "none" \/ d.destination.host = "lo")
         IN  IF own THEN (IF d.destination.port = d.localPort THEN NoText ELSE Addr("", d.destination.port))
             ELSE Shown(d.destination.host, d.destination.port)

Load(d) ==
  [type |-> d.type, name |-> d.name, entry |-> ReconstructEntry(d), target |-> ReconstructTarget(d),
   exit |-> ReconstructExit(d), credentialId |-> d.credentialId, retry |-> d.retry,
   schedule |-> SetSchedule(d.schedule)]

BlankForm == [type |-> "local", name |-> "", entry |-> NoText, target |-> NoText, exit |-> NoText,
              credentialId |-> "", retry |-> "none", schedule |-> [time |-> "off", net |-> "off"]]

-----------------------------------------------------------------------------
\* From the form to the record.

PortOf(failed, p) == IF failed THEN "none" ELSE p
Listens(t) == ~EntryError(t) /\ ParseEntry(t).host # "lo"

Destination(f) ==
  LET exit == ParseExit(f.exit) IN
  IF f.type = "dynamic" \/ ExitError(f.exit) THEN Absent
  ELSE Addr(IF exit.host = "none" THEN "lo" ELSE exit.host,
            IF exit.port = "none" /\ f.type = "local" THEN PortOf(EntryError(f.entry), f.entry.port)
            ELSE exit.port)

BuildPayload(f) ==
  [type |-> f.type, name |-> f.name, credentialId |-> f.credentialId, retry |-> f.retry,
   schedule |-> ScheduleValue(f.schedule), groupId |-> "none",
   sshHost |-> IF TargetError(f.target) THEN "none" ELSE f.target.host,
   sshPort |-> PortOf(TargetError(f.target), f.target.port),
   localPort |-> PortOf(f.type = "remote" \/ EntryError(f.entry), f.entry.port),
   bindHost |-> IF f.type # "remote" /\ Listens(f.entry) THEN f.entry.host ELSE "none",
   remoteBind |-> IF f.type # "remote" THEN Absent
                  ELSE Addr(IF Listens(f.entry) THEN f.entry.host ELSE "none", PortOf(EntryError(f.entry), f.entry.port)),
   destination |-> Destination(f),
   entryAddress |-> f.entry,
   exitAddress |-> IF f.type = "dynamic" \/ f.exit = NoText THEN Absent ELSE f.exit]

\* The store's update when a schedule the payload leaves out is inherited.
MergeRecord_Mutant(old, p) ==
  [p EXCEPT !.localPort = IF p.type = "remote" THEN old.localPort ELSE @,
            !.destination = IF p.type = "dynamic" THEN old.destination ELSE @,
            !.schedule = IF @.time = "none" /\ @.net = "none" THEN old.schedule ELSE @]

\* The store's update: an optional field the payload leaves out is cleared; of
\* the others only localPort and destination can be left out, and are kept.
MergeRecord(old, p) ==
  [p EXCEPT !.localPort = IF p.type = "remote" THEN old.localPort ELSE @,
            !.destination = IF p.type = "dynamic" THEN old.destination ELSE @]

\* resolveDefinition: what a record makes the engine do.
Resolve(d) ==
  LET implied == d.type = "local" /\ d.sshHost = "none"
      bare(h) == IF h = "none" THEN "lo" ELSE h
  IN [type |-> d.type, name |-> d.name, credentialId |-> d.credentialId, retry |-> d.retry,
      schedule |-> d.schedule,
      sshHost |-> IF implied THEN d.destination.host ELSE d.sshHost,
      sshPort |-> IF d.sshPort = "none" THEN "ssh" ELSE d.sshPort,
      listen |-> IF d.type = "remote" THEN Addr(bare(d.remoteBind.host), d.remoteBind.port)
                 ELSE Addr(bare(d.bindHost), d.localPort),
      destination |-> IF d.type = "dynamic" THEN Absent
                      ELSE IF implied THEN Addr("lo", d.destination.port)
                      ELSE Addr(bare(d.destination.host), d.destination.port)]

-----------------------------------------------------------------------------
\* The messages under the fields.

MapConcreteErrors_Mutant(keys) ==
  {CASE k \in {"localPort", "remoteBind.port"} -> "entryAddress"
     [] k = "sshHost" -> "targetServer"
     [] k = "destination.host" -> "exitAddress"
     [] k = "retry.baseMs" -> "retryBaseMs"
     [] OTHER -> k : k \in keys}

\* The form has one field for each address and none for its parts.
MapConcreteErrors(keys) ==
  {CASE k \in {"localPort", "remoteBind.port"} -> "entryAddress"
     [] k = "sshHost" -> "targetServer"
     [] k \in {"destination.host", "destination.port"} -> "exitAddress"
     [] k = "retry.baseMs" -> "retryBaseMs"
     [] OTHER -> k : k \in keys}

ComputeErrors(f) ==
  MapConcreteErrors(Preflight(BuildPayload(f)))
    \cup (IF EntryError(f.entry) THEN {"entryAddress"} ELSE {})
    \cup (IF TargetError(f.target) THEN {"targetServer"} ELSE {})
    \cup (IF f.type # "dynamic" /\ ExitError(f.exit) THEN {"exitAddress"} ELSE {})

\* The fields on the screen for a type and its schedule.
Displayed(f) ==
  {"name", "entryAddress", "targetServer", "credentialId", "retryBaseMs"}
    \cup (IF f.type = "dynamic" THEN {} ELSE {"exitAddress"})
    \cup (IF f.schedule.time = "off" THEN {} ELSE {"schedule.time.days", "schedule.time.end"})
    \cup (IF f.schedule.net = "off" THEN {} ELSE {"schedule.network.reach.port"})

-----------------------------------------------------------------------------
\* The records the store may hold before: those the editor wrote, and older ones
\* without the texts of their addresses or without a target server.
Plain == [type |-> "local", name |-> "n", credentialId |-> "c", retry |-> "none",
          schedule |-> [time |-> "none", net |-> "none"], groupId |-> "none",
          sshHost |-> "host", sshPort |-> "none", localPort |-> "a", bindHost |-> "none",
          remoteBind |-> Absent, destination |-> Addr("lo", "b"),
          entryAddress |-> Absent, exitAddress |-> Absent]

Seeds ==
  LET hosts == {"none", "host"}
      locals == {[Plain EXCEPT !.sshHost = h, !.destination = to, !.bindHost = b] :
                   h \in hosts, b \in hosts, to \in {Addr("lo", "a"), Addr("lo", "b"), Addr("host", "b")}}
      remotes == {[Plain EXCEPT !.type = "remote", !.localPort = "none", !.remoteBind = Addr(h, "a"), !.sshPort = p] :
                    h \in hosts, p \in {"none", "b"}}
      dynamics == {[Plain EXCEPT !.type = "dynamic", !.destination = Absent, !.retry = r] : r \in {"none", "set"}}
  IN  {d \in locals \cup remotes \cup dynamics : d.sshHost = "none" => d.destination.host # "lo"}

FormInit ==
  /\ record \in Seeds \cup {[d EXCEPT !.groupId = "g", !.schedule = [time |-> "set", net |-> "ssid"]] : d \in Seeds}
  /\ fields = Closed /\ editing = FALSE /\ strict = FALSE /\ errors = {}
  /\ reading = FALSE /\ edits = 0 /\ dialogs = 0

-----------------------------------------------------------------------------
\* The dialog.

OpenForm(f, e) ==
  /\ fields.type = "closed" /\ dialogs < MaxDialogs /\ dialogs' = dialogs + 1
  /\ fields' = f /\ editing' = e /\ strict' = FALSE /\ errors' = {}
  /\ UNCHANGED <<record, reading, edits>>

OpenEdit == OpenForm(Load(record), TRUE)
OpenCreate == OpenForm(BlankForm, FALSE)
OpenClone == OpenForm([Load(record) EXCEPT !.name = ""], FALSE)

\* Any change; after a refused save it validates again.
ChangeForm(f) ==
  /\ fields.type # "closed" /\ f # fields /\ edits < MaxEdits /\ edits' = edits + 1
  /\ fields' = f /\ errors' = IF strict THEN ComputeErrors(f) ELSE errors
  /\ UNCHANGED <<record, editing, strict, reading, dialogs>>

SetEntry == \E t \in {NoText, Addr("", "a"), Addr("host", "a"), Addr("v6", "b"), Addr("host", "none"), Addr("", "bad")} :
              ChangeForm([fields EXCEPT !.entry = t])
SetTarget == \E t \in {NoText, Addr("host", "none"), Addr("host", "ssh"), Addr("v6", "b"), Addr("host", "bad")} :
               ChangeForm([fields EXCEPT !.target = t])
SetExit == \E t \in {NoText, Addr("", "b"), Addr("host", "none"), Addr("v6", "a"), Addr("", "bad")} :
             fields.type # "dynamic" /\ ChangeForm([fields EXCEPT !.exit = t])
\* What a new tunnel needs, field after field.
FillIn == ChangeForm([fields EXCEPT !.name = "n", !.entry = Addr("", "a"), !.target = Addr("host", "none"),
                                    !.credentialId = "c"])
SetName == \E n \in {"", "n"} : ChangeForm([fields EXCEPT !.name = n])
SetCredential == ChangeForm([fields EXCEPT !.credentialId = "c"])
OnTypeChange == \E t \in Types : ChangeForm([fields EXCEPT !.type = t])
SetRetry == \E r \in {"none", "set", "bad"} : ChangeForm([fields EXCEPT !.retry = r])

SetTime == \E s \in {"off", "set", "noDays", "sameEnds"} : ChangeForm([fields EXCEPT !.schedule.time = s])
SetNet == \E s \in {"off", "empty", "ssid", "reach", "noPort"} : ChangeForm([fields EXCEPT !.schedule.net = s])

\* The name of the network arrives late, in whatever form is open by then.
UseCurrentNetwork ==
  /\ fields.type # "closed" /\ fields.schedule.net # "off" /\ ~reading /\ reading' = TRUE
  /\ UNCHANGED <<record, fields, editing, strict, errors, edits, dialogs>>

NetworkRead ==
  /\ reading /\ reading' = FALSE
  /\ \/ fields' = fields
     \/ /\ fields.type # "closed" /\ fields.schedule.net = "empty"
        /\ fields' = [fields EXCEPT !.schedule.net = "ssid"]
  /\ errors' = IF strict /\ fields' # fields THEN ComputeErrors(fields') ELSE errors
  /\ UNCHANGED <<record, editing, strict, edits, dialogs>>

CloseForm == fields' = Closed /\ strict' = FALSE /\ errors' = {}

CancelForm ==
  /\ fields.type # "closed" /\ CloseForm /\ editing' = FALSE
  /\ UNCHANGED <<record, reading, edits, dialogs>>

RefuseForm ==
  /\ fields.type # "closed" /\ ComputeErrors(fields) # {}
  /\ strict' = TRUE /\ errors' = ComputeErrors(fields)
  /\ UNCHANGED <<record, fields, editing, reading, edits, dialogs>>

\* What the save writes: the record of the dialog, or a new one.
Written == IF editing THEN MergeRecord(record, BuildPayload(fields)) ELSE BuildPayload(fields)

\* Both validators let the form pass.
MaySave ==
  /\ fields.type # "closed" /\ ComputeErrors(fields) = {}
  /\ ValidateDefinition(Written) = {}

SaveForm ==
  /\ MaySave
  /\ record' = Written /\ CloseForm /\ editing' = FALSE
  /\ UNCHANGED <<reading, edits, dialogs>>

\* The tunnel is dragged into a group: the whole record is written again.
AssignToGroup ==
  /\ fields.type = "closed" /\ record.groupId = "none" /\ dialogs < MaxDialogs
  /\ record' = [record EXCEPT !.groupId = "g"]
  /\ UNCHANGED <<fields, editing, strict, errors, reading, edits, dialogs>>

FormNext ==
  \/ OpenEdit \/ OpenCreate \/ OpenClone
  \/ CancelForm \/ RefuseForm \/ SaveForm
  \/ AssignToGroup
  \/ SetEntry \/ SetTarget \/ SetExit \/ SetName \/ FillIn \/ SetCredential
  \/ OnTypeChange \/ SetRetry \/ SetTime \/ SetNet
  \/ UseCurrentNetwork \/ NetworkRead

FormSpec == FormInit /\ [][FormNext]_fieldVars

-----------------------------------------------------------------------------
\* Properties.

\* A text that names an IPv6 host and a port is split otherwise when it is put
\* together again without brackets.
Rewritten(d) == d.sshHost = "v6" /\ d.sshPort \notin {"none", "ssh"}

\* Opening a stored tunnel and saving it as it is shows no error and changes
\* nothing of what the tunnel does.
ReopenKeeps ==
  Rewritten(record) \/ /\ ComputeErrors(Load(record)) = {}
                       /\ Resolve(MergeRecord(record, BuildPayload(Load(record)))) = Resolve(record)

\* A message is never under a field the form does not show, and a refused save
\* leaves none out: with no message in sight the form can be saved.
ErrorsAreVisible ==
  fields.type # "closed" =>
    /\ errors \subseteq Displayed(fields)
    /\ strict /\ errors = {} => ValidateDefinition(Written) = {}

\* What two forms say alike: an elided port, an empty network condition, and an
\* exit that dynamic forwarding does not show.
Said(f) == [f EXCEPT !.target = IF @.port = "ssh" THEN Addr(@.host, "none") ELSE @,
                     !.exit = IF f.type = "dynamic" THEN NoText ELSE @,
                     !.schedule.net = IF @ = "empty" THEN "off" ELSE @]

\* What the user may save is what the editor shows when it is opened again: a field
\* that was cleared stays cleared, whatever the record held before.
SavedIsShown ==
  MaySave => Rewritten(Written) \/ Load(Written) = Said(fields)

\* A tunnel leaves its group only when the user moves it to Ungrouped
\* (tunnel-store.js 86-88); its editor has no group to clear.
GroupIsKept == [][editing /\ record.groupId # "none" => record'.groupId = record.groupId]_fieldVars

\* What is stored and what the form shows say the same, both ways.
FormRoundTrips == ReopenKeeps /\ ErrorsAreVisible /\ SavedIsShown
=============================================================================
