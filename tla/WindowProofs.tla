---- MODULE WindowProofs ----
(***************************************************************************)
(* What is proved about the main window of src/src/web: the tunnel editor  *)
(* and the checks, tests and saves it starts (Editor), its form and the    *)
(* record it writes (Form), the lists and the terminal panes that follow   *)
(* the sessions of the main process (Panes), the card grid with the one    *)
(* layout every tunnel shares (Grid), and the two trees of the sidebar     *)
(* (Sidebar).  Each part has an inductive invariant that says why the      *)
(* property holds, and the property follows.                               *)
(***************************************************************************)
EXTENDS Editor, Form, Panes, Grid, Sidebar, FiniteSetTheorems, SequenceTheorems,
        WellFoundedInduction, TLAPS

-----------------------------------------------------------------------------
(* The editor.                                                             *)

EditorType ==
  /\ form \in Forms /\ warn \in Forms
  /\ opening \in 0 .. MaxOpens /\ loads \in Seq(Opens)
  /\ shown \in BOOLEAN /\ timer \in BOOLEAN
  /\ checks \subseteq [slot : Slots, host : Hosts, fresh : BOOLEAN]
  /\ records \in [Opens -> Nat] /\ saves \in Seq(Opens)
  /\ cancelled \in BOOLEAN /\ awaited \in BOOLEAN
  /\ pipe \in Seq({0} \cup Tests) /\ active \in {0} \cup Tests
  /\ DOMAIN tests = Tests

(* A check that may still speak asks about the form as it is; once it asks *)
(* about the target the entry's warning is right.                          *)
ChecksFollow ==
  ~timer /\ loads = <<>> =>
    /\ \A c \in checks : c.fresh =>
         /\ c.host = form[c.slot]
         /\ c.slot = "target" => warn["entry"] = Verdict(form["entry"])
    /\ (\A c \in checks : ~c.fresh) => \A s \in Slots : warn[s] = Verdict(form[s])

(* An opening that has written its record is closed for good, and the save *)
(* in flight is the first of its opening.                                  *)
SavesOnce ==
  /\ \A o \in Opens : records[o] <= 1 /\ (o > opening => records[o] = 0)
  /\ shown \/ loads # <<>> => opening \in Opens
  /\ opening \in Opens /\ records[opening] # 0 => ~shown /\ loads = <<>>
  /\ saves # <<>> =>
       /\ busy /\ Len(saves) = 1
       /\ Head(saves) <= opening /\ records[Head(saves)] = 0
       /\ Head(saves) = opening => loads = <<>>

(* What runs is what a cancel would abort, and after a cancel the window   *)
(* asks for nothing else.                                                  *)
CancelGoesLast ==
  /\ \A t \in Tests : tests[t] = "running" => active = t
  /\ cancelled => IF pipe = <<>> THEN \A t \in Tests : tests[t] # "running"
                  ELSE pipe[Len(pipe)] = 0

EditorInv == EditorType /\ ChecksFollow /\ SavesOnce /\ CancelGoesLast

LEMMA VerdictIsForm ==
  ASSUME NEW h \in Hosts \cup {NoHost}
  PROVE  Verdict(h) \in Hosts \cup {NoHost} /\ (h = NoHost => Verdict(h) = NoHost)
BY EditorAssumption DEF Verdict

LEMMA EditorStarts == EditorInit => EditorInv
<1> SUFFICES ASSUME EditorInit PROVE EditorInv
  OBVIOUS
<1> USE DEF EditorInit
<1>1. Blank \in Forms /\ \A s \in Slots : Blank[s] = NoHost
  BY DEF Blank, Forms
<1>2. EditorType
  <2>1. form \in Forms /\ warn \in Forms /\ opening \in 0 .. MaxOpens /\ loads \in Seq(Opens)
    BY <1>1, EditorAssumption
  <2>2. records \in [Opens -> Nat] /\ saves \in Seq(Opens) /\ DOMAIN tests = Tests
    OBVIOUS
  <2>3. pipe \in Seq({0} \cup Tests) /\ active \in {0} \cup Tests
    OBVIOUS
  <2>4. QED
    BY <2>1, <2>2, <2>3 DEF EditorType
<1>3. ChecksFollow
  BY <1>1, VerdictIsForm DEF ChecksFollow
<1>4. SavesOnce /\ CancelGoesLast
  BY EditorAssumption DEF SavesOnce, CancelGoesLast, Opens, Tests
<1>5. QED
  BY <1>2, <1>3, <1>4 DEF EditorInv

(* A check that begins now is about the form.                              *)
LEMMA RunCheckFollows ==
  ASSUME EditorType, form' \in Forms, RunCheck
  PROVE  /\ warn' \in Forms /\ checks' \subseteq [slot : Slots, host : Hosts, fresh : BOOLEAN]
         /\ \A c \in checks' : c.fresh =>
              /\ c.host = form'[c.slot]
              /\ c.slot = "target" => warn'["entry"] = Verdict(form'["entry"])
         /\ (\A c \in checks' : ~c.fresh) => \A s \in Slots : warn'[s] = Verdict(form'[s])
<1> DEFINE stale == {[c EXCEPT !.fresh = FALSE] : c \in checks}
           w1 == IF form'.entry = NoHost THEN [warn EXCEPT !.entry = NoHost] ELSE warn
           w2 == IF form'.entry = NoHost /\ form'.target = NoHost
                 THEN [w1 EXCEPT !.target = NoHost] ELSE w1
<1>1. stale \subseteq [slot : Slots, host : Hosts, fresh : BOOLEAN] /\ \A c \in stale : ~c.fresh
  BY DEF EditorType
<1>2. /\ warn' = w2
      /\ checks' = stale \cup (IF form'.entry # NoHost THEN Turn("entry", form'.entry)
                               ELSE Turn("target", form'.target))
  BY DEF RunCheck, Started
<1> HIDE DEF stale
<1>3. form'["entry"] \in Hosts \cup {NoHost} /\ form'["target"] \in Hosts \cup {NoHost}
  BY DEF Forms, Slots
<1>4. warn \in Forms
  BY DEF EditorType
<1>5. w1 \in Forms /\ w2 \in Forms
  BY <1>4 DEF Forms, Slots
<1>6. CASE form'.entry # NoHost
  <2> DEFINE d == [slot |-> "entry", host |-> form'.entry, fresh |-> TRUE]
  <2>1. checks' = stale \cup {d} /\ warn' = warn
    BY <1>2, <1>6 DEF Turn
  <2>2. d.slot # "target"
    OBVIOUS
  <2>3. /\ d \in [slot : Slots, host : Hosts, fresh : BOOLEAN]
        /\ d.fresh /\ d.slot = "entry" /\ d.host = form'["entry"]
    BY <1>3, <1>6 DEF Slots
  <2> HIDE DEF d
  <2>4. QED
    BY <1>1, <1>4, <2>1, <2>2, <2>3
<1>7. CASE form'.entry = NoHost /\ form'.target # NoHost
  <2> DEFINE d == [slot |-> "target", host |-> form'.target, fresh |-> TRUE]
  <2>1. checks' = stale \cup {d} /\ warn' = w1
    BY <1>2, <1>7 DEF Turn
  <2>2. w1["entry"] = NoHost /\ Verdict(form'["entry"]) = NoHost
    BY <1>4, <1>7, VerdictIsForm DEF Forms, Slots
  <2>3. /\ d \in [slot : Slots, host : Hosts, fresh : BOOLEAN]
        /\ d.fresh /\ d.slot = "target" /\ d.host = form'["target"]
    BY <1>3, <1>7 DEF Slots
  <2> HIDE DEF d
  <2>4. QED
    BY <1>1, <1>5, <2>1, <2>2, <2>3
<1>8. CASE form'.entry = NoHost /\ form'.target = NoHost
  <2>1. checks' = stale /\ warn' = w2
    BY <1>2, <1>8 DEF Turn
  <2>2. /\ w2["entry"] = NoHost /\ Verdict(form'["entry"]) = NoHost
        /\ w2["target"] = NoHost /\ Verdict(form'["target"]) = NoHost
    BY <1>4, <1>8, VerdictIsForm DEF Forms, Slots
  <2>3. QED
    BY <1>1, <1>5, <2>1, <2>2 DEF Slots
<1>9. QED
  BY <1>6, <1>7, <1>8

LEMMA LookedKeeps ==
  ASSUME EditorInv, NEW c \in checks, Looked(c)
  PROVE  EditorInv'
<1> DEFINE w == [warn EXCEPT ![c.slot] = Verdict(c.host)]
           w1 == [w EXCEPT !.target = NoHost]
<1>1. UNCHANGED <<timer, formVars, saveVars, testVars, mainVars>>
  BY DEF Looked
<1>2. /\ c.slot \in Slots /\ c.host \in Hosts /\ warn \in Forms /\ form \in Forms
      /\ form["entry"] \in Hosts \cup {NoHost} /\ form["target"] \in Hosts \cup {NoHost}
  BY DEF EditorInv, EditorType, Forms, Slots
<1>3. Verdict(c.host) \in Hosts \cup {NoHost}
  BY <1>2, VerdictIsForm
<1>4. w \in Forms /\ w1 \in Forms /\ w[c.slot] = Verdict(c.host) /\ w1["target"] = NoHost
      /\ w1["entry"] = w["entry"]
      /\ \A s \in Slots : s # c.slot => w[s] = warn[s]
  BY <1>2, <1>3 DEF Forms, Slots
<1> HIDE DEF w, w1
<1>5. /\ warn' \in Forms /\ checks' \subseteq [slot : Slots, host : Hosts, fresh : BOOLEAN]
      /\ ChecksFollow'
  <2>1. CASE ~c.fresh
    <3>1. checks' = checks \ {c} /\ warn' = warn
      BY <2>1 DEF Looked, Heeded
    <3>2. QED
      BY <1>1, <2>1, <3>1 DEF EditorInv, EditorType, ChecksFollow, formVars
  <2>2. CASE c.fresh /\ c.slot = "target"
    <3>1. checks' = checks \ {c} /\ warn' = w
      BY <2>2 DEF Looked, Heeded, w
    <3>2. QED
      BY <1>1, <1>2, <1>4, <2>2, <3>1 DEF EditorInv, EditorType, ChecksFollow, formVars, Slots
  <2>3. CASE c.fresh /\ c.slot = "entry" /\ form.target = NoHost
    <3>1. checks' = checks \ {c} /\ warn' = w1
      BY <2>3 DEF Looked, Heeded, w, w1, Turn
    <3>2. Verdict(form["target"]) = NoHost
      BY <2>3, <1>2, VerdictIsForm
    <3>3. QED
      BY <1>1, <1>2, <1>4, <2>3, <3>1, <3>2 DEF EditorInv, EditorType, ChecksFollow, formVars, Slots
  <2>4. CASE c.fresh /\ c.slot = "entry" /\ form.target # NoHost
    <3> DEFINE d == [slot |-> "target", host |-> form.target, fresh |-> TRUE]
    <3>1. checks' = (checks \ {c}) \cup {d} /\ warn' = w
      BY <2>4 DEF Looked, Heeded, w, Turn
    <3>2. /\ d \in [slot : Slots, host : Hosts, fresh : BOOLEAN]
          /\ d.slot = "target" /\ d.host = form["target"] /\ d.fresh
      BY <1>2, <2>4 DEF Slots
    <3> HIDE DEF d
    <3>3. QED
      BY <1>1, <1>2, <1>4, <2>4, <3>1, <3>2 DEF EditorInv, EditorType, ChecksFollow, formVars, Slots
  <2>5. QED
    BY <2>1, <2>2, <2>3, <2>4, <1>2 DEF Slots
<1>6. EditorType'
  BY <1>1, <1>5 DEF EditorInv, EditorType, formVars, saveVars, testVars, mainVars
<1>7. SavesOnce' /\ CancelGoesLast'
  BY <1>1 DEF EditorInv, SavesOnce, CancelGoesLast, formVars, saveVars, testVars, mainVars
<1>8. QED
  BY <1>5, <1>6, <1>7 DEF EditorInv

(* Opening and saving.                                                     *)
LEMMA DialogKeeps ==
  ASSUME EditorInv,
         \/ \E o \in Opens, f \in Forms : Open(o, f)
         \/ Loaded
         \/ \E s \in Slots, h \in Hosts \cup {NoHost} : Edit(s, h)
         \/ Elapsed \/ Save \/ Leave
         \/ \E ok \in BOOLEAN : SaveEnds(ok)
  PROVE  EditorInv'
<1> USE DEF EditorInv
<1> USE DEF formVars, checkVars, saveVars, testVars, mainVars
<1>1. ASSUME NEW o \in Opens, NEW f \in Forms, Open(o, f)
      PROVE  EditorInv'
  <2> USE <1>1 DEF Open
  <2>1. loads' \in Seq(Opens) /\ loads' # <<>>
    BY DEF EditorType
  <2>2. o \in 0 .. MaxOpens
    BY EditorAssumption DEF Opens
  <2>3. EditorType' /\ ChecksFollow' /\ CancelGoesLast'
    BY <2>1, <2>2 DEF EditorType, ChecksFollow, CancelGoesLast
  <2>4. SavesOnce'
    <3>1. /\ opening \in Nat /\ opening' = opening + 1 /\ opening' \in Opens
          /\ Opens \subseteq Nat /\ records[opening'] = 0
      BY EditorAssumption DEF EditorType, SavesOnce, Opens
    <3>2. saves # <<>> => Head(saves) \in Opens
      BY DEF EditorType
    <3>3. \A x \in Opens : records'[x] <= 1 /\ (x > opening' => records'[x] = 0)
      BY <3>1 DEF SavesOnce
    <3>4. saves # <<>> => Head(saves) <= opening' /\ Head(saves) # opening'
      <4> DEFINE h == Head(saves)
      <4>1. saves # <<>> => h <= opening /\ h \in Nat
        BY <3>1, <3>2 DEF SavesOnce
      <4> HIDE DEF h
      <4>2. saves # <<>> => h <= opening' /\ h # opening'
        BY <4>1, <3>1
      <4>3. QED
        BY <4>2 DEF h
    <3>5. QED
      BY <2>1, <3>1, <3>3, <3>4 DEF SavesOnce
  <2>5. QED
    BY <2>3, <2>4
<1>2. ASSUME Loaded
      PROVE  EditorInv'
  <2> USE <1>2 DEF Loaded
  <2>1. loads' \in Seq(Opens) /\ form' = form /\ form' \in Forms /\ opening \in Opens
    BY DEF EditorType, SavesOnce
  <2>2. pipe' \in Seq({0} \cup Tests)
    BY DEF EditorType, ClosePopup
  <2>3. ChecksFollow'
    BY <2>1, RunCheckFollows DEF ChecksFollow
  <2>4. EditorType'
    BY <2>1, <2>2, RunCheckFollows DEF EditorType
  <2>5. SavesOnce' /\ CancelGoesLast'
    BY <2>1 DEF SavesOnce, CancelGoesLast
  <2>6. QED
    BY <2>3, <2>4, <2>5
<1>3. ASSUME NEW s \in Slots, NEW h \in Hosts \cup {NoHost}, Edit(s, h)
      PROVE  EditorInv'
  <2>1. form' \in Forms /\ timer' = TRUE
    BY <1>3 DEF Edit, EditorType, Forms
  <2>2. /\ EditorType' /\ SavesOnce' /\ CancelGoesLast' /\ ChecksFollow'
    BY <1>3, <2>1 DEF Edit, EditorType, SavesOnce, CancelGoesLast, ChecksFollow
  <2>3. QED
    BY <2>2
<1>4. ASSUME Elapsed
      PROVE  EditorInv'
  <2> USE <1>4 DEF Elapsed
  <2>1. form' = form /\ form' \in Forms
    BY DEF EditorType
  <2>2. ChecksFollow'
    BY <2>1, RunCheckFollows DEF ChecksFollow
  <2>3. EditorType'
    BY <2>1, RunCheckFollows DEF EditorType
  <2>4. SavesOnce' /\ CancelGoesLast'
    BY DEF SavesOnce, CancelGoesLast
  <2>5. QED
    BY <2>2, <2>3, <2>4
<1>5. ASSUME Save
      PROVE  EditorInv'
  <2> USE <1>5 DEF Save, MaySubmit, InFront
  <2>1. saves = <<>> /\ opening \in Opens /\ records[opening] = 0
    BY DEF SavesOnce
  <2>2. saves' = <<opening>> /\ saves' \in Seq(Opens) /\ Len(saves') = 1 /\ Head(saves') = opening
    BY <2>1
  <2>3. EditorType' /\ ChecksFollow' /\ CancelGoesLast'
    BY <2>2 DEF EditorType, ChecksFollow, CancelGoesLast
  <2>4. SavesOnce'
    BY <2>1, <2>2 DEF SavesOnce, Opens
  <2>5. QED
    BY <2>3, <2>4
<1>6. ASSUME Leave
      PROVE  EditorInv'
  BY <1>6 DEF Leave, EditorType, ChecksFollow, SavesOnce, CancelGoesLast
<1>7. ASSUME NEW ok \in BOOLEAN, SaveEnds(ok)
      PROVE  EditorInv'
  <2> USE <1>7 DEF SaveEnds
  <2> DEFINE o == Head(saves)
  <2>1. /\ o \in Opens /\ Len(saves) = 1 /\ o <= opening /\ records[o] = 0
        /\ o = opening => loads = <<>>
    BY DEF EditorType, SavesOnce
  <2>2. saves' = <<>>
    BY <2>1, SMTT(30) DEF EditorType
  <2>3. records' = IF ok THEN [records EXCEPT ![o] = 1] ELSE records
    BY <2>1 DEF EditorType
  <2> HIDE DEF o
  <2>4. records' \in [Opens -> Nat] /\ shown' \in BOOLEAN
    BY <2>1, <2>3 DEF EditorType
  <2>5. EditorType' /\ ChecksFollow' /\ CancelGoesLast'
    BY <2>2, <2>4 DEF EditorType, ChecksFollow, CancelGoesLast
  <2>6. SavesOnce'
    <3>1. \A x \in Opens : records'[x] = IF ok /\ x = o THEN 1 ELSE records[x]
      BY <2>1, <2>3 DEF EditorType
    <3>2. Opens \subseteq Nat /\ opening \in Nat
      BY EditorAssumption DEF EditorType, Opens
    <3>3. \A x \in Opens : records'[x] <= 1 /\ (x > opening' => records'[x] = 0)
      BY <2>1, <3>1, <3>2 DEF SavesOnce
    <3>4. opening \in Opens /\ records'[opening] # 0 => ~shown' /\ loads' = <<>>
      BY <2>1, <3>1 DEF SavesOnce
    <3>5. shown' \/ loads' # <<>> => opening \in Opens
      BY DEF SavesOnce
    <3>6. QED
      BY <2>2, <3>3, <3>4, <3>5 DEF SavesOnce
  <2>7. QED
    BY <2>5, <2>6
<1>8. QED
  BY <1>1, <1>2, <1>3, <1>4, <1>5, <1>6, <1>7

(* The tests.                                                              *)
LEMMA TestsKeep ==
  ASSUME EditorInv,
         \/ \E t \in Tests : Test(t) \/ Finish(t)
         \/ Dismiss \/ Result \/ Handle
  PROVE  EditorInv'
<1> USE DEF EditorInv
<1> USE DEF formVars, checkVars, saveVars, testVars, mainVars
<1>0. UNCHANGED <<form, opening, loads, shown, timer, checks, warn, busy, saves, records>>
  BY DEF Test, Finish, Dismiss, Result, Handle
<1>1. ChecksFollow' /\ SavesOnce'
  BY <1>0 DEF ChecksFollow, SavesOnce
<1>2. ASSUME EditorType', CancelGoesLast'
      PROVE  EditorInv'
  BY <1>1, <1>2
<1>3. ASSUME NEW t \in Tests, Test(t)
      PROVE  EditorInv'
  <2> USE <1>3 DEF Test
  <2>1. tests' = [tests EXCEPT ![t] = "sent"] /\ pipe' \in Seq({0} \cup Tests)
    BY DEF EditorType
  <2>2. EditorType'
    BY <1>0, <2>1 DEF EditorType
  <2>3. CancelGoesLast'
    BY <2>1 DEF CancelGoesLast, EditorType
  <2>4. QED
    BY <1>2, <2>2, <2>3
<1>4. ASSUME NEW t \in Tests, Finish(t)
      PROVE  EditorInv'
  <2> USE <1>4 DEF Finish
  <2>1. EditorType'
    BY <1>0 DEF EditorType
  <2>2. CancelGoesLast'
    BY DEF CancelGoesLast, EditorType
  <2>3. QED
    BY <1>2, <2>1, <2>2
<1>5. ASSUME Dismiss
      PROVE  EditorInv'
  <2> USE <1>5 DEF Dismiss, ClosePopup
  <2>1. /\ pipe' \in Seq({0} \cup Tests)
        /\ awaited /\ ~cancelled => pipe' # <<>> /\ pipe'[Len(pipe')] = 0
        /\ ~(awaited /\ ~cancelled) => pipe' = pipe
    BY DEF EditorType
  <2>2. EditorType'
    BY <1>0, <2>1 DEF EditorType
  <2>3. CancelGoesLast'
    BY <2>1 DEF CancelGoesLast, EditorType
  <2>4. QED
    BY <1>2, <2>2, <2>3
<1>6. ASSUME Result
      PROVE  EditorInv'
  <2>1. EditorType' /\ CancelGoesLast'
    BY <1>0, <1>6 DEF Result, EditorType, CancelGoesLast
  <2>2. QED
    BY <1>2, <2>1
<1>7. ASSUME Handle
      PROVE  EditorInv'
  <2> USE <1>7 DEF Handle
  <2> DEFINE h == Head(pipe)
  <2>1. h \in {0} \cup Tests /\ pipe' \in Seq({0} \cup Tests) /\ h = pipe[1]
    BY DEF EditorType
  <2>2. /\ active' = h /\ DOMAIN tests' = Tests
        /\ \A t \in Tests : tests'[t] = IF t = h THEN "running"
                                        ELSE IF t = active THEN "aborted" ELSE tests[t]
    BY DEF Aborted
  <2> HIDE DEF h
  <2>3. EditorType'
    BY <1>0, <2>1, <2>2 DEF EditorType
  <2>4. \A t \in Tests : tests'[t] = "running" => t = h
    BY <2>2 DEF CancelGoesLast
  <2>5. cancelled' => IF pipe' = <<>> THEN \A t \in Tests : tests'[t] # "running"
                      ELSE pipe'[Len(pipe')] = 0
    <3>1. CASE Len(pipe) = 1
      <4>1. cancelled => h = 0
        BY <2>1, <3>1 DEF CancelGoesLast
      <4>2. 0 \notin Tests
        BY DEF Tests
      <4>3. pipe' = <<>>
        BY <3>1 DEF EditorType
      <4>4. QED
        BY <2>4, <4>1, <4>2, <4>3
    <3>2. CASE Len(pipe) > 1
      <4>1. pipe' # <<>> /\ pipe'[Len(pipe')] = pipe[Len(pipe)]
        <5>1. /\ Len(pipe') = Len(pipe) - 1 /\ pipe' \in Seq({0} \cup Tests)
              /\ \A i \in 1 .. Len(pipe') : pipe'[i] = pipe[i + 1]
          BY DEF EditorType
        <5>2. Len(pipe) \in Nat
          BY DEF EditorType
        <5>3. QED
          <6> DEFINE n == Len(pipe)
          <6>1. Len(pipe') = n - 1 /\ n \in Nat /\ n > 1
            BY <3>2, <5>1, <5>2
          <6>2. n - 1 \in 1 .. Len(pipe') /\ (n - 1) + 1 = n
            BY <6>1
          <6>3. pipe'[n - 1] = pipe[n]
            BY <5>1, <6>2
          <6>4. pipe' # <<>>
            BY <6>1
          <6>5. QED
            BY <6>1, <6>3, <6>4
      <4>2. pipe # <<>>
        OBVIOUS
      <4>3. QED
        BY <4>1, <4>2 DEF CancelGoesLast
    <3>3. Len(pipe) \in Nat \ {0}
      BY DEF EditorType
    <3> DEFINE n == Len(pipe)
    <3>4. n = 1 \/ n > 1
      <4>1. n \in Nat \ {0}
        BY <3>3
      <4> HIDE DEF n
      <4>2. QED
        BY <4>1
    <3>5. QED
      BY <3>1, <3>2, <3>4
  <2>6. CancelGoesLast'
    BY <2>2, <2>4, <2>5 DEF CancelGoesLast
  <2>7. QED
    BY <1>2, <2>3, <2>6
<1>8. QED
  BY <1>3, <1>4, <1>5, <1>6, <1>7

(* The editor's invariant: checks, saves and cancels stay in step whatever *)
(* the user does while answers are on their way (tunnel-editor.js).        *)
THEOREM EditorInductive == EditorSpec => []EditorInv
<1>1. EditorInv /\ [EditorNext]_editorVars => EditorInv'
  <2> SUFFICES ASSUME EditorInv, [EditorNext]_editorVars PROVE EditorInv'
    OBVIOUS
  <2>1. CASE UNCHANGED editorVars
    BY <2>1 DEF editorVars, formVars, checkVars, saveVars, testVars, mainVars, EditorInv,
       EditorType, ChecksFollow, SavesOnce, CancelGoesLast
  <2>2. CASE \E c \in checks : Looked(c)
    BY <2>2, LookedKeeps
  <2>3. QED
    BY <2>1, <2>2, DialogKeeps, TestsKeep DEF EditorNext
<1>2. QED
  BY <1>1, EditorStarts, PTL DEF EditorSpec

(* However late an answer comes and however often Enter is pressed: each   *)
(* settled warning is the form's, an opening writes one record, a cancel   *)
(* reaches its test.                                                       *)
THEOREM EditorInStep == EditorSpec => []EditorKeepsUp
<1>1. EditorInv => EditorKeepsUp
  BY DEF EditorInv, EditorType, ChecksFollow, SavesOnce, CancelGoesLast, EditorKeepsUp,
     WarningIsCurrent, OneRecordPerEditor, CancelReachesTest
<1>2. QED
  BY <1>1, EditorInductive, PTL

-----------------------------------------------------------------------------
(* The form.                                                               *)

Texts == [host : {"", "host", "v6", "v6:port"}, port : Ports \cup {"none", "bad"}]

Fields == [type : Types, name : {"", "n"}, entry : Texts, target : Texts, exit : Texts,
           credentialId : {"", "c"}, retry : {"none", "set", "bad"},
           schedule : [time : {"off", "set", "noDays", "sameEnds"},
                       net : {"off", "empty", "ssid", "reach", "noPort"}]]

(* What a form without a message looks like.                               *)
NoErrors(f) ==
  /\ f.name # "" /\ f.credentialId # "" /\ f.retry # "bad"
  /\ f.entry.port \in Ports
  /\ f.target.host # "" /\ f.target.port # "bad"
  /\ f.type # "dynamic" => /\ f.exit.port # "bad"
                           /\ Destination(f).host # "none" /\ Destination(f).port \in Ports
  /\ f.schedule.time \notin {"noDays", "sameEnds"} /\ f.schedule.net # "noPort"

LEMMA MapsNone ==
  ASSUME NEW keys
  PROVE  MapConcreteErrors(keys) = {} <=> keys = {}
BY DEF MapConcreteErrors

LEMMA ErrorsAre ==
  ASSUME NEW f \in Fields
  PROVE  ComputeErrors(f) = {} <=> NoErrors(f)
<1> DEFINE p == BuildPayload(f)
<1>1. /\ ComputeErrors(f) = {} <=>
           /\ ValidateDefinition(p) = {}
           /\ ~EntryError(f.entry) /\ ~TargetError(f.target) /\ (f.type # "dynamic" => ~ExitError(f.exit))
  <2>1. ComputeErrors(f) = {} <=>
           /\ MapConcreteErrors(ValidateDefinition(p)) = {}
           /\ ~EntryError(f.entry) /\ ~TargetError(f.target) /\ (f.type # "dynamic" => ~ExitError(f.exit))
    BY DEF ComputeErrors, Preflight
  <2>2. QED
    BY <2>1, MapsNone
<1>2. /\ p.type = f.type /\ p.name = f.name /\ p.credentialId = f.credentialId /\ p.retry = f.retry
      /\ p.schedule = ScheduleValue(f.schedule)
      /\ p.sshHost = IF TargetError(f.target) THEN "none" ELSE f.target.host
      /\ p.localPort = PortOf(f.type = "remote" \/ EntryError(f.entry), f.entry.port)
      /\ f.type = "remote" => p.remoteBind.port = PortOf(EntryError(f.entry), f.entry.port)
      /\ p.destination = Destination(f)
  BY DEF BuildPayload, Addr
<1>3. f.target.host # "none"
  BY DEF Fields, Texts
<1>4. ScheduleErrors(ScheduleValue(f.schedule)) = {} <=>
        f.schedule.time \notin {"noDays", "sameEnds"} /\ f.schedule.net # "noPort"
  BY DEF ScheduleErrors, ScheduleValue, Fields
<1>5. f.type # "dynamic" =>
        (DestinationErrors(p) = {} <=> Destination(f).host # "none" /\ Destination(f).port \in Ports)
  BY <1>2 DEF DestinationErrors
<1>6. ~EntryError(f.entry) /\ ~TargetError(f.target) =>
        (ValidateDefinition(p) = {} <=>
           /\ f.name # "" /\ f.credentialId # "" /\ f.retry # "bad"
           /\ f.type # "dynamic" => DestinationErrors(p) = {}
           /\ ScheduleErrors(p.schedule) = {})
  <2> HIDE DEF p
  <2>1. SUFFICES ASSUME ~EntryError(f.entry), ~TargetError(f.target)
                 PROVE  ValidateDefinition(p) = {} <=>
                          /\ f.name # "" /\ f.credentialId # "" /\ f.retry # "bad"
                          /\ f.type # "dynamic" => DestinationErrors(p) = {}
                          /\ ScheduleErrors(p.schedule) = {}
    OBVIOUS
  <2>2. /\ p.type # "remote" => p.localPort \in Ports
        /\ p.type = "remote" => p.remoteBind.port \in Ports
        /\ p.sshHost # "none"
    BY <1>2, <1>3, <2>1 DEF PortOf, EntryError
  <2>3. QED
    BY <1>2, <2>2 DEF ValidateDefinition
<1>7. QED
  BY <1>1, <1>2, <1>4, <1>5, <1>6 DEF NoErrors, EntryError, TargetError, ExitError

(* Every message is under a field of the screen.                           *)
LEMMA ErrorsShow ==
  ASSUME NEW f \in Fields
  PROVE  ComputeErrors(f) \subseteq Displayed(f)
<1> DEFINE p == BuildPayload(f)
           keys == ValidateDefinition(p)
<1>1. p.type = f.type /\ p.schedule = ScheduleValue(f.schedule)
  BY DEF BuildPayload
<1>2. /\ f.schedule.time = "off" => {"schedule.time.days", "schedule.time.end"} \cap ScheduleErrors(p.schedule) = {}
      /\ f.schedule.net = "off" => "schedule.network.reach.port" \notin ScheduleErrors(p.schedule)
      /\ ScheduleErrors(p.schedule) \subseteq {"schedule.time.days", "schedule.time.end", "schedule.network.reach.port"}
  BY <1>1 DEF ScheduleErrors, ScheduleValue
<1>3. DestinationErrors(p) \subseteq {"destination.host", "destination.port"}
  BY DEF DestinationErrors
<1>4. \A k \in keys : \/ k \in {"name", "localPort", "remoteBind.port", "sshHost", "credentialId", "retry.baseMs"}
                      \/ k \in {"destination.host", "destination.port"} /\ f.type # "dynamic"
                      \/ k \in ScheduleErrors(p.schedule)
  <2> HIDE DEF p
  <2>1. QED
    BY <1>1, <1>3 DEF ValidateDefinition
<1>5. MapConcreteErrors(keys) \subseteq Displayed(f)
  <2> SUFFICES ASSUME NEW e \in MapConcreteErrors(keys) PROVE e \in Displayed(f)
    OBVIOUS
  <2>1. PICK k \in keys :
          e = CASE k \in {"localPort", "remoteBind.port"} -> "entryAddress"
                [] k = "sshHost" -> "targetServer"
                [] k \in {"destination.host", "destination.port"} -> "exitAddress"
                [] k = "retry.baseMs" -> "retryBaseMs"
                [] OTHER -> k
    BY DEF MapConcreteErrors
  <2> HIDE DEF p, keys
  <2>2. CASE k \in {"name", "localPort", "remoteBind.port", "sshHost", "credentialId", "retry.baseMs"}
    BY <2>1, <2>2 DEF Displayed
  <2>3. CASE k \in {"destination.host", "destination.port"} /\ f.type # "dynamic"
    BY <2>1, <2>3 DEF Displayed
  <2>4. CASE k \in ScheduleErrors(p.schedule)
    <3>1. k \in {"schedule.time.days", "schedule.time.end", "schedule.network.reach.port"} /\ e = k
      BY <1>2, <2>1, <2>4
    <3>2. QED
      BY <1>2, <2>4, <3>1 DEF Displayed
  <2>5. QED
    BY <1>4, <2>2, <2>3, <2>4
<1>6. ComputeErrors(f) = MapConcreteErrors(keys)
        \cup (IF EntryError(f.entry) THEN {"entryAddress"} ELSE {})
        \cup (IF TargetError(f.target) THEN {"targetServer"} ELSE {})
        \cup (IF f.type # "dynamic" /\ ExitError(f.exit) THEN {"exitAddress"} ELSE {})
  BY DEF ComputeErrors, Preflight
<1> HIDE DEF keys, p
<1>7. QED
  BY <1>5, <1>6 DEF Displayed

(* A record that says what the form says, whatever it held before.         *)
Says(w, f) ==
  /\ w.type = f.type /\ w.name = f.name /\ w.credentialId = f.credentialId /\ w.retry = f.retry
  /\ w.schedule = ScheduleValue(f.schedule)
  /\ w.sshHost = f.target.host /\ w.sshPort = f.target.port
  /\ w.entryAddress = f.entry
  /\ w.exitAddress = IF f.type = "dynamic" \/ f.exit = NoText THEN Absent ELSE f.exit
  /\ f.type # "remote" =>
       w.localPort = f.entry.port /\ w.bindHost = IF Listens(f.entry) THEN f.entry.host ELSE "none"
  /\ f.type = "remote" =>
       w.remoteBind = Addr(IF Listens(f.entry) THEN f.entry.host ELSE "none", f.entry.port)
  /\ f.type # "dynamic" => w.destination = Destination(f)

RecordKeys == DOMAIN Plain

LEMMA PayloadSays ==
  ASSUME NEW f \in Fields, NoErrors(f)
  PROVE  Says(BuildPayload(f), f) /\ DOMAIN BuildPayload(f) = RecordKeys
<1> DEFINE p == BuildPayload(f)
<1>1. ~EntryError(f.entry) /\ ~TargetError(f.target)
  BY DEF NoErrors, EntryError, TargetError
<1>2. DOMAIN p = RecordKeys
  BY DEF BuildPayload, RecordKeys, Plain
<1>3. /\ p.type = f.type /\ p.name = f.name /\ p.credentialId = f.credentialId /\ p.retry = f.retry
      /\ p.schedule = ScheduleValue(f.schedule)
      /\ p.sshHost = f.target.host /\ p.sshPort = f.target.port
      /\ p.entryAddress = f.entry
      /\ p.exitAddress = IF f.type = "dynamic" \/ f.exit = NoText THEN Absent ELSE f.exit
  BY <1>1 DEF BuildPayload, PortOf
<1>4. f.type # "remote" =>
        p.localPort = f.entry.port /\ p.bindHost = IF Listens(f.entry) THEN f.entry.host ELSE "none"
  BY <1>1 DEF BuildPayload, PortOf
<1>5. f.type = "remote" =>
        p.remoteBind = Addr(IF Listens(f.entry) THEN f.entry.host ELSE "none", f.entry.port)
  BY <1>1 DEF BuildPayload, PortOf
<1>6. p.destination = Destination(f)
  BY DEF BuildPayload
<1>7. QED
  BY <1>2, <1>3, <1>4, <1>5, <1>6 DEF Says

LEMMA MergedSays ==
  ASSUME NEW f \in Fields, NoErrors(f), NEW old
  PROVE  /\ Says(MergeRecord(old, BuildPayload(f)), f)
         /\ DOMAIN MergeRecord(old, BuildPayload(f)) = RecordKeys
<1> DEFINE p == BuildPayload(f)
           m == MergeRecord(old, p)
<1>1. Says(p, f) /\ DOMAIN p = RecordKeys
  BY PayloadSays
<1> HIDE DEF p
<1>2. /\ DOMAIN m = RecordKeys
      /\ \A k \in RecordKeys \ {"localPort", "destination"} : m[k] = p[k]
      /\ p.type # "remote" => m.localPort = p.localPort
      /\ p.type # "dynamic" => m.destination = p.destination
  BY <1>1 DEF MergeRecord, RecordKeys, Plain
<1> HIDE DEF m
<1>3. /\ m.type = p.type /\ m.name = p.name /\ m.credentialId = p.credentialId /\ m.retry = p.retry
      /\ m.schedule = p.schedule /\ m.sshHost = p.sshHost /\ m.sshPort = p.sshPort
      /\ m.entryAddress = p.entryAddress /\ m.exitAddress = p.exitAddress
      /\ m.bindHost = p.bindHost /\ m.remoteBind = p.remoteBind
  BY <1>2 DEF RecordKeys, Plain
<1>4. Says(m, f)
  BY <1>1, <1>2, <1>3 DEF Says
<1>5. Says(m, f) /\ DOMAIN m = RecordKeys
  BY <1>2, <1>4
<1> USE DEF m, p
<1>6. QED
  BY <1>5

LEMMA TextIsThere ==
  ASSUME NEW t \in Texts
  PROVE  t # Absent /\ t.host # "none"
<1>1. t.host # "none"
  BY DEF Texts
<1>2. Absent.host = "none"
  BY DEF Absent, Addr
<1>3. QED
  BY <1>1, <1>2

LEMMA SaysExit ==
  ASSUME NEW f \in Fields, NoErrors(f), NEW w, Says(w, f)
  PROVE  ReconstructExit(w) = IF f.type = "dynamic" THEN NoText ELSE f.exit
<1>1. CASE f.type = "dynamic"
  BY <1>1 DEF ReconstructExit, Says
<1>2. CASE f.type # "dynamic" /\ f.exit # NoText
  <2>1. w.exitAddress = f.exit /\ w.type # "dynamic"
    BY <1>2 DEF Says
  <2>2. f.exit # Absent
    BY TextIsThere DEF Fields
  <2>3. QED
    BY <1>2, <2>1, <2>2 DEF ReconstructExit
<1>3. CASE f.type # "dynamic" /\ f.exit = NoText
  <2>1. w.exitAddress = Absent /\ w.type = f.type /\ w.destination = Destination(f)
    BY <1>3 DEF Says
  <2>2. NoText.port = "none" /\ NoText.host = "" /\ ParseExit(NoText) = Absent /\ Absent.host = "none"
        /\ Absent.port = "none"
    BY DEF NoText, Addr, ParseExit, Absent
  <2>3. Destination(f) = Addr("lo", IF f.type = "local" THEN f.entry.port ELSE "none")
    BY <1>3, <2>2 DEF Destination, ExitError, PortOf, NoErrors, EntryError
  <2>4. f.type = "local"
    <3>1. Destination(f).port \in Ports
      BY <1>3 DEF NoErrors
    <3>2. "none" \notin Ports
      BY DEF Ports
    <3>3. Destination(f).port = IF f.type = "local" THEN f.entry.port ELSE "none"
      BY <2>3 DEF Addr
    <3>4. QED
      BY <3>1, <3>2, <3>3
  <2>5. w.localPort = f.entry.port /\ w.destination.host = "lo" /\ w.destination.port = f.entry.port
    BY <2>1, <2>3, <2>4 DEF Says, Addr
  <2>6. QED
    BY <1>3, <2>1, <2>4, <2>5 DEF ReconstructExit
<1>4. QED
  BY <1>1, <1>2, <1>3

(* Opened again, the record fills the form as it was.                      *)
LEMMA SaysLoads ==
  ASSUME NEW f \in Fields, NoErrors(f), NEW w, Says(w, f)
  PROVE  Rewritten(w) \/ Load(w) = Said(f)
<1> SUFFICES ASSUME ~Rewritten(w) PROVE Load(w) = Said(f)
  OBVIOUS
<1>1. /\ f.entry \in Texts /\ f.target \in Texts /\ f.exit \in Texts
      /\ f.schedule \in [time : {"off", "set", "noDays", "sameEnds"}, net : {"off", "empty", "ssid", "reach", "noPort"}]
      /\ f.type \in Types
  BY DEF Fields
<1>2. ReconstructEntry(w) = f.entry
  <2>1. f.entry # Absent
    BY <1>1, TextIsThere
  <2>2. QED
    BY <2>1 DEF ReconstructEntry, Says
<1>3. ReconstructTarget(w) = IF f.target.port = "ssh" THEN Addr(f.target.host, "none") ELSE f.target
  <2>1. f.target.host # "none" /\ f.target = Addr(f.target.host, f.target.port)
    BY <1>1 DEF Texts, Addr
  <2>2. w.sshHost = f.target.host /\ w.sshPort = f.target.port
    BY DEF Says
  <2>3. QED
    BY <2>1, <2>2 DEF ReconstructTarget, Rewritten, SplitHostPort
<1>4. ReconstructExit(w) = IF f.type = "dynamic" THEN NoText ELSE f.exit
  BY SaysExit
<1>5. SetSchedule(w.schedule) = [f.schedule EXCEPT !.net = IF @ = "empty" THEN "off" ELSE @]
  <2>1. f.schedule = [time |-> f.schedule.time, net |-> f.schedule.net]
    BY <1>1
  <2>2. w.schedule = ScheduleValue(f.schedule)
    BY DEF Says
  <2>3. f.schedule.time # "none" /\ f.schedule.net # "none"
    BY <1>1
  <2>4. QED
    BY <2>1, <2>2, <2>3 DEF SetSchedule, ScheduleValue
<1>6. Load(w) = [type |-> f.type, name |-> f.name, entry |-> f.entry,
                 target |-> IF f.target.port = "ssh" THEN Addr(f.target.host, "none") ELSE f.target,
                 exit |-> IF f.type = "dynamic" THEN NoText ELSE f.exit,
                 credentialId |-> f.credentialId, retry |-> f.retry,
                 schedule |-> [f.schedule EXCEPT !.net = IF @ = "empty" THEN "off" ELSE @]]
  BY <1>2, <1>3, <1>4, <1>5 DEF Load, Says
<1>7. f = [type |-> f.type, name |-> f.name, entry |-> f.entry, target |-> f.target, exit |-> f.exit,
           credentialId |-> f.credentialId, retry |-> f.retry, schedule |-> f.schedule]
  BY DEF Fields
<1>8. Said(f) = [type |-> f.type, name |-> f.name, entry |-> f.entry,
                 target |-> IF f.target.port = "ssh" THEN Addr(f.target.host, "none") ELSE f.target,
                 exit |-> IF f.type = "dynamic" THEN NoText ELSE f.exit,
                 credentialId |-> f.credentialId, retry |-> f.retry,
                 schedule |-> [f.schedule EXCEPT !.net = IF @ = "empty" THEN "off" ELSE @]]
  <2> DEFINE tg == IF f.target.port = "ssh" THEN Addr(f.target.host, "none") ELSE f.target
             ex == IF f.type = "dynamic" THEN NoText ELSE f.exit
             sc == [f.schedule EXCEPT !.net = IF @ = "empty" THEN "off" ELSE @]
             keys == {"type", "name", "entry", "target", "exit", "credentialId", "retry", "schedule"}
  <2>1. Said(f) = [f EXCEPT !.target = tg, !.exit = ex, !.schedule = sc]
    BY DEF Said
  <2>2. f \in [keys -> {f[k] : k \in keys}]
    BY <1>7
  <2> HIDE DEF tg, ex, sc
  <2>3. Said(f) = [type |-> f.type, name |-> f.name, entry |-> f.entry, target |-> tg,
                   exit |-> ex, credentialId |-> f.credentialId, retry |-> f.retry, schedule |-> sc]
    BY <2>1, <2>2
  <2> USE DEF tg, ex, sc
  <2>4. QED
    BY <2>3
<1>9. QED
  BY <1>6, <1>8

LEMMA SaidIsForm ==
  ASSUME NEW f \in Fields
  PROVE  /\ Said(f) \in Fields
         /\ Said(f).type = f.type /\ Said(f).name = f.name /\ Said(f).credentialId = f.credentialId
         /\ Said(f).retry = f.retry /\ Said(f).entry = f.entry
         /\ Said(f).target = IF f.target.port = "ssh" THEN Addr(f.target.host, "none") ELSE f.target
         /\ f.type # "dynamic" => Said(f).exit = f.exit
         /\ Said(f).schedule = [f.schedule EXCEPT !.net = IF @ = "empty" THEN "off" ELSE @]
<1> DEFINE tg == IF f.target.port = "ssh" THEN Addr(f.target.host, "none") ELSE f.target
           ex == IF f.type = "dynamic" THEN NoText ELSE f.exit
           sc == [f.schedule EXCEPT !.net = IF @ = "empty" THEN "off" ELSE @]
<1>1. Said(f) = [f EXCEPT !.target = tg, !.exit = ex, !.schedule = sc]
  BY DEF Said
<1>2. tg \in Texts /\ ex \in Texts
  BY DEF Fields, Texts, Addr, NoText, Ports
<1>3. sc \in [time : {"off", "set", "noDays", "sameEnds"}, net : {"off", "empty", "ssid", "reach", "noPort"}]
  BY DEF Fields
<1> HIDE DEF tg, ex, sc
<1>4. /\ Said(f) \in Fields
      /\ Said(f).type = f.type /\ Said(f).name = f.name /\ Said(f).credentialId = f.credentialId
      /\ Said(f).retry = f.retry /\ Said(f).entry = f.entry
      /\ Said(f).target = tg /\ Said(f).exit = ex /\ Said(f).schedule = sc
  BY <1>1, <1>2, <1>3 DEF Fields
<1> USE DEF tg, ex, sc
<1>5. QED
  BY <1>4

(* What the two forms mean is the same.                                    *)
LEMMA SaidMeans ==
  ASSUME NEW f \in Fields, NoErrors(f)
  PROVE  /\ NoErrors(Said(f))
         /\ ScheduleValue(Said(f).schedule) = ScheduleValue(f.schedule)
         /\ f.type # "dynamic" => Destination(Said(f)) = Destination(f)
<1> DEFINE g == Said(f)
<1>1. /\ g.type = f.type /\ g.name = f.name /\ g.credentialId = f.credentialId
      /\ g.retry = f.retry /\ g.entry = f.entry
      /\ g.target = IF f.target.port = "ssh" THEN Addr(f.target.host, "none") ELSE f.target
      /\ f.type # "dynamic" => g.exit = f.exit
      /\ g.schedule = [f.schedule EXCEPT !.net = IF @ = "empty" THEN "off" ELSE @]
  BY SaidIsForm
<1> HIDE DEF g
<1>2. f.type # "dynamic" => Destination(g) = Destination(f)
  BY <1>1 DEF Destination
<1>3. /\ g.schedule.time = f.schedule.time
      /\ g.schedule.net = IF f.schedule.net = "empty" THEN "off" ELSE f.schedule.net
  BY <1>1 DEF Fields
<1>4. ScheduleValue(g.schedule) = ScheduleValue(f.schedule)
  BY <1>3 DEF ScheduleValue
<1>5. g.target.host # "" /\ g.target.port # "bad"
  <2>1. f.target.host # "" /\ f.target.port # "bad"
    BY DEF NoErrors
  <2>2. g.target.host = f.target.host /\ g.target.port \in {f.target.port, "none"}
    BY <1>1 DEF Addr
  <2>3. QED
    BY <2>1, <2>2
<1>6. NoErrors(g)
  BY <1>1, <1>2, <1>3, <1>5 DEF NoErrors
<1> USE DEF g
<1>7. QED
  BY <1>2, <1>4, <1>6

(* Two records that say the same do the same.                              *)
LEMMA SameWork ==
  ASSUME NEW f \in Fields, NoErrors(f), NEW w, Says(w, f), NEW m, Says(m, Said(f))
  PROVE  Resolve(m) = Resolve(w)
<1> DEFINE g == Said(f)
<1>1. /\ g.type = f.type /\ g.name = f.name /\ g.credentialId = f.credentialId
      /\ g.retry = f.retry /\ g.entry = f.entry
      /\ g.target = IF f.target.port = "ssh" THEN Addr(f.target.host, "none") ELSE f.target
      /\ ScheduleValue(g.schedule) = ScheduleValue(f.schedule)
      /\ f.type # "dynamic" => Destination(g) = Destination(f)
  BY SaidIsForm, SaidMeans
<1>2. Says(m, g)
  OBVIOUS
<1> HIDE DEF g
<1>3. /\ m.type = w.type /\ m.name = w.name /\ m.credentialId = w.credentialId /\ m.retry = w.retry
      /\ m.schedule = w.schedule
      /\ m.sshPort = (IF w.sshPort = "ssh" THEN "none" ELSE w.sshPort) /\ m.sshHost = w.sshHost
      /\ w.type # "remote" => m.localPort = w.localPort /\ m.bindHost = w.bindHost
      /\ w.type = "remote" => m.remoteBind = w.remoteBind
      /\ w.type # "dynamic" => m.destination = w.destination
  BY <1>1, <1>2 DEF Says, Addr
<1>4. w.sshHost # "none"
  BY DEF Says, Fields, Texts
<1>5. QED
  BY <1>3, <1>4 DEF Resolve

(* A record that opens without an error and is saved as it was.            *)
Reopens(d) ==
  Rewritten(d) \/ /\ ComputeErrors(Load(d)) = {}
                  /\ Resolve(MergeRecord(d, BuildPayload(Load(d)))) = Resolve(d)

LEMMA SaidReopens ==
  ASSUME NEW f \in Fields, NoErrors(f), NEW w, Says(w, f)
  PROVE  Reopens(w)
<1> SUFFICES ASSUME ~Rewritten(w)
             PROVE  /\ ComputeErrors(Load(w)) = {}
                    /\ Resolve(MergeRecord(w, BuildPayload(Load(w)))) = Resolve(w)
  BY DEF Reopens
<1>1. Load(w) = Said(f) /\ Said(f) \in Fields /\ NoErrors(Said(f))
  BY SaysLoads, SaidIsForm, SaidMeans
<1>2. ComputeErrors(Said(f)) = {}
  BY <1>1, ErrorsAre
<1>3. Says(MergeRecord(w, BuildPayload(Said(f))), Said(f))
  BY <1>1, MergedSays
<1>4. Resolve(MergeRecord(w, BuildPayload(Said(f)))) = Resolve(w)
  BY <1>3, SameWork
<1>5. QED
  BY <1>1, <1>2, <1>4

(* A record saved by the editor always fills a form.                       *)
LEMMA SaidFills ==
  ASSUME NEW f \in Fields, NoErrors(f), NEW w, Says(w, f)
  PROVE  Load(w) \in Fields
<1>1. CASE ~Rewritten(w)
  BY <1>1, SaysLoads, SaidIsForm
<1>2. CASE Rewritten(w)
  <2>1. ReconstructTarget(w) = Addr("v6:port", "none")
    BY <1>2 DEF Rewritten, ReconstructTarget, SplitHostPort
  <2>2. ReconstructTarget(w) \in Texts
    BY <2>1 DEF Texts, Addr
  <2>3. ReconstructEntry(w) = f.entry
    <3>1. f.entry # Absent
      BY TextIsThere DEF Fields
    <3>2. QED
      BY <3>1 DEF ReconstructEntry, Says
  <2>4. SetSchedule(w.schedule) \in [time : {"off", "set", "noDays", "sameEnds"},
                                     net : {"off", "empty", "ssid", "reach", "noPort"}]
    <3>1. w.schedule = ScheduleValue(f.schedule)
      BY DEF Says
    <3>2. f.schedule.time \in {"off", "set", "noDays", "sameEnds"}
          /\ f.schedule.net \in {"off", "empty", "ssid", "reach", "noPort"}
      BY DEF Fields
    <3>3. QED
      BY <3>1, <3>2 DEF SetSchedule, ScheduleValue
  <2>5. ReconstructExit(w) \in Texts
    <3>1. f.exit \in Texts /\ NoText \in Texts
      BY DEF Fields, Texts, NoText, Addr
    <3>2. QED
      BY <3>1, SaysExit
  <2>6. QED
    BY <2>2, <2>3, <2>4, <2>5 DEF Load, Says, Fields
<1>3. QED
  BY <1>1, <1>2

(* What the records of an older store look like.                           *)
Older(d) ==
  /\ DOMAIN d = RecordKeys /\ d.entryAddress = Absent /\ d.exitAddress = Absent
  /\ d.name = "n" /\ d.credentialId = "c" /\ d.retry \in {"none", "set"}
  /\ d.schedule.time \in {"none", "set"} /\ d.schedule.net \in {"none", "ssid"}
  /\ d.schedule = [time |-> d.schedule.time, net |-> d.schedule.net]
  /\ \/ /\ d.type = "local" /\ d.sshHost \in {"none", "host"} /\ d.sshPort = "none"
        /\ d.localPort = "a" /\ d.bindHost \in {"none", "host"}
        /\ d.destination \in {Addr("lo", "a"), Addr("lo", "b"), Addr("host", "b")}
        /\ d.sshHost = "none" => d.destination.host # "lo"
     \/ /\ d.type = "remote" /\ d.sshHost = "host" /\ d.sshPort \in {"none", "b"}
        /\ d.remoteBind \in {Addr("none", "a"), Addr("host", "a")} /\ d.destination = Addr("lo", "b")
     \/ /\ d.type = "dynamic" /\ d.sshHost = "host" /\ d.sshPort = "none"
        /\ d.localPort = "a" /\ d.bindHost = "none"

(* The addresses of an older record, as texts.                             *)
LEMMA OlderTexts ==
  /\ NoText \in Texts /\ Addr("", "a") \in Texts /\ Addr("host", "a") \in Texts
  /\ Addr("", "b") \in Texts /\ Addr("host", "b") \in Texts /\ Addr("host", "none") \in Texts
BY DEF NoText, Addr, Texts, Ports

LEMMA ExitsParse ==
  ASSUME NEW h \in {"", "host"}
  PROVE  /\ Addr(h, "b") # NoText
         /\ ParseExit(Addr(h, "b")) = Addr(IF h = "" THEN "lo" ELSE h, "b")
         /\ ~ExitError(Addr(h, "b")) /\ Addr(h, "b").port = "b"
<1>1. Addr(h, "b").port = "b" /\ Addr(h, "b").host = h /\ NoText.port = "none"
  BY DEF Addr, NoText
<1>2. QED
  BY <1>1 DEF ParseExit, ExitError

LEMMA OlderEntry ==
  ASSUME NEW d, Older(d)
  PROVE  /\ ReconstructEntry(d) = IF d.type = "remote" THEN Shown(d.remoteBind.host, "a") ELSE Shown(d.bindHost, "a")
         /\ ReconstructEntry(d) \in {Addr("", "a"), Addr("host", "a")}
<1>1. ReconstructEntry(d) = IF d.type = "remote" THEN Shown(d.remoteBind.host, "a") ELSE Shown(d.bindHost, "a")
  BY DEF ReconstructEntry, Older, Addr, NoText, Absent
<1>2. d.type = "remote" => d.remoteBind.host \in {"none", "host"}
  BY DEF Older, Addr, NoText, Absent
<1>3. d.type # "remote" => d.bindHost \in {"none", "host"}
  BY  DEF Older
<1>4. Shown("none", "a") = Addr("", "a") /\ Shown("host", "a") = Addr("host", "a")
  BY  DEF Shown, SplitHostPort
<1>5. QED
  BY <1>1, <1>2, <1>3, <1>4

LEMMA OlderTarget ==
  ASSUME NEW d, Older(d)
  PROVE  ReconstructTarget(d) = Addr("host", d.sshPort) /\ d.sshPort \in {"none", "b"}
<1>1. d.sshPort \in {"none", "b"} /\ d.sshHost \in {"none", "host"}
  BY  DEF Older
<1>2. d.sshHost = "none" => d.destination.host = "host" /\ d.sshPort = "none"
  BY DEF Older, Addr, NoText, Absent
<1>3. QED
  BY <1>1, <1>2 DEF ReconstructTarget, SplitHostPort

LEMMA OlderExit ==
  ASSUME NEW d, Older(d)
  PROVE  /\ ReconstructExit(d) \in {NoText, Addr("", "b"), Addr("host", "b")}
         /\ d.type = "dynamic" => ReconstructExit(d) = NoText
         /\ d.type = "remote" => ReconstructExit(d) = Addr("", "b")
         /\ d.type = "local" =>
              IF d.sshHost = "none" \/ d.destination.host = "lo"
              THEN ReconstructExit(d) = IF d.destination.port = "a" THEN NoText ELSE Addr("", "b")
              ELSE ReconstructExit(d) = Addr("host", "b")
<1>1. CASE d.type = "dynamic"
  BY <1>1 DEF ReconstructExit
<1>2. CASE d.type = "remote"
  <2>1. d.destination.host = "lo" /\ d.destination.port = "b" /\ d.exitAddress = Absent
    BY <1>2 DEF Older, Addr, NoText, Absent
  <2>2. ReconstructExit(d) = Addr("", "b")
    BY <1>2, <2>1 DEF ReconstructExit, Shown
  <2>3. QED
    BY <1>2, <2>2
<1>3. CASE d.type = "local"
  <2>1. /\ d.exitAddress = Absent /\ d.localPort = "a"
        /\ d.destination.host \in {"lo", "host"} /\ d.destination.port \in {"a", "b"}
        /\ d.destination.host = "host" => d.destination.port = "b"
    BY <1>3 DEF Older, Addr, NoText, Absent
  <2>2. Shown("host", "b") = Addr("host", "b")
    BY  DEF Shown, SplitHostPort
  <2>3. QED
    BY <1>3, <2>1, <2>2 DEF ReconstructExit
<1>4. QED
  BY <1>1, <1>2, <1>3 DEF Older

LEMMA OlderReopens ==
  ASSUME NEW d, Older(d)
  PROVE  Load(d) \in Fields /\ Reopens(d)
<1> DEFINE f == Load(d)
           b == BuildPayload(f)
           m == MergeRecord(d, b)
<1>1. /\ f.type = d.type /\ f.name = "n" /\ f.credentialId = "c" /\ f.retry = d.retry
      /\ f.entry = ReconstructEntry(d) /\ f.target = Addr("host", d.sshPort)
      /\ f.exit = ReconstructExit(d) /\ f.schedule = SetSchedule(d.schedule)
  BY OlderTarget DEF Load, Older
<1>2. f.schedule.time \in {"off", "set"} /\ f.schedule.net \in {"off", "ssid"}
  BY <1>1 DEF SetSchedule, Older
<1>en. ReconstructEntry(d) \in {Addr("", "a"), Addr("host", "a")}
  BY OlderEntry
<1>ta. d.sshPort \in {"none", "b"}
  BY OlderTarget
<1>ex. /\ ReconstructExit(d) \in {NoText, Addr("", "b"), Addr("host", "b")}
       /\ d.type = "remote" => ReconstructExit(d) = Addr("", "b")
       /\ d.type = "local" =>
            IF d.sshHost = "none" \/ d.destination.host = "lo"
            THEN ReconstructExit(d) = IF d.destination.port = "a" THEN NoText ELSE Addr("", "b")
            ELSE ReconstructExit(d) = Addr("host", "b")
  BY OlderExit
<1>di. /\ d.type \in Types /\ d.retry \in {"none", "set"} /\ d.sshHost \in {"none", "host"}
       /\ d.type # "dynamic" =>
            /\ d.destination.host \in {"lo", "host"} /\ d.destination.port \in {"a", "b"}
            /\ d.destination.host = "host" => d.destination.port = "b"
            /\ d.sshHost = "none" => d.type = "local" /\ d.destination.host = "host"
       /\ d.type = "remote" => d.destination.host = "lo" /\ d.destination.port = "b"
       /\ d.type # "local" => d.sshHost = "host"
  BY DEF Older, Addr, Types
<1>3. f \in Fields
  <2>1. ReconstructEntry(d) \in Texts /\ ReconstructExit(d) \in Texts
    BY <1>en, <1>ex, OlderTexts
  <2>2. Addr("host", d.sshPort) \in Texts
    <3>1. Addr("host", "none") \in Texts /\ Addr("host", "b") \in Texts
      BY OlderTexts
    <3>2. QED
      BY <1>ta, <3>1
  <2>3. SetSchedule(d.schedule) \in [time : {"off", "set", "noDays", "sameEnds"},
                                     net : {"off", "empty", "ssid", "reach", "noPort"}]
    BY DEF SetSchedule, Older
  <2>4. f = [type |-> d.type, name |-> "n", entry |-> ReconstructEntry(d), target |-> Addr("host", d.sshPort),
             exit |-> ReconstructExit(d), credentialId |-> "c", retry |-> d.retry,
             schedule |-> SetSchedule(d.schedule)]
    BY OlderTarget DEF Load, Older
  <2> HIDE DEF f
  <2>5. QED
    BY <2>1, <2>2, <2>3, <2>4, <1>di DEF Fields
<1> HIDE DEF f
<1>4. f.entry.port = "a" /\ f.entry.host \in {"", "host"} /\ ~EntryError(f.entry)
  <2>1. f.entry = Addr("", "a") \/ f.entry = Addr("host", "a")
    BY <1>1, <1>en
  <2>2. f.entry.port = "a" /\ f.entry.host \in {"", "host"}
    <3>1. /\ Addr("", "a").port = "a" /\ Addr("", "a").host = ""
          /\ Addr("host", "a").port = "a" /\ Addr("host", "a").host = "host"
      BY DEF Addr
    <3>2. QED
      BY <2>1, <3>1
  <2>3. QED
    BY <2>2 DEF EntryError, Ports
<1>5. d.type # "dynamic" =>
        /\ Destination(f).host = IF d.sshHost = "none" THEN "lo" ELSE d.destination.host
        /\ Destination(f).port = d.destination.port
        /\ f.exit.port # "bad"
  <2>1. SUFFICES ASSUME d.type # "dynamic"
                 PROVE  /\ Destination(f).host = IF d.sshHost = "none" THEN "lo" ELSE d.destination.host
                        /\ Destination(f).port = d.destination.port
                        /\ f.exit.port # "bad"
    OBVIOUS
  <2>2. CASE f.exit = NoText
    <3>1. Addr("", "b") # NoText /\ Addr("host", "b") # NoText
      BY ExitsParse
    <3>2. d.type = "local" /\ d.destination.port = "a"
      BY <1>1, <1>ex, <1>di, <2>1, <2>2, <3>1 DEF Types
    <3>3. d.destination.host = "lo" /\ d.sshHost = "host"
      BY <1>di, <2>1, <3>2
    <3>4. NoText.port = "none" /\ ParseExit(NoText) = Absent /\ Absent.host = "none" /\ Absent.port = "none"
      BY DEF NoText, ParseExit, Absent, Addr
    <3>5. ~ExitError(f.exit)
      BY <2>2, <3>4 DEF ExitError
    <3>6. Destination(f) = Addr("lo", "a")
      BY <1>1, <1>4, <2>2, <3>2, <3>4, <3>5 DEF Destination, PortOf
    <3>7. QED
      BY <2>2, <3>2, <3>3, <3>4, <3>6 DEF Addr
  <2>3. ASSUME NEW h \in {"", "host"}, f.exit = Addr(h, "b")
        PROVE  /\ Destination(f) = Addr(IF h = "" THEN "lo" ELSE h, "b")
               /\ f.exit.port = "b"
    <3>1. ParseExit(f.exit) = Addr(IF h = "" THEN "lo" ELSE h, "b") /\ ~ExitError(f.exit) /\ f.exit.port = "b"
      BY <2>3, ExitsParse
    <3>2. (IF h = "" THEN "lo" ELSE h) # "none" /\ f.type # "dynamic"
      BY <1>1, <2>1
    <3>3. ParseExit(f.exit).host = (IF h = "" THEN "lo" ELSE h) /\ ParseExit(f.exit).port = "b"
      <4> DEFINE t == Addr(IF h = "" THEN "lo" ELSE h, "b")
      <4>1. t.host = (IF h = "" THEN "lo" ELSE h) /\ t.port = "b"
        BY DEF Addr
      <4> HIDE DEF t
      <4>2. ParseExit(f.exit) = t
        BY <3>1 DEF t
      <4>3. QED
        BY <4>1, <4>2
    <3>4. QED
      BY <3>1, <3>2, <3>3 DEF Destination
  <2>4. CASE f.exit = Addr("", "b")
    <3>1. Destination(f) = Addr("lo", "b") /\ f.exit.port = "b"
      BY <2>3, <2>4
    <3>2. Addr("", "b") # NoText
      BY ExitsParse
    <3>3. Addr("", "b") # Addr("host", "b")
      <4>1. Addr("", "b").host = "" /\ Addr("host", "b").host = "host"
        BY DEF Addr
      <4>2. QED
        BY <4>1
    <3>4. d.destination.port = "b" /\ (d.sshHost = "none" \/ d.destination.host = "lo")
      BY <1>1, <1>ex, <1>di, <2>1, <2>4, <3>2, <3>3 DEF Types
    <3>5. Destination(f).host = "lo" /\ Destination(f).port = "b"
      BY <3>1 DEF Addr
    <3>6. QED
      BY <3>1, <3>4, <3>5
  <2>5. CASE f.exit = Addr("host", "b")
    <3>1. Destination(f) = Addr("host", "b") /\ f.exit.port = "b"
      BY <2>3, <2>5
    <3>2. Addr("host", "b") # NoText
      BY ExitsParse
    <3>3. Addr("", "b") # Addr("host", "b")
      <4>1. Addr("", "b").host = "" /\ Addr("host", "b").host = "host"
        BY DEF Addr
      <4>2. QED
        BY <4>1
    <3>4. d.destination.port = "b" /\ d.destination.host = "host" /\ d.sshHost = "host"
      BY <1>1, <1>ex, <1>di, <2>1, <2>5, <3>2, <3>3 DEF Types
    <3>5. Destination(f).host = "host" /\ Destination(f).port = "b"
      BY <3>1 DEF Addr
    <3>6. QED
      BY <3>1, <3>4, <3>5
  <2>6. QED
    BY <1>1, <1>ex, <2>2, <2>4, <2>5
<1>6. NoErrors(f)
  <2>1. f.target.host = "host" /\ f.target.port = d.sshPort
    BY <1>1 DEF Addr
  <2>2. f.target.host # "" /\ f.target.port # "bad"
    BY <1>ta, <2>1
  <2>3. f.type # "dynamic" => Destination(f).host # "none" /\ Destination(f).port \in Ports /\ f.exit.port # "bad"
    BY <1>1, <1>5, <1>di DEF Ports
  <2>4. f.entry.port \in Ports
    BY <1>4 DEF Ports
  <2>5. f.name # "" /\ f.credentialId # "" /\ f.retry # "bad"
    BY <1>1, <1>di
  <2>6. QED
    BY <1>2, <2>2, <2>3, <2>4, <2>5 DEF NoErrors
<1>7. Says(m, f)
  BY <1>3, <1>6, MergedSays
<1> HIDE DEF m
<1>8. m.schedule = d.schedule
  <2>1. m.schedule = ScheduleValue(SetSchedule(d.schedule))
    BY <1>1, <1>7 DEF Says
  <2>2. QED
    BY <2>1 DEF ScheduleValue, SetSchedule, Older
<1>9. Resolve(m) = Resolve(d)
  <2>1. /\ m.type = d.type /\ m.name = d.name /\ m.credentialId = d.credentialId /\ m.retry = d.retry
        /\ m.sshHost = "host" /\ m.sshPort = d.sshPort
    <3>1. f.target.host = "host" /\ f.target.port = d.sshPort
      BY <1>1 DEF Addr
    <3>2. d.name = "n" /\ d.credentialId = "c"
      BY DEF Older
    <3>3. QED
      BY <1>1, <1>7, <3>1, <3>2 DEF Says
  <2>2. Listens(f.entry) <=> f.entry.host = "host"
    BY <1>4 DEF Listens, ParseEntry, Addr, NoText, Absent
  <2>3. d.type = "remote" =>
          m.remoteBind.port = "a" /\ m.remoteBind.host = d.remoteBind.host /\ d.remoteBind.port = "a"
    <3>1. SUFFICES ASSUME d.type = "remote"
                   PROVE m.remoteBind.port = "a" /\ m.remoteBind.host = d.remoteBind.host /\ d.remoteBind.port = "a"
      OBVIOUS
    <3>2. f.entry = Shown(d.remoteBind.host, "a") /\ d.remoteBind \in {Addr("none", "a"), Addr("host", "a")}
      BY <1>1, <3>1, OlderEntry DEF Older
    <3>3. d.remoteBind.host \in {"none", "host"} /\ d.remoteBind.port = "a"
          /\ (f.entry.host = "host" <=> d.remoteBind.host = "host")
      <4>1. /\ Addr("none", "a").port = "a" /\ Addr("none", "a").host = "none"
            /\ Addr("host", "a").port = "a" /\ Addr("host", "a").host = "host"
        BY DEF Addr
      <4>2. d.remoteBind.host \in {"none", "host"} /\ d.remoteBind.port = "a"
        BY <3>2, <4>1
      <4>3. Shown("none", "a").host = "" /\ Shown("host", "a").host = "host"
        BY DEF Shown, SplitHostPort, Addr
      <4>4. QED
        BY <3>2, <4>2, <4>3
    <3>4. m.remoteBind = Addr(IF Listens(f.entry) THEN f.entry.host ELSE "none", "a")
      BY <1>1, <1>4, <1>7, <3>1 DEF Says
    <3>5. QED
      BY <2>2, <3>3, <3>4 DEF Addr, NoText, Absent
  <2>4. d.type # "remote" => m.localPort = d.localPort /\ m.bindHost = d.bindHost
    <3>1. SUFFICES ASSUME d.type # "remote" PROVE m.localPort = d.localPort /\ m.bindHost = d.bindHost
      OBVIOUS
    <3>2. f.entry = Shown(d.bindHost, "a") /\ d.bindHost \in {"none", "host"} /\ d.localPort = "a"
      BY <1>1, <3>1, OlderEntry DEF Older
    <3>3. f.entry.host = "host" <=> d.bindHost = "host"
      <4>1. Shown("none", "a").host = "" /\ Shown("host", "a").host = "host"
        BY DEF Shown, SplitHostPort, Addr
      <4>2. QED
        BY <3>2, <4>1
    <3>4. m.localPort = "a" /\ m.bindHost = IF Listens(f.entry) THEN f.entry.host ELSE "none"
      BY <1>1, <1>4, <1>7, <3>1 DEF Says
    <3>5. QED
      BY <2>2, <3>2, <3>3, <3>4
  <2>5. d.type # "dynamic" =>
          /\ m.destination.host = IF d.sshHost = "none" THEN "lo" ELSE d.destination.host
          /\ m.destination.port = d.destination.port
    BY <1>1, <1>5, <1>7 DEF Says
  <2>6. /\ d.sshHost = "none" => d.type = "local" /\ d.destination.host = "host"
        /\ d.sshHost # "none" => d.sshHost = "host"
    BY DEF Older, Addr, NoText, Absent
  <2>7. QED
    BY <1>5, <1>8, <2>1, <2>3, <2>4, <2>5, <2>6 DEF Resolve, Addr, NoText, Absent
<1>10. ComputeErrors(f) = {}
  BY <1>3, <1>6, ErrorsAre
<1> USE DEF m, f
<1>11. QED
  BY <1>3, <1>9, <1>10 DEF Reopens

LEMMA SeedsAreOlder == \A d \in Seeds : Older(d) /\ Older([d EXCEPT !.groupId = "g", !.schedule = [time |-> "set", net |-> "ssid"]])
<1> DEFINE e(d) == [d EXCEPT !.groupId = "g", !.schedule = [time |-> "set", net |-> "ssid"]]
<1> SUFFICES ASSUME NEW d \in Seeds PROVE Older(d) /\ Older(e(d))
  OBVIOUS
<1>1. Older(d)
  <2>1. CASE \E h \in {"none", "host"}, b \in {"none", "host"}, to \in {Addr("lo", "a"), Addr("lo", "b"), Addr("host", "b")} :
               /\ d = [Plain EXCEPT !.sshHost = h, !.destination = to, !.bindHost = b]
               /\ h = "none" => to.host # "lo"
    BY <2>1 DEF Older, Plain, RecordKeys
  <2>2. CASE \E h \in {"none", "host"}, p \in {"none", "b"} :
               d = [Plain EXCEPT !.type = "remote", !.localPort = "none", !.remoteBind = Addr(h, "a"), !.sshPort = p]
    BY <2>2 DEF Older, Plain, RecordKeys
  <2>3. CASE \E r \in {"none", "set"} :
               d = [Plain EXCEPT !.type = "dynamic", !.destination = Absent, !.retry = r]
    BY <2>3 DEF Older, Plain, RecordKeys
  <2>4. QED
    <3>1. \/ /\ d \in {[Plain EXCEPT !.sshHost = h, !.destination = to, !.bindHost = b] :
                         h \in {"none", "host"}, b \in {"none", "host"},
                         to \in {Addr("lo", "a"), Addr("lo", "b"), Addr("host", "b")}}
             /\ d.sshHost = "none" => d.destination.host # "lo"
          \/ d \in {[Plain EXCEPT !.type = "remote", !.localPort = "none", !.remoteBind = Addr(h, "a"), !.sshPort = p] :
                      h \in {"none", "host"}, p \in {"none", "b"}}
          \/ d \in {[Plain EXCEPT !.type = "dynamic", !.destination = Absent, !.retry = r] : r \in {"none", "set"}}
      BY DEF Seeds
    <3>2. CASE /\ d \in {[Plain EXCEPT !.sshHost = h, !.destination = to, !.bindHost = b] :
                           h \in {"none", "host"}, b \in {"none", "host"},
                           to \in {Addr("lo", "a"), Addr("lo", "b"), Addr("host", "b")}}
               /\ d.sshHost = "none" => d.destination.host # "lo"
      <4>1. PICK h \in {"none", "host"}, b \in {"none", "host"},
                 to \in {Addr("lo", "a"), Addr("lo", "b"), Addr("host", "b")} :
              d = [Plain EXCEPT !.sshHost = h, !.destination = to, !.bindHost = b]
        BY <3>2
      <4>2. d.sshHost = h /\ d.destination = to
        BY <4>1 DEF Plain
      <4>3. h = "none" => to.host # "lo"
        BY <3>2, <4>2
      <4>4. QED
        BY <2>1, <4>1, <4>3
    <3>3. QED
      BY <2>2, <2>3, <3>1, <3>2
<1>2. Older(e(d))
  <2>1. /\ DOMAIN e(d) = RecordKeys
        /\ \A k \in RecordKeys \ {"groupId", "schedule"} : e(d)[k] = d[k]
        /\ e(d).schedule = [time |-> "set", net |-> "ssid"]
    BY <1>1 DEF Older, RecordKeys, Plain
  <2> HIDE DEF e
  <2>2. QED
    BY <1>1, <2>1 DEF Older, RecordKeys, Plain
<1>3. QED
  BY <1>1, <1>2

(* The stored record fills a form and can be saved again; the messages are *)
(* those of the form as it stands, once a save was refused.                *)
FormInv ==
  /\ fields = Closed \/ fields \in Fields
  /\ editing \in BOOLEAN /\ strict \in BOOLEAN
  /\ DOMAIN record = RecordKeys /\ Load(record) \in Fields /\ Reopens(record)
  /\ fields = Closed => ~strict
  /\ errors = IF strict THEN ComputeErrors(fields) ELSE {}

LEMMA FormIsOpen ==
  /\ Closed.type = "closed"
  /\ \A f \in Fields : f.type # "closed" /\ f # Closed
<1>1. Closed.type = "closed"
  BY DEF Closed
<1>2. \A f \in Fields : f.type # "closed"
  BY DEF Fields, Types
<1>3. QED
  BY <1>1, <1>2

LEMMA FormStarts == FormInit => FormInv
<1> SUFFICES ASSUME FormInit PROVE FormInv
  OBVIOUS
<1>1. Older(record)
  BY SeedsAreOlder DEF FormInit
<1>2. Load(record) \in Fields /\ Reopens(record) /\ DOMAIN record = RecordKeys
  BY <1>1, OlderReopens DEF Older
<1>3. QED
  BY <1>2 DEF FormInit, FormInv

LEMMA OpenKeeps ==
  ASSUME FormInv, NEW f \in Fields, NEW e \in BOOLEAN, OpenForm(f, e)
  PROVE  FormInv'
BY FormIsOpen DEF FormInv, OpenForm

LEMMA ChangeKeeps ==
  ASSUME FormInv, NEW f, fields \in Fields => f \in Fields, ChangeForm(f)
  PROVE  FormInv'
<1>1. fields \in Fields /\ f \in Fields
  BY FormIsOpen DEF FormInv, ChangeForm
<1>2. /\ fields' = f /\ errors' = (IF strict THEN ComputeErrors(f) ELSE errors)
      /\ UNCHANGED <<record, editing, strict>>
  BY DEF ChangeForm
<1>3. errors' = IF strict' THEN ComputeErrors(fields') ELSE {}
  BY <1>2 DEF FormInv
<1>4. fields' # Closed
  BY <1>1, <1>2, FormIsOpen
<1>5. QED
  BY <1>1, <1>2, <1>3, <1>4 DEF FormInv

(* What the save writes says what the form says.                           *)
LEMMA WrittenSays ==
  ASSUME FormInv, fields \in Fields, ComputeErrors(fields) = {}
  PROVE  NoErrors(fields) /\ Says(Written, fields) /\ DOMAIN Written = RecordKeys
<1>1. NoErrors(fields)
  BY ErrorsAre
<1>2. QED
  BY <1>1, PayloadSays, MergedSays DEF Written

(* The second validator, for which the fields a tunnel of this type does   *)
(* not use may hold anything, agrees with the first.                       *)
LEMMA WrittenIsValid ==
  ASSUME FormInv, fields \in Fields, ComputeErrors(fields) = {}
  PROVE  ValidateDefinition(Written) = {}
<1> DEFINE f == fields
           w == Written
<1>1. NoErrors(f) /\ Says(w, f)
  BY WrittenSays
<1> HIDE DEF w
<1>2. /\ w.name # "" /\ w.credentialId # "" /\ w.retry # "bad"
      /\ w.type # "remote" => w.localPort \in Ports
      /\ w.sshHost # "none"
  BY <1>1 DEF NoErrors, Says, Fields, Texts
<1>3. w.type = "remote" => w.remoteBind.port \in Ports
  <2>1. f.entry.port \in Ports /\ w.type = f.type
    BY <1>1 DEF NoErrors, Says
  <2>2. w.type = "remote" =>
          w.remoteBind = Addr(IF Listens(f.entry) THEN f.entry.host ELSE "none", f.entry.port)
    BY <1>1, <2>1 DEF Says
  <2>3. QED
    BY <2>1, <2>2 DEF Addr
<1>4. w.type # "dynamic" => DestinationErrors(w) = {}
  BY <1>1 DEF NoErrors, Says, DestinationErrors
<1>5. ScheduleErrors(w.schedule) = {}
  <2>1. f.schedule.time \notin {"noDays", "sameEnds"} /\ f.schedule.net # "noPort"
    BY <1>1 DEF NoErrors
  <2>2. /\ w.schedule.time \notin {"noDays", "sameEnds"} /\ w.schedule.net # "noPort"
    BY <1>1, <2>1 DEF Says, ScheduleValue
  <2>3. QED
    BY <2>2 DEF ScheduleErrors
<1>6. ValidateDefinition(w) = {}
  BY <1>2, <1>3, <1>4, <1>5 DEF ValidateDefinition
<1> USE DEF w
<1>7. QED
  BY <1>6

LEMMA SaveKeeps ==
  ASSUME FormInv, SaveForm
  PROVE  FormInv'
<1>1. fields \in Fields /\ ComputeErrors(fields) = {}
  BY FormIsOpen DEF FormInv, SaveForm, MaySave
<1>2. NoErrors(fields) /\ Says(Written, fields) /\ DOMAIN Written = RecordKeys
  BY <1>1, WrittenSays
<1>3. Load(Written) \in Fields /\ Reopens(Written)
  BY <1>1, <1>2, SaidFills, SaidReopens
<1>4. record' = Written /\ fields' = Closed /\ strict' = FALSE /\ errors' = {} /\ editing' = FALSE
  BY DEF SaveForm, CloseForm
<1>5. QED
  BY <1>2, <1>3, <1>4 DEF FormInv

LEMMA AssignKeeps ==
  ASSUME FormInv, AssignToGroup
  PROVE  FormInv'
<1> DEFINE r == [record EXCEPT !.groupId = "g"]
<1>1. record' = r /\ UNCHANGED <<fields, editing, strict, errors>>
  BY DEF AssignToGroup
<1>2. /\ DOMAIN r = RecordKeys
      /\ \A k \in RecordKeys \ {"groupId"} : r[k] = record[k]
  BY DEF FormInv
<1>3. /\ r.type = record.type /\ r.name = record.name /\ r.credentialId = record.credentialId
      /\ r.retry = record.retry /\ r.schedule = record.schedule /\ r.sshHost = record.sshHost
      /\ r.sshPort = record.sshPort /\ r.localPort = record.localPort /\ r.bindHost = record.bindHost
      /\ r.remoteBind = record.remoteBind /\ r.destination = record.destination
      /\ r.entryAddress = record.entryAddress /\ r.exitAddress = record.exitAddress
  BY <1>2 DEF RecordKeys, Plain
<1> HIDE DEF r
<1>4. Load(r) = Load(record)
  BY <1>3 DEF Load, ReconstructEntry, ReconstructTarget, ReconstructExit
<1>5. \A p : MergeRecord(r, p) = MergeRecord(record, p)
  BY <1>3 DEF MergeRecord
<1>6. Resolve(r) = Resolve(record) /\ (Rewritten(r) <=> Rewritten(record))
  BY <1>3 DEF Resolve, Rewritten
<1>7. Reopens(r)
  BY <1>4, <1>5, <1>6 DEF FormInv, Reopens
<1>8. Load(r) \in Fields
  BY <1>4 DEF FormInv
<1>9. FormInv'
  BY <1>1, <1>2, <1>7, <1>8 DEF FormInv
<1>10. QED
  BY <1>9

LEMMA ReadKeeps ==
  ASSUME FormInv, NetworkRead
  PROVE  FormInv'
<1>1. UNCHANGED <<record, editing, strict>>
      /\ errors' = IF strict /\ fields' # fields THEN ComputeErrors(fields') ELSE errors
  BY DEF NetworkRead
<1>2. CASE fields' = fields
  BY <1>1, <1>2 DEF FormInv
<1>3. CASE fields.type # "closed" /\ fields' = [fields EXCEPT !.schedule.net = "ssid"]
  <2>1. fields \in Fields
    BY <1>3, FormIsOpen DEF FormInv
  <2>2. fields' \in Fields
    BY <1>3, <2>1 DEF Fields
  <2>3. errors' = IF strict THEN ComputeErrors(fields') ELSE {}
    BY <1>1 DEF FormInv
  <2>4. QED
    BY <1>1, <2>2, <2>3, FormIsOpen DEF FormInv
<1>4. QED
  BY <1>2, <1>3 DEF NetworkRead

LEMMA FormKeeps == FormInv /\ [FormNext]_fieldVars => FormInv'
<1> SUFFICES ASSUME FormInv, [FormNext]_fieldVars PROVE FormInv'
  OBVIOUS
<1>1. CASE OpenEdit
  BY <1>1, OpenKeeps DEF OpenEdit, FormInv
<1>2. CASE OpenCreate
  <2>1. BlankForm \in Fields
    BY DEF BlankForm, Fields, Texts, NoText, Addr, Types
  <2>2. QED
    BY <1>2, <2>1, OpenKeeps DEF OpenCreate
<1>3. CASE OpenClone
  <2>1. [Load(record) EXCEPT !.name = ""] \in Fields
    BY DEF FormInv, Fields
  <2>2. QED
    BY <1>3, <2>1, OpenKeeps DEF OpenClone
<1>4. CASE CancelForm
  BY <1>4 DEF CancelForm, CloseForm, FormInv
<1>5. CASE RefuseForm
  BY <1>5, FormIsOpen DEF RefuseForm, FormInv
<1>6. CASE SaveForm
  BY <1>6, SaveKeeps
<1>7. CASE AssignToGroup
  BY <1>7, AssignKeeps
<1>8. ASSUME NEW t, t \in Texts
      PROVE  /\ fields \in Fields => [fields EXCEPT !.entry = t] \in Fields
             /\ fields \in Fields => [fields EXCEPT !.target = t] \in Fields
             /\ fields \in Fields => [fields EXCEPT !.exit = t] \in Fields
  BY <1>8 DEF Fields
<1>9. CASE SetEntry
  <2>1. PICK t \in {NoText, Addr("", "a"), Addr("host", "a"), Addr("v6", "b"), Addr("host", "none"), Addr("", "bad")} :
          ChangeForm([fields EXCEPT !.entry = t])
    BY <1>9 DEF SetEntry
  <2>2. t \in Texts
    <3>1. Addr("", "a") \in Texts /\ Addr("host", "a") \in Texts
          /\ Addr("v6", "b") \in Texts /\ Addr("host", "none") \in Texts /\ Addr("", "bad") \in Texts
          /\ NoText \in Texts
      BY DEF NoText, Addr, Texts, Ports
    <3>2. QED
      BY <2>1, <3>1
  <2>3. QED
    BY <1>8, <2>1, <2>2, ChangeKeeps
<1>10. CASE SetTarget
  <2>1. PICK t \in {NoText, Addr("host", "none"), Addr("host", "ssh"), Addr("v6", "b"), Addr("host", "bad")} :
          ChangeForm([fields EXCEPT !.target = t])
    BY <1>10 DEF SetTarget
  <2>2. t \in Texts
    <3>1. Addr("host", "none") \in Texts /\ Addr("host", "ssh") \in Texts
          /\ Addr("v6", "b") \in Texts /\ Addr("host", "bad") \in Texts
          /\ NoText \in Texts
      BY DEF NoText, Addr, Texts, Ports
    <3>2. QED
      BY <2>1, <3>1
  <2>3. QED
    BY <1>8, <2>1, <2>2, ChangeKeeps
<1>11. CASE SetExit
  <2>1. PICK t \in {NoText, Addr("", "b"), Addr("host", "none"), Addr("v6", "a"), Addr("", "bad")} :
          ChangeForm([fields EXCEPT !.exit = t])
    BY <1>11 DEF SetExit
  <2>2. t \in Texts
    <3>1. Addr("", "b") \in Texts /\ Addr("host", "none") \in Texts
          /\ Addr("v6", "a") \in Texts /\ Addr("", "bad") \in Texts
          /\ NoText \in Texts
      BY DEF NoText, Addr, Texts, Ports
    <3>2. QED
      BY <2>1, <3>1
  <2>3. QED
    BY <1>8, <2>1, <2>2, ChangeKeeps
<1>12. CASE SetName \/ SetCredential \/ OnTypeChange \/ SetRetry
  <2>1. /\ \A n \in {"", "n"} : fields \in Fields => [fields EXCEPT !.name = n] \in Fields
        /\ fields \in Fields => [fields EXCEPT !.credentialId = "c"] \in Fields
        /\ \A t \in Types : fields \in Fields => [fields EXCEPT !.type = t] \in Fields
        /\ \A r \in {"none", "set", "bad"} : fields \in Fields => [fields EXCEPT !.retry = r] \in Fields
    BY DEF Fields
  <2>2. QED
    BY <1>12, <2>1, ChangeKeeps DEF SetName, SetCredential, OnTypeChange, SetRetry
<1>13. CASE FillIn
  <2>1. Addr("", "a") \in Texts /\ Addr("host", "none") \in Texts
    BY OlderTexts
  <2>2. fields \in Fields => [fields EXCEPT !.name = "n", !.entry = Addr("", "a"), !.target = Addr("host", "none"),
                                            !.credentialId = "c"] \in Fields
    BY <2>1 DEF Fields
  <2>3. QED
    BY <1>13, <2>2, ChangeKeeps DEF FillIn
<1>14. CASE SetTime \/ SetNet
  <2>1. /\ \A s \in {"off", "set", "noDays", "sameEnds"} :
             fields \in Fields => [fields EXCEPT !.schedule.time = s] \in Fields
        /\ \A s \in {"off", "empty", "ssid", "reach", "noPort"} :
             fields \in Fields => [fields EXCEPT !.schedule.net = s] \in Fields
    BY DEF Fields
  <2>2. QED
    BY <1>14, <2>1, ChangeKeeps DEF SetTime, SetNet
<1>15. CASE UseCurrentNetwork
  BY <1>15 DEF UseCurrentNetwork, FormInv
<1>16. CASE NetworkRead
  BY <1>16, ReadKeeps
<1>17. CASE UNCHANGED fieldVars
  BY <1>17 DEF fieldVars, FormInv
<1>18. QED
  BY <1>1, <1>2, <1>3, <1>4, <1>5, <1>6, <1>7, <1>9, <1>10, <1>11, <1>12, <1>13, <1>14, <1>15,
     <1>16, <1>17 DEF FormNext

(* The form and the record keep FormInv, whatever the user does and        *)
(* whenever the name of the network arrives (tunnel-editor.js, the stores' *)
(* validators and the merge of tunnel-store.js).                           *)
THEOREM FormInductive == FormSpec => []FormInv
<1>1. QED
  BY FormStarts, FormKeeps, PTL DEF FormSpec

(* Opening a stored tunnel and saving it as it is changes nothing of what  *)
(* it does and shows no error, no message hides under a field that is not  *)
(* on the screen, and what may be saved is what the editor shows when the  *)
(* tunnel is opened again: the record and the form say the same.           *)
THEOREM RoundTrips == FormSpec => []FormRoundTrips
<1>1. FormInv => FormRoundTrips
  <2> SUFFICES ASSUME FormInv PROVE FormRoundTrips
    OBVIOUS
  <2>1. ReopenKeeps
    BY DEF FormInv, Reopens, ReopenKeeps
  <2>2. ErrorsAreVisible
    <3> SUFFICES ASSUME fields.type # "closed"
                 PROVE  /\ errors \subseteq Displayed(fields)
                        /\ strict /\ errors = {} => ValidateDefinition(Written) = {}
      BY DEF ErrorsAreVisible
    <3>1. fields \in Fields
      BY FormIsOpen DEF FormInv
    <3>2. errors \subseteq Displayed(fields)
      BY <3>1, ErrorsShow DEF FormInv
    <3>3. strict /\ errors = {} => ComputeErrors(fields) = {}
      BY DEF FormInv
    <3>4. QED
      BY <3>1, <3>2, <3>3, WrittenIsValid
  <2>3. SavedIsShown
    <3> SUFFICES ASSUME MaySave PROVE Rewritten(Written) \/ Load(Written) = Said(fields)
      BY DEF SavedIsShown
    <3>1. fields \in Fields /\ ComputeErrors(fields) = {}
      BY FormIsOpen DEF FormInv, MaySave
    <3>2. QED
      BY <3>1, WrittenSays, SaysLoads
  <2>4. QED
    BY <2>1, <2>2, <2>3 DEF FormRoundTrips
<1>2. QED
  BY <1>1, FormInductive, PTL

-----------------------------------------------------------------------------
(* The panes.  Messages by their kinds.                                    *)

(* What the window should know of a session.                               *)
Actual(s) == IF Live(s) THEN sess[s].phase ELSE "no"

Known == {"no", "connecting", "connected"}

Told ==
  [kind : {"state"}, s : Ids, of : Shells, phase : Phases]
    \cup [kind : {"sessions"}, all : [Ids -> Known]]
    \cup [kind : {"rest"}]
    \cup [kind : {"session"}, s : Ids, phase : Known]

Asked ==
  [kind : {"watch"}, ids : SUBSET Ids] \cup [kind : {"session"}, s : Ids]
    \cup [kind : {"sessions", "rest"}]

PanesType ==
  /\ sess \in [Ids -> [of : Shells \cup {NoShell}, phase : Phases \cup {"no"}]]
  /\ \A s \in Ids : sess[s].phase # "no" => sess[s].of \in Shells
  /\ watched \subseteq Ids
  /\ up \in Seq(Asked)
  /\ down \in Seq(Told)
  /\ seen \in [Ids -> Known] /\ stash \in [Ids -> Known]
  /\ reload \in {"no", "asked", "told"}
  /\ chosen \in Shells \cup {NoShell} /\ pinned \in {0} \cup Ids
  /\ onShow \in {0, Unset} \cup Ids
  /\ card \in [s : {0} \cup Ids, phase : Phases \cup {"no"}]
  /\ raced \in BOOLEAN

Has(q, k) == \E i \in DOMAIN q : q[i].kind = k
Once(q, k) == \A i, j \in DOMAIN q : q[i].kind = k /\ q[j].kind = k => i = j
SessionsFirst(q) ==
  \A i, j \in DOMAIN q : q[i].kind = "sessions" /\ q[j].kind = "rest" => i < j

(* One reload at a time, its replies in the order of its questions.        *)
ReloadInOrder ==
  /\ Once(up, "sessions") /\ Once(up, "rest") /\ SessionsFirst(up)
  /\ Once(down, "sessions") /\ Once(down, "rest") /\ SessionsFirst(down)
  /\ Has(up, "sessions") => ~Has(down, "sessions") /\ ~Has(down, "rest")
  /\ Has(up, "rest") => ~Has(down, "rest")
  /\ reload = "no" => ~Has(up, "rest") /\ ~Has(down, "rest")
  /\ reload # "asked" => ~Has(up, "sessions") /\ ~Has(down, "sessions")
  /\ reload = "asked" => Has(up, "sessions") \/ Has(down, "sessions")

(* No event of session s is on its way behind position i.                  *)
LastWord(q, i, s) == \A j \in DOMAIN q : j > i => ~(q[j].kind = "state" /\ q[j].s = s)
Quiet(q, s) == LastWord(q, 0, s)

(* The last word on its way about a session is true, and if there is none  *)
(* the window knows it.                                                    *)
WordIsTrue(i) ==
  LET m == down[i]
  IN /\ m.kind = "state" => m.of = sess[m.s].of /\ sess[m.s].phase # "no"
     /\ m.kind = "state" /\ LastWord(down, i, m.s) => m.phase = sess[m.s].phase
     /\ m.kind = "session" /\ LastWord(down, i, m.s) => m.phase = Actual(m.s)
     /\ m.kind = "sessions" => \A s \in Ids :
          /\ m.all[s] # "no" => sess[s].phase # "no"
          /\ LastWord(down, i, s) => m.all[s] = Actual(s)

WordsAreTrue ==
  /\ \A i \in DOMAIN down : WordIsTrue(i)
  /\ \A s \in Ids : seen[s] # "no" \/ stash[s] # "no" => sess[s].phase # "no"
  /\ ~raced => \A s \in Ids : Quiet(down, s) =>
                 seen[s] = Actual(s) /\ (reload = "told" => stash[s] = Actual(s))

(* The last request to watch on its way, or else what main watches.        *)
Streams(q, w, x) ==
  /\ \A i \in DOMAIN q :
       q[i].kind = "watch" /\ (\A j \in DOMAIN q : j > i => q[j].kind # "watch") => q[i].ids = x
  /\ ~Has(q, "watch") => w = x

WatchFollows ==
  /\ centre = "detail" /\ onShow \in Ids => Streams(up, watched, {onShow})
  /\ centre = "tunnel" /\ onShow = Unset => Streams(up, watched, {})

(* The pane is about the session on show; that of the selected console is  *)
(* kept at each event unless a reload is to come.                          *)
CardFollows ==
  /\ onShow \in Ids => card.s = onShow /\ sess[onShow].phase # "no"
  /\ onShow = 0 => card = NoCard
  /\ chosen # NoShell /\ reload = "no" =>
       /\ onShow \in Ids =>
            /\ sess[onShow].of = chosen
            /\ ~raced /\ Quiet(down, onShow) => card.phase = sess[onShow].phase
       /\ onShow = 0 => \A s \in Ids : seen[s] # "no" => sess[s].of # chosen
       /\ pinned # 0 /\ seen[pinned] # "no" /\ sess[pinned].of = chosen => onShow = pinned

PanesInv == PanesType /\ ReloadInOrder /\ WordsAreTrue /\ WatchFollows /\ CardFollows

-----------------------------------------------------------------------------
(* Queues: r is q with m behind, or q without its first message.           *)

Added(q, r, m) ==
  /\ DOMAIN q \subseteq Nat /\ DOMAIN r = DOMAIN q \cup {Len(q) + 1}
  /\ \A i \in DOMAIN q : i < Len(q) + 1 /\ 0 < i /\ r[i] = q[i]
  /\ r[Len(q) + 1] = m /\ Len(q) \in Nat

Popped(q, r, m) ==
  /\ DOMAIN q \subseteq Nat \ {0} /\ DOMAIN r \subseteq Nat \ {0} /\ 1 \in DOMAIN q /\ q[1] = m
  /\ \A i \in DOMAIN r : i + 1 \in DOMAIN q /\ r[i] = q[i + 1]
  /\ \A i \in DOMAIN q : i # 1 => i - 1 \in DOMAIN r /\ q[i] = r[i - 1]

LEMMA AppendAdds ==
  ASSUME NEW S, NEW q \in Seq(S), NEW m \in S
  PROVE  Append(q, m) \in Seq(S) /\ Added(q, Append(q, m), m)
<1> DEFINE r == Append(q, m)
<1>1. r \in Seq(S) /\ Len(r) = Len(q) + 1 /\ Len(q) \in Nat
  OBVIOUS
<1>2. \A i \in 1 .. Len(q) : r[i] = q[i]
  OBVIOUS
<1>3. r[Len(q) + 1] = m
  OBVIOUS
<1>4. DOMAIN q = 1 .. Len(q) /\ DOMAIN r = 1 .. Len(r)
  BY <1>1
<1> HIDE DEF r
<1>5. Added(q, r, m)
  BY <1>1, <1>2, <1>3, <1>4 DEF Added
<1>6. QED
  BY <1>1, <1>5 DEF r

LEMMA TailPops ==
  ASSUME NEW S, NEW q \in Seq(S), q # <<>>
  PROVE  Tail(q) \in Seq(S) /\ Head(q) \in S /\ Popped(q, Tail(q), Head(q))
<1> DEFINE r == Tail(q)
           n == Len(q)
<1>1. r \in Seq(S) /\ Len(r) = n - 1 /\ n \in Nat \ {0} /\ Head(q) \in S
  OBVIOUS
<1>2. (\A i \in 1 .. Len(r) : r[i] = q[i + 1]) /\ q[1] = Head(q)
  OBVIOUS
<1>3. DOMAIN q = 1 .. n /\ DOMAIN r = 1 .. Len(r)
  BY <1>1
<1> HIDE DEF r, n
<1>4. \A i \in DOMAIN r : i + 1 \in DOMAIN q /\ r[i] = q[i + 1]
  BY <1>1, <1>2, <1>3
<1>5. \A i \in DOMAIN q : i # 1 => i - 1 \in DOMAIN r /\ q[i] = r[i - 1]
  <2> TAKE i \in DOMAIN q
  <2>1. i # 1 => i - 1 \in DOMAIN r /\ (i - 1) + 1 = i
    BY <1>1, <1>3
  <2>2. QED
    BY <2>1, <1>4
<1>6. Popped(q, r, Head(q))
  BY <1>1, <1>2, <1>3, <1>4, <1>5 DEF Popped
<1>7. QED
  BY <1>1, <1>6 DEF r

LEMMA AddedKinds ==
  ASSUME NEW q, NEW r, NEW m, Added(q, r, m), NEW k
  PROVE  /\ Has(r, k) <=> Has(q, k) \/ m.kind = k
         /\ Once(q, k) /\ (m.kind = k => ~Has(q, k)) => Once(r, k)
BY DEF Added, Has, Once

LEMMA AddedSessionsFirst ==
  ASSUME NEW q, NEW r, NEW m, Added(q, r, m), SessionsFirst(q),
         m.kind = "sessions" => ~Has(q, "rest")
  PROVE  SessionsFirst(r)
<1>1. "sessions" # "rest"
  OBVIOUS
<1> SUFFICES ASSUME NEW i \in DOMAIN r, NEW j \in DOMAIN r,
                    r[i].kind = "sessions", r[j].kind = "rest"
             PROVE  i < j
  BY DEF SessionsFirst
<1>2. CASE j \in DOMAIN q /\ i \in DOMAIN q
  BY <1>2 DEF Added, SessionsFirst
<1>3. CASE j \in DOMAIN q /\ i \notin DOMAIN q
  BY <1>3 DEF Added, Has
<1>4. CASE j \notin DOMAIN q /\ i \in DOMAIN q
  BY <1>4 DEF Added
<1>5. CASE j \notin DOMAIN q /\ i \notin DOMAIN q
  BY <1>1, <1>5 DEF Added
<1>6. QED
  BY <1>2, <1>3, <1>4, <1>5

LEMMA PoppedKinds ==
  ASSUME NEW q, NEW r, NEW m, Popped(q, r, m), NEW k
  PROVE  /\ Has(q, k) <=> Has(r, k) \/ m.kind = k
         /\ Once(q, k) => Once(r, k)
         /\ Once(q, k) /\ m.kind = k => ~Has(r, k)
<1>1. Has(q, k) <=> Has(r, k) \/ m.kind = k
  <2>1. ASSUME Has(q, k) PROVE Has(r, k) \/ m.kind = k
    BY <2>1 DEF Popped, Has
  <2>2. ASSUME Has(r, k) PROVE Has(q, k)
    BY <2>2 DEF Popped, Has
  <2>3. m.kind = k => Has(q, k)
    BY DEF Popped, Has
  <2>4. QED
    BY <2>1, <2>2, <2>3
<1>2. ASSUME Once(q, k) PROVE Once(r, k)
  <2> SUFFICES ASSUME NEW i \in DOMAIN r, NEW j \in DOMAIN r, r[i].kind = k, r[j].kind = k
               PROVE  i = j
    BY DEF Once
  <2>1. i + 1 \in DOMAIN q /\ j + 1 \in DOMAIN q /\ q[i + 1].kind = k /\ q[j + 1].kind = k
    BY DEF Popped
  <2>2. i + 1 = j + 1 /\ i \in Nat /\ j \in Nat
    BY <1>2, <2>1 DEF Once, Popped
  <2>3. QED
    BY <2>2
<1>3. ASSUME Once(q, k), m.kind = k, Has(r, k) PROVE FALSE
  <2>1. PICK i \in DOMAIN r : r[i].kind = k
    BY <1>3 DEF Has
  <2>2. i + 1 \in DOMAIN q /\ q[i + 1].kind = k /\ i \in Nat \ {0}
    BY <2>1 DEF Popped
  <2>3. i + 1 = 1
    BY <1>3, <2>2 DEF Once, Popped
  <2>4. QED
    BY <2>2, <2>3
<1>4. QED
  BY <1>1, <1>2, <1>3

LEMMA PoppedSessionsFirst ==
  ASSUME NEW q, NEW r, NEW m, Popped(q, r, m), SessionsFirst(q)
  PROVE  SessionsFirst(r) /\ (m.kind = "rest" => ~Has(r, "sessions"))
<1>1. SessionsFirst(r)
  <2> SUFFICES ASSUME NEW i \in DOMAIN r, NEW j \in DOMAIN r,
                      r[i].kind = "sessions", r[j].kind = "rest"
               PROVE  i < j
    BY DEF SessionsFirst
  <2>1. /\ i + 1 \in DOMAIN q /\ j + 1 \in DOMAIN q /\ i \in Nat /\ j \in Nat
        /\ q[i + 1].kind = "sessions" /\ q[j + 1].kind = "rest"
    BY DEF Popped
  <2>2. i + 1 < j + 1
    BY <2>1 DEF SessionsFirst
  <2>3. QED
    BY <2>1, <2>2
<1>2. ASSUME m.kind = "rest", NEW i \in DOMAIN r, r[i].kind = "sessions" PROVE FALSE
  <2>1. i + 1 \in DOMAIN q /\ q[i + 1].kind = "sessions" /\ i \in Nat \ {0}
    BY <1>2 DEF Popped
  <2>2. i + 1 < 1
    BY <1>2, <2>1 DEF SessionsFirst, Popped
  <2>3. QED
    BY <2>1, <2>2
<1>3. QED
  BY <1>1, <1>2 DEF Has

(* What is said of s behind a position, behind an addition or a removal.   *)
LEMMA AddedLast ==
  ASSUME NEW q, NEW r, NEW m, Added(q, r, m), NEW s
  PROVE  /\ \A i \in DOMAIN q : LastWord(r, i, s) <=> LastWord(q, i, s) /\ ~(m.kind = "state" /\ m.s = s)
         /\ Quiet(r, s) <=> Quiet(q, s) /\ ~(m.kind = "state" /\ m.s = s)
         /\ LastWord(r, Len(q) + 1, s)
<1>1. LastWord(r, Len(q) + 1, s)
  BY DEF LastWord, Added
<1>2. ASSUME NEW i \in Nat, i < Len(q) + 1
      PROVE  LastWord(r, i, s) <=> LastWord(q, i, s) /\ ~(m.kind = "state" /\ m.s = s)
  BY <1>2 DEF Added, LastWord
<1>3. QED
  BY <1>1, <1>2 DEF Quiet, Added

LEMMA PoppedLast ==
  ASSUME NEW q, NEW r, NEW m, Popped(q, r, m), NEW s
  PROVE  /\ \A i \in DOMAIN r : LastWord(r, i, s) => LastWord(q, i + 1, s)
         /\ Quiet(r, s) => LastWord(q, 1, s)
         /\ Quiet(r, s) /\ ~(m.kind = "state" /\ m.s = s) => Quiet(q, s)
<1>1. ASSUME NEW i \in Nat, LastWord(r, i, s)
      PROVE  LastWord(q, i + 1, s)
  <2> SUFFICES ASSUME NEW j \in DOMAIN q, j > i + 1
               PROVE  ~(q[j].kind = "state" /\ q[j].s = s)
    BY DEF LastWord
  <2>1. j \in Nat /\ j # 1
    BY DEF Popped
  <2>2. j - 1 \in DOMAIN r /\ q[j] = r[j - 1] /\ j - 1 > i
    BY <2>1 DEF Popped
  <2>3. QED
    BY <1>1, <2>2 DEF LastWord
<1>2. Quiet(r, s) => LastWord(q, 1, s)
  BY <1>1 DEF Quiet
<1>3. ASSUME LastWord(q, 1, s), ~(m.kind = "state" /\ m.s = s)
      PROVE  Quiet(q, s)
  <2> SUFFICES ASSUME NEW j \in DOMAIN q
               PROVE  ~(q[j].kind = "state" /\ q[j].s = s)
    BY DEF Quiet, LastWord
  <2>1. j \in Nat \ {0}
    BY DEF Popped
  <2>2. CASE j = 1
    BY <1>3, <2>2 DEF Popped
  <2>3. CASE j > 1
    BY <1>3, <2>3 DEF LastWord
  <2>4. QED
    BY <2>1, <2>2, <2>3
<1>4. QED
  BY <1>1, <1>2, <1>3 DEF Popped

(* What main is asked to stream.                                           *)
LEMMA AddedStreams ==
  ASSUME NEW q, NEW r, NEW m, Added(q, r, m), NEW w, NEW x
  PROVE  /\ m.kind # "watch" /\ Streams(q, w, x) => Streams(r, w, x)
         /\ m.kind = "watch" /\ m.ids = x => Streams(r, w, x)
<1>1. ASSUME m.kind # "watch", Streams(q, w, x)
      PROVE  Streams(r, w, x)
  <2>1. Has(r, "watch") <=> Has(q, "watch")
    BY <1>1, AddedKinds
  <2>2. ASSUME NEW i \in DOMAIN r, r[i].kind = "watch",
               \A j \in DOMAIN r : j > i => r[j].kind # "watch"
        PROVE  r[i].ids = x
    <3>1. i \in DOMAIN q /\ r[i] = q[i]
      BY <1>1, <2>2 DEF Added
    <3>2. \A j \in DOMAIN q : j > i => q[j].kind # "watch"
      BY <2>2 DEF Added
    <3>3. QED
      BY <1>1, <2>2, <3>1, <3>2 DEF Streams
  <2>3. QED
    BY <1>1, <2>1, <2>2 DEF Streams
<1>2. ASSUME m.kind = "watch", m.ids = x
      PROVE  Streams(r, w, x)
  <2>1. Has(r, "watch")
    BY <1>2, AddedKinds
  <2>2. ASSUME NEW i \in DOMAIN r, r[i].kind = "watch",
               \A j \in DOMAIN r : j > i => r[j].kind # "watch"
        PROVE  r[i].ids = x
    <3>1. i = Len(q) + 1
      BY <1>2, <2>2 DEF Added
    <3>2. QED
      BY <1>2, <3>1 DEF Added
  <2>3. QED
    BY <2>1, <2>2 DEF Streams
<1>3. QED
  BY <1>1, <1>2

LEMMA PoppedStreams ==
  ASSUME NEW q, NEW r, NEW m, Popped(q, r, m), NEW w, NEW x, Streams(q, w, x)
  PROVE  Streams(r, IF m.kind = "watch" THEN m.ids ELSE w, x)
<1> DEFINE v == IF m.kind = "watch" THEN m.ids ELSE w
<1>1. ~Has(r, "watch") => v = x
  <2> SUFFICES ASSUME ~Has(r, "watch") PROVE v = x
    OBVIOUS
  <2>1. CASE m.kind # "watch"
    BY <2>1, PoppedKinds DEF Streams
  <2>2. CASE m.kind = "watch"
    <3>1. \A j \in DOMAIN q : j > 1 => q[j].kind # "watch"
      BY DEF Popped, Has
    <3>2. QED
      BY <2>2, <3>1 DEF Popped, Streams
  <2>3. QED
    BY <2>1, <2>2
<1>2. ASSUME NEW i \in DOMAIN r, r[i].kind = "watch",
             \A j \in DOMAIN r : j > i => r[j].kind # "watch"
      PROVE  r[i].ids = x
  <2>1. i + 1 \in DOMAIN q /\ r[i] = q[i + 1] /\ i \in Nat \ {0}
    BY DEF Popped
  <2>2. ASSUME NEW j \in DOMAIN q, j > i + 1
        PROVE  q[j].kind # "watch"
    <3>1. j \in Nat /\ j # 1
      BY <2>1, <2>2 DEF Popped
    <3>2. j - 1 \in DOMAIN r /\ q[j] = r[j - 1]
      BY <3>1 DEF Popped
    <3>3. j - 1 > i
      BY <2>1, <2>2, <3>1
    <3>4. QED
      BY <1>2, <3>2, <3>3
  <2>3. QED
    BY <1>2, <2>1, <2>2 DEF Streams
<1> HIDE DEF v
<1>3. Streams(r, v, x)
  BY <1>1, <1>2 DEF Streams
<1>4. QED
  BY <1>3 DEF v

-----------------------------------------------------------------------------
(* Which session a pane is about.                                          *)

Mine(c, known) == {s \in Ids : known[s] # "no" /\ sess[s].of = c}

LEMMA NewestExists ==
  ASSUME NEW T, T \subseteq Ids, T # {}
  PROVE  \E s \in T : \A r \in T : r <= s
<1> DEFINE R == OpToRel(<, Nat)
           U == {n \in Nat : \A r \in T : r <= n}
<1>1. IsWellFoundedOn(R, Nat)
  BY NatLessThanWellFounded
<1>2. U \subseteq Nat /\ U # {}
  <2>1. MaxSessions \in U
    BY PanesAssumption DEF Ids
  <2>2. QED
    BY <2>1
<1> HIDE DEF R
<1>3. PICK m \in U : \A y \in U : ~ (<<y, m>> \in R)
  BY <1>1, <1>2, WFMin
<1>4. \A y \in Nat : y < m => y \notin U
  BY <1>3 DEF R, OpToRel
<1>5. m \in Nat /\ \A r \in T : r <= m /\ r \in Nat \ {0}
  BY DEF Ids
<1>6. m # 0
  BY <1>5
<1>7. PICK r \in T : ~(r <= m - 1)
  BY <1>4, <1>5, <1>6
<1>8. r = m
  BY <1>5, <1>7
<1>9. QED
  BY <1>5, <1>7, <1>8

LEMMA TargetIsMine ==
  ASSUME NEW c, NEW known, NEW pin
  PROVE  /\ Mine(c, known) = {} => Target(c, known, pin) = 0
         /\ Mine(c, known) # {} => Target(c, known, pin) \in Mine(c, known)
         /\ pin \in Mine(c, known) => Target(c, known, pin) = pin
<1> DEFINE M == Mine(c, known)
           N == CHOOSE s \in M : \A r \in M : r <= s
<1>1. Target(c, known, pin) = IF M = {} THEN 0 ELSE IF pin \in M THEN pin ELSE N
  BY DEF Target, Mine
<1>2. M \subseteq Ids
  BY DEF Mine
<1> HIDE DEF M
<1>3. M # {} => N \in M
  BY <1>2, NewestExists
<1> HIDE DEF N
<1>4. QED
  BY <1>1, <1>3 DEF M

(* What the synchronisation of a pane does.                                *)
Synced(c, known, pin, t) ==
  /\ onShow' = t
  /\ t \in {0} \cup Ids
  /\ t # 0 => t \in Mine(c, known)
  /\ t = 0 => Mine(c, known) = {}
  /\ pin \in Mine(c, known) => t = pin
  /\ card' = IF t = 0 THEN NoCard ELSE [s |-> t, phase |-> known[t]]

(* r asks for the loads that q asks for, in their order.                   *)
SameLoads(q, r) ==
  /\ Once(q, "sessions") => Once(r, "sessions")
  /\ Once(q, "rest") => Once(r, "rest")
  /\ SessionsFirst(q) => SessionsFirst(r)
  /\ Has(r, "sessions") <=> Has(q, "sessions")
  /\ Has(r, "rest") <=> Has(q, "rest")

LEMMA PlainAdded ==
  ASSUME NEW q, NEW r, NEW m, Added(q, r, m), m.kind \notin {"sessions", "rest"}
  PROVE  SameLoads(q, r)
BY AddedKinds, AddedSessionsFirst DEF SameLoads

LEMMA PlainTwice ==
  ASSUME NEW q, NEW r, NEW p, SameLoads(q, r), SameLoads(r, p)
  PROVE  SameLoads(q, p)
BY DEF SameLoads

LEMMA Conses ==
  ASSUME NEW S, NEW q \in Seq(S), NEW a \in S, NEW b \in S
  PROVE  /\ q \o <<>> = q
         /\ q \o <<a>> = Append(q, a)
         /\ q \o <<a, b>> = Append(Append(q, a), b)
OBVIOUS

LEMMA WatchIsAsked ==
  ASSUME NEW x \in SUBSET Ids
  PROVE  Watch(x) \in Asked /\ Watch(x).kind = "watch" /\ Watch(x).ids = x
BY DEF Watch, Asked

LEMMA SessionIsAsked ==
  ASSUME NEW s \in Ids
  PROVE  [kind |-> "session", s |-> s] \in Asked /\ [kind |-> "session", s |-> s].kind = "session"
BY DEF Asked

LEMMA IdsAreNumbers ==
  /\ Ids \subseteq Nat \ {0} /\ Unset \in Nat \ {0} /\ Unset \notin Ids
BY PanesAssumption DEF Ids, Unset

LEMMA SyncDetailSyncs ==
  ASSUME PanesType, CardFollows,
         NEW c \in Shells \cup {NoShell}, NEW known \in [Ids -> Known], NEW pin,
         NEW was, was = onShow \/ was = Unset, SyncDetail(c, known, pin, was)
  PROVE  /\ up' \in Seq(Asked) /\ SameLoads(up, up')
         /\ c = NoShell => onShow' = was /\ UNCHANGED <<card, up>>
         /\ c # NoShell =>
              /\ Synced(c, known, pin, Target(c, known, pin))
              /\ onShow' = was => up' = up
              /\ onShow' # was /\ onShow' \in Ids => Streams(up', watched, {onShow'})
<1> DEFINE t == Target(c, known, pin)
           snap == IF t = 0 THEN NoCard ELSE [s |-> t, phase |-> known[t]]
           ask == [kind |-> "session", s |-> t]
<1>1. IF c = NoShell THEN onShow' = was /\ UNCHANGED <<card, up>>
      ELSE IF t # was
           THEN /\ onShow' = t /\ card' = snap
                /\ up' = up \o IF t = 0 THEN <<Watch({})>> ELSE <<Watch({t}), ask>>
           ELSE /\ onShow' = was /\ UNCHANGED up
                /\ card' = IF t # 0 /\ card.s \in {0, t} THEN snap ELSE card
  BY DEF SyncDetail
<1>2. /\ t # 0 => t \in Mine(c, known)
      /\ t = 0 => Mine(c, known) = {}
      /\ pin \in Mine(c, known) => t = pin
  BY TargetIsMine, IdsAreNumbers DEF Mine
<1>3. t \in {0} \cup Ids /\ t # Unset
  BY <1>2, IdsAreNumbers DEF Mine
<1>4. up \in Seq(Asked) /\ SameLoads(up, up)
  BY DEF PanesType, SameLoads
<1>5. CASE c = NoShell
  BY <1>1, <1>4, <1>5
<1>6. CASE c # NoShell /\ t = was
  <2>1. onShow' = t /\ up' = up /\ was = onShow
    BY <1>1, <1>3, <1>6
  <2>2. card' = snap
    BY <1>1, <1>3, <1>6, <2>1 DEF CardFollows
  <2>3. QED
    BY <1>2, <1>3, <1>4, <1>6, <2>1, <2>2 DEF Synced
<1>7. CASE c # NoShell /\ t # was /\ t = 0
  <2>1. onShow' = t /\ card' = snap /\ up' = up \o <<Watch({})>>
    BY <1>1, <1>7
  <2>2. Watch({}) \in Asked /\ Watch({}).kind = "watch"
    BY WatchIsAsked
  <2>3. up' = Append(up, Watch({}))
    BY <1>4, <2>1, <2>2, Conses
  <2>4. up' \in Seq(Asked) /\ SameLoads(up, up')
    BY <1>4, <2>2, <2>3, AppendAdds, PlainAdded
  <2>5. QED
    BY <1>2, <1>3, <1>7, <2>1, <2>4, IdsAreNumbers DEF Synced
<1>8. CASE c # NoShell /\ t # was /\ t # 0
  <2> DEFINE w == Watch({t})
             r == Append(up, w)
  <2>1. onShow' = t /\ card' = snap /\ up' = up \o <<w, ask>>
    BY <1>1, <1>8
  <2>2. w \in Asked /\ w.kind = "watch" /\ w.ids = {t} /\ ask \in Asked /\ ask.kind = "session"
    BY <1>3, <1>8, WatchIsAsked, SessionIsAsked
  <2> HIDE DEF w, ask, t, snap
  <2>3. r \in Seq(Asked) /\ Added(up, r, w)
    BY <1>4, <2>2, AppendAdds
  <2>4. up' = Append(r, ask)
    BY <1>4, <2>1, <2>2, Conses
  <2> HIDE DEF r
  <2>5. up' \in Seq(Asked) /\ Added(r, up', ask)
    BY <2>2, <2>3, <2>4, AppendAdds
  <2>6. SameLoads(up, up')
    <3>1. SameLoads(up, r)
      BY <2>2, <2>3, PlainAdded
    <3>2. SameLoads(r, up')
      BY <2>2, <2>5, PlainAdded
    <3>3. QED
      BY <3>1, <3>2, PlainTwice
  <2>7. Streams(up', watched, {t})
    <3>1. Streams(r, watched, {t})
      BY <2>2, <2>3, AddedStreams
    <3>2. QED
      BY <2>2, <2>5, <3>1, AddedStreams
  <2>8. Synced(c, known, pin, t)
    BY <1>2, <1>3, <2>1 DEF Synced, snap
  <2>9. QED
    BY <1>8, <2>1, <2>5, <2>6, <2>7, <2>8 DEF t
<1>9. QED
  BY <1>5, <1>6, <1>7, <1>8

LEMMA PanesStarts == PanesInit => PanesInv
<1> SUFFICES ASSUME PanesInit PROVE PanesInv
  OBVIOUS
<1>1. /\ sess = [s \in Ids |-> [of |-> NoShell, phase |-> "no"]] /\ watched = {}
      /\ up = <<>> /\ down = <<>>
      /\ seen = [s \in Ids |-> "no"] /\ stash = [s \in Ids |-> "no"]
      /\ reload = "no" /\ chosen = NoShell /\ pinned = 0 /\ onShow = Unset
      /\ card = [s |-> 0, phase |-> "no"] /\ centre = "tunnel" /\ raced = FALSE
  BY DEF PanesInit, NotSeen, NoCard
<1>2. DOMAIN up = {} /\ DOMAIN down = {} /\ up \in Seq(Asked) /\ down \in Seq(Told)
  BY <1>1
<1>3. PanesType
  <2>1. \A s \in Ids : sess[s].phase = "no" /\ sess[s].of = NoShell
    BY <1>1
  <2>2. sess \in [Ids -> [of : Shells \cup {NoShell}, phase : Phases \cup {"no"}]]
    BY <1>1
  <2>3. seen \in [Ids -> Known] /\ stash \in [Ids -> Known]
    BY <1>1 DEF Known
  <2>4. QED
    BY <1>1, <1>2, <2>1, <2>2, <2>3 DEF PanesType
<1>4. ReloadInOrder
  BY <1>1, <1>2 DEF ReloadInOrder, Has, Once, SessionsFirst
<1>5. WordsAreTrue
  <2>1. \A s \in Ids : Actual(s) = "no" /\ seen[s] = "no" /\ stash[s] = "no"
    BY <1>1 DEF Actual, Live
  <2>2. QED
    BY <1>1, <1>2, <2>1 DEF WordsAreTrue
<1>6. WatchFollows /\ CardFollows
  BY <1>1, <1>2, IdsAreNumbers DEF WatchFollows, CardFollows, Streams, Has
<1>7. QED
  BY <1>3, <1>4, <1>5, <1>6 DEF PanesInv

-----------------------------------------------------------------------------
(* The main process.                                                       *)

(* A session is announced, or one that is open moves on.                   *)
MayReport(s, c, phase) ==
  \/ sess[s].phase = "no" /\ phase = "connecting"
  \/ Live(s) /\ c = sess[s].of /\ phase \in {"connected", "closed"}

LEMMA ReportKeeps ==
  ASSUME PanesInv, NEW s \in Ids, NEW c \in Shells, NEW phase, MayReport(s, c, phase),
         Report(s, c, phase),
         UNCHANGED <<watched, up, seen, reload, stash, chosen, pinned, onShow, card, centre, raced>>
  PROVE  PanesInv'
<1> USE DEF PanesInv
<1> DEFINE m == [kind |-> "state", s |-> s, of |-> c, phase |-> phase]
<1>1. /\ sess' = [sess EXCEPT ![s] = [of |-> c, phase |-> phase]]
      /\ down' = Append(down, m)
  BY DEF Report
<1>2. c \in Shells /\ phase \in Phases
  BY DEF MayReport, PanesType, Live, Phases
<1>3. /\ m \in Told /\ m.kind = "state" /\ m.s = s /\ m.of = c /\ m.phase = phase
  BY <1>2 DEF Told
<1> HIDE DEF m
<1>4. down \in Seq(Told)
  BY DEF PanesType
<1>5. down' \in Seq(Told) /\ Added(down, down', m)
  BY <1>1, <1>3, <1>4, AppendAdds
<1>6. /\ \A x \in Ids : sess'[x].of = IF x = s THEN c ELSE sess[x].of
      /\ \A x \in Ids : sess'[x].phase = IF x = s THEN phase ELSE sess[x].phase
      /\ sess' \in [Ids -> [of : Shells \cup {NoShell}, phase : Phases \cup {"no"}]]
  BY <1>1, <1>2 DEF PanesType
<1>7. /\ sess'[s].phase # "no"
      /\ \A x \in Ids : sess[x].phase # "no" => sess'[x].phase # "no" /\ sess'[x].of = sess[x].of
      /\ \A x \in Ids : x # s => Actual(x)' = Actual(x)
  BY <1>2, <1>6 DEF MayReport, Live, Actual, Phases
<1>8. PanesType'
  BY <1>2, <1>5, <1>6 DEF PanesType
<1>9. ReloadInOrder'
  <2>1. /\ Has(down', "sessions") <=> Has(down, "sessions")
        /\ Has(down', "rest") <=> Has(down, "rest")
        /\ Once(down, "sessions") => Once(down', "sessions")
        /\ Once(down, "rest") => Once(down', "rest")
        /\ SessionsFirst(down) => SessionsFirst(down')
    BY <1>3, <1>5, AddedKinds, AddedSessionsFirst
  <2>2. QED
    BY <2>1 DEF ReloadInOrder
<1>10. WordsAreTrue'
  <2>1. ASSUME NEW i \in DOMAIN down'
        PROVE  WordIsTrue(i)'
    <3>1. CASE i \in DOMAIN down
      <4>1. down'[i] = down[i] /\ WordIsTrue(i) /\ down[i] \in Told
        BY <1>4, <1>5, <3>1 DEF Added, WordsAreTrue
      <4>2. \A x : LastWord(down', i, x) => LastWord(down, i, x) /\ x # s
        BY <1>3, <1>5, <3>1, AddedLast
      <4> DEFINE w == down[i]
      <4>3. /\ w.kind = "state" => w.of = sess[w.s].of /\ sess[w.s].phase # "no"
            /\ w.kind = "state" /\ LastWord(down, i, w.s) => w.phase = sess[w.s].phase
            /\ w.kind = "session" /\ LastWord(down, i, w.s) => w.phase = Actual(w.s)
            /\ w.kind = "sessions" => \A x \in Ids :
                 /\ w.all[x] # "no" => sess[x].phase # "no"
                 /\ LastWord(down, i, x) => w.all[x] = Actual(x)
        BY <4>1 DEF WordIsTrue
      <4>4. w.kind \in {"state", "session"} => w.s \in Ids
        BY <4>1 DEF Told
      <4>5. down'[i] = w
        BY <4>1
      <4> HIDE DEF w
      <4>6. /\ w.kind = "state" => w.of = sess'[w.s].of /\ sess'[w.s].phase # "no"
            /\ w.kind = "state" /\ LastWord(down', i, w.s) => w.phase = sess'[w.s].phase
        BY <1>6, <1>7, <4>2, <4>3, <4>4
      <4> DEFINE A(x) == IF sess'[x].phase \in {"connecting", "connected"} THEN sess'[x].phase ELSE "no"
      <4>7. \A x \in Ids : x # s => A(x) = Actual(x)
        BY <1>6 DEF Actual, Live
      <4> HIDE DEF A
      <4>8. w.kind = "session" /\ LastWord(down', i, w.s) => w.phase = A(w.s)
        BY <4>2, <4>3, <4>4, <4>7
      <4>9. w.kind = "sessions" => \A x \in Ids :
              /\ w.all[x] # "no" => sess'[x].phase # "no"
              /\ LastWord(down', i, x) => w.all[x] = A(x)
        BY <1>7, <4>2, <4>3, <4>7
      <4>10. QED
        BY <4>5, <4>6, <4>8, <4>9 DEF WordIsTrue, Actual, Live, A
    <3>2. CASE i \notin DOMAIN down
      <4>1. down'[i] = m
        BY <1>5, <3>2 DEF Added
      <4>2. QED
        BY <1>3, <1>6, <1>7, <4>1 DEF WordIsTrue
    <3>3. QED
      BY <3>1, <3>2
  <2>2. \A x \in Ids : seen'[x] # "no" \/ stash'[x] # "no" => sess'[x].phase # "no"
    BY <1>7 DEF WordsAreTrue
  <2>3. ~raced' => \A x \in Ids : Quiet(down', x) =>
                 seen'[x] = Actual(x)' /\ (reload' = "told" => stash'[x] = Actual(x)')
    <3>1. \A x \in Ids : Quiet(down', x) => Quiet(down, x) /\ x # s
      BY <1>3, <1>5, AddedLast
    <3>2. QED
      BY <1>7, <3>1 DEF WordsAreTrue
  <2>4. QED
    BY <2>1, <2>2, <2>3 DEF WordsAreTrue
<1>11. WatchFollows'
  BY DEF WatchFollows
<1>12. CardFollows'
  <2>1. \A x \in Ids : Quiet(down', x) => Quiet(down, x) /\ x # s
    BY <1>3, <1>5, AddedLast
  <2>2. \A x \in Ids : seen[x] # "no" => sess'[x].of = sess[x].of
    BY <1>7 DEF WordsAreTrue
  <2>3. pinned # 0 => pinned \in Ids
    BY DEF PanesType
  <2>4. onShow \in Ids => card.s = onShow /\ sess'[onShow].phase # "no" /\ sess'[onShow].of = sess[onShow].of
    BY <1>7 DEF CardFollows
  <2>5. ASSUME chosen # NoShell, reload = "no"
        PROVE  /\ onShow \in Ids =>
                    /\ sess'[onShow].of = chosen
                    /\ ~raced /\ Quiet(down', onShow) => card.phase = sess'[onShow].phase
               /\ onShow = 0 => \A x \in Ids : seen[x] # "no" => sess'[x].of # chosen
               /\ pinned # 0 /\ seen[pinned] # "no" /\ sess'[pinned].of = chosen => onShow = pinned
    BY <1>6, <2>1, <2>2, <2>3, <2>4, <2>5 DEF CardFollows
  <2>6. onShow = 0 => card = NoCard
    BY DEF CardFollows
  <2>7. QED
    BY <2>4, <2>5, <2>6 DEF CardFollows
<1>13. QED
  BY <1>8, <1>9, <1>10, <1>11, <1>12

LEMMA MainMovesKeep ==
  ASSUME PanesInv, OpenSession \/ SessionMoves
  PROVE  PanesInv'
<1>1. CASE OpenSession
  <2>1. PICK s \in Ids, c \in Shells : sess[s].phase = "no" /\ Report(s, c, "connecting")
    BY <1>1 DEF OpenSession
  <2>2. MayReport(s, c, "connecting")
    BY <2>1 DEF MayReport
  <2>3. UNCHANGED <<watched, up, seen, reload, stash, chosen, pinned, onShow, card, centre, raced>>
    BY <1>1 DEF OpenSession
  <2>4. QED
    BY <2>1, <2>2, <2>3, ReportKeeps
<1>2. CASE SessionMoves
  <2>1. PICK s \in Ids, phase \in {"connected", "closed"} : Live(s) /\ Report(s, sess[s].of, phase)
    BY <1>2 DEF SessionMoves
  <2>2. MayReport(s, sess[s].of, phase) /\ sess[s].of \in Shells
    BY <2>1 DEF MayReport, PanesInv, PanesType, Live
  <2>3. UNCHANGED <<watched, up, seen, reload, stash, chosen, pinned, onShow, card, centre, raced>>
    BY <1>2 DEF SessionMoves
  <2>4. QED
    BY <2>1, <2>2, <2>3, ReportKeeps
<1>3. QED
  BY <1>1, <1>2

(* A reply is put behind the rest.                                         *)
LEMMA ReplyIsTrue ==
  ASSUME PanesType, WordsAreTrue, NEW r \in Told, Added(down, down', r), r.kind # "state",
         r.kind = "session" => r.phase = Actual(r.s),
         r.kind = "sessions" => \A x \in Ids : r.all[x] = Actual(x),
         UNCHANGED <<sess, seen, stash, reload, raced>>
  PROVE  /\ WordsAreTrue'
         /\ \A x : Quiet(down', x) <=> Quiet(down, x)
<1>1. \A x : Quiet(down', x) <=> Quiet(down, x)
  BY AddedLast
<1> DEFINE A(x) == IF sess'[x].phase \in {"connecting", "connected"} THEN sess'[x].phase ELSE "no"
<1>2. \A x : A(x) = Actual(x)
  BY DEF Actual, Live
<1> HIDE DEF A
<1>3. ASSUME NEW i \in DOMAIN down'
      PROVE  WordIsTrue(i)'
  <2>1. CASE i \in DOMAIN down
    <3> DEFINE w == down[i]
    <3>1. down'[i] = w
      BY <1>3, <2>1 DEF Added
    <3>2. \A x : LastWord(down', i, x) <=> LastWord(down, i, x)
      BY <2>1, AddedLast
    <3>3. /\ w.kind = "state" => w.of = sess[w.s].of /\ sess[w.s].phase # "no"
          /\ w.kind = "state" /\ LastWord(down, i, w.s) => w.phase = sess[w.s].phase
          /\ w.kind = "session" /\ LastWord(down, i, w.s) => w.phase = Actual(w.s)
          /\ w.kind = "sessions" => \A x \in Ids :
               /\ w.all[x] # "no" => sess[x].phase # "no"
               /\ LastWord(down, i, x) => w.all[x] = Actual(x)
      BY <2>1 DEF WordsAreTrue, WordIsTrue
    <3> HIDE DEF w
    <3>4. /\ w.kind = "session" /\ LastWord(down', i, w.s) => w.phase = A(w.s)
          /\ w.kind = "sessions" => \A x \in Ids :
               /\ w.all[x] # "no" => sess'[x].phase # "no"
               /\ LastWord(down', i, x) => w.all[x] = A(x)
      BY <1>2, <3>2, <3>3
    <3>5. /\ w.kind = "state" => w.of = sess'[w.s].of /\ sess'[w.s].phase # "no"
          /\ w.kind = "state" /\ LastWord(down', i, w.s) => w.phase = sess'[w.s].phase
      BY <3>2, <3>3
    <3>6. QED
      BY <3>1, <3>4, <3>5 DEF WordIsTrue, Actual, Live, A
  <2>2. CASE i \notin DOMAIN down
    <3>1. down'[i] = r
      BY <1>3, <2>2 DEF Added
    <3>2. r.kind = "session" => r.phase = A(r.s)
      BY <1>2
    <3>3. r.kind = "sessions" => \A x \in Ids :
            (r.all[x] # "no" => sess'[x].phase # "no") /\ r.all[x] = A(x)
      BY <1>2 DEF A
    <3>4. QED
      BY <3>1, <3>2, <3>3 DEF WordIsTrue, Actual, Live, A
  <2>3. QED
    BY <2>1, <2>2
<1>4. \A x \in Ids : seen'[x] # "no" \/ stash'[x] # "no" => sess'[x].phase # "no"
  BY DEF WordsAreTrue
<1>5. ~raced' => \A x \in Ids : Quiet(down', x) =>
                 seen'[x] = A(x) /\ (reload' = "told" => stash'[x] = A(x))
  BY <1>1, <1>2 DEF WordsAreTrue
<1>6. QED
  BY <1>1, <1>3, <1>4, <1>5 DEF WordsAreTrue, Actual, Live, A

LEMMA ServeRequestKeeps ==
  ASSUME PanesInv, ServeRequest
  PROVE  PanesInv'
<1> USE DEF PanesInv
<1> DEFINE m == Head(up)
           phaseOf == [s \in Ids |-> IF Live(s) THEN sess[s].phase ELSE "no"]
<1>1. UNCHANGED <<sess, seen, reload, stash, chosen, pinned, onShow, card, centre, raced>>
  BY DEF ServeRequest
<1>2. up' \in Seq(Asked) /\ m \in Asked /\ Popped(up, up', m)
  BY TailPops DEF ServeRequest, PanesType
<1>3. /\ watched' = IF m.kind = "watch" THEN m.ids ELSE watched
      /\ m.kind = "watch" => down' = down
      /\ m.kind = "sessions" => down' = Append(down, [kind |-> "sessions", all |-> phaseOf])
      /\ m.kind = "rest" => down' = Append(down, [kind |-> "rest"])
      /\ m.kind = "session" =>
           down' = Append(down, [kind |-> "session", s |-> m.s, phase |-> phaseOf[m.s]])
  BY DEF ServeRequest
<1>4. /\ m.kind \in {"watch", "sessions", "rest", "session"}
      /\ m.kind = "watch" => m.ids \in SUBSET Ids
      /\ m.kind = "session" => m.s \in Ids
  BY <1>2 DEF Asked
<1>5. /\ phaseOf \in [Ids -> Known]
      /\ \A x \in Ids : phaseOf[x] = Actual(x)
  BY DEF Actual, Live, Known
<1> HIDE DEF m, phaseOf
<1>6. down \in Seq(Told) /\ watched \in SUBSET Ids
  BY DEF PanesType
<1>7. watched' \in SUBSET Ids
  BY <1>3, <1>4, <1>6
<1>8. WatchFollows'
  <2>1. ASSUME NEW x, Streams(up, watched, x)
        PROVE  Streams(up', watched', x)
    BY <1>2, <1>3, <2>1, PoppedStreams
  <2>2. QED
    BY <1>1, <2>1 DEF WatchFollows
<1>9. CASE m.kind = "watch"
  <2>1. UNCHANGED down
    BY <1>3, <1>9
  <2>2. PanesType'
    BY <1>1, <1>2, <1>7, <2>1 DEF PanesType
  <2>3. ReloadInOrder'
    <3>1. /\ Has(up, "sessions") <=> Has(up', "sessions")
          /\ Has(up, "rest") <=> Has(up', "rest")
          /\ Once(up, "sessions") => Once(up', "sessions")
          /\ Once(up, "rest") => Once(up', "rest")
          /\ SessionsFirst(up) => SessionsFirst(up')
      BY <1>2, <1>9, PoppedKinds, PoppedSessionsFirst
    <3>2. QED
      BY <1>1, <2>1, <3>1 DEF ReloadInOrder
  <2>4. WordsAreTrue'
    BY <1>1, <2>1 DEF WordsAreTrue, WordIsTrue, Actual, Live
  <2>5. CardFollows'
    BY <1>1, <2>1 DEF CardFollows
  <2>6. QED
    BY <1>8, <2>2, <2>3, <2>4, <2>5
<1>10. ASSUME NEW r \in Told, down' = Append(down, r), r.kind = m.kind, m.kind # "watch",
              r.kind = "session" => r.phase = Actual(r.s),
              r.kind = "sessions" => \A x \in Ids : r.all[x] = Actual(x)
       PROVE  PanesInv'
  <2>1. down' \in Seq(Told) /\ Added(down, down', r)
    BY <1>6, <1>10, AppendAdds
  <2>2. PanesType'
    BY <1>1, <1>2, <1>7, <2>1 DEF PanesType
  <2>3. r.kind # "state"
    BY <1>4, <1>10
  <2>4. WordsAreTrue' /\ \A x : Quiet(down', x) <=> Quiet(down, x)
    BY <1>1, <1>10, <2>1, <2>3, ReplyIsTrue
  <2>5. CardFollows'
    BY <1>1, <2>4 DEF CardFollows
  <2>6. ReloadInOrder'
    <3>1. ASSUME NEW k
          PROVE  /\ Has(up, k) <=> Has(up', k) \/ m.kind = k
                 /\ Once(up, k) => Once(up', k)
                 /\ Once(up, k) /\ m.kind = k => ~Has(up', k)
                 /\ Has(down', k) <=> Has(down, k) \/ m.kind = k
                 /\ Once(down, k) /\ (m.kind = k => ~Has(down, k)) => Once(down', k)
      BY <1>2, <1>10, <2>1, PoppedKinds, AddedKinds
    <3>2. /\ SessionsFirst(up) => SessionsFirst(up') /\ (m.kind = "rest" => ~Has(up', "sessions"))
          /\ SessionsFirst(down) /\ (m.kind = "sessions" => ~Has(down, "rest")) => SessionsFirst(down')
      BY <1>2, <1>10, <2>1, PoppedSessionsFirst, AddedSessionsFirst
    <3> DEFINE us == Has(up, "sessions")
               ur == Has(up, "rest")
               ds == Has(down, "sessions")
               dr == Has(down, "rest")
               us1 == Has(up', "sessions")
               ur1 == Has(up', "rest")
               ds1 == Has(down', "sessions")
               dr1 == Has(down', "rest")
    <3>3. /\ us <=> us1 \/ m.kind = "sessions"
          /\ ur <=> ur1 \/ m.kind = "rest"
          /\ ds1 <=> ds \/ m.kind = "sessions"
          /\ dr1 <=> dr \/ m.kind = "rest"
      BY <3>1
    <3>4. /\ Once(up, "sessions") /\ Once(up, "rest") /\ SessionsFirst(up)
          /\ Once(down, "sessions") /\ Once(down, "rest") /\ SessionsFirst(down)
          /\ us => ~ds /\ ~dr
          /\ ur => ~dr
          /\ reload = "no" => ~ur /\ ~dr
          /\ reload # "asked" => ~us /\ ~ds
          /\ reload = "asked" => us \/ ds
      BY DEF ReloadInOrder
    <3>5. /\ Once(up', "sessions") /\ Once(up', "rest") /\ SessionsFirst(up')
          /\ m.kind = "sessions" => ~us1
          /\ m.kind = "rest" => ~ur1 /\ ~us1
      BY <3>1, <3>2, <3>4
    <3>6. /\ Once(down', "sessions") /\ Once(down', "rest") /\ SessionsFirst(down')
      BY <3>1, <3>2, <3>3, <3>4
    <3> HIDE DEF us, ur, ds, dr, us1, ur1, ds1, dr1
    <3>7. /\ us1 => ~ds1 /\ ~dr1
          /\ ur1 => ~dr1
          /\ reload' = "no" => ~ur1 /\ ~dr1
          /\ reload' # "asked" => ~us1 /\ ~ds1
          /\ reload' = "asked" => us1 \/ ds1
      BY <1>1, <3>3, <3>4, <3>5
    <3>8. QED
      BY <3>5, <3>6, <3>7 DEF ReloadInOrder, us1, ur1, ds1, dr1
  <2>7. QED
    BY <1>8, <2>2, <2>4, <2>5, <2>6
<1>11. CASE m.kind = "sessions"
  <2> DEFINE r == [kind |-> "sessions", all |-> phaseOf]
  <2>1. r \in Told /\ r.kind = "sessions" /\ r.all = phaseOf
    BY <1>5 DEF Told
  <2>2. down' = Append(down, r)
    BY <1>3, <1>11
  <2> HIDE DEF r
  <2>3. QED
    BY <1>5, <1>10, <1>11, <2>1, <2>2
<1>12. CASE m.kind = "rest"
  <2> DEFINE r == [kind |-> "rest"]
  <2>1. r \in Told /\ r.kind = "rest"
    BY DEF Told
  <2>2. down' = Append(down, r)
    BY <1>3, <1>12
  <2> HIDE DEF r
  <2>3. QED
    BY <1>10, <1>12, <2>1, <2>2
<1>13. CASE m.kind = "session"
  <2> DEFINE r == [kind |-> "session", s |-> m.s, phase |-> phaseOf[m.s]]
  <2>1. r \in Told /\ r.kind = "session" /\ r.phase = Actual(r.s)
    BY <1>4, <1>5, <1>13 DEF Told
  <2>2. down' = Append(down, r)
    BY <1>3, <1>13
  <2> HIDE DEF r
  <2>3. QED
    BY <1>10, <1>13, <2>1, <2>2
<1>14. QED
  BY <1>4, <1>9, <1>11, <1>12, <1>13

-----------------------------------------------------------------------------
(* The user.                                                               *)

LEMMA SyncedCard ==
  ASSUME PanesInv, NEW c \in Shells \cup {NoShell}, NEW known, NEW pin,
         NEW was, was = onShow \/ was = Unset, SyncDetail(c, known, pin, was),
         known = seen', pin = pinned', chosen' = c,
         seen' \in [Ids -> Known], pinned' \in {0} \cup Ids, UNCHANGED sess, WordsAreTrue'
  PROVE  /\ CardFollows'
         /\ up' \in Seq(Asked) /\ SameLoads(up, up')
         /\ onShow' \in {0, Unset} \cup Ids
         /\ card' \in [s : {0} \cup Ids, phase : Phases \cup {"no"}]
         /\ c # NoShell => onShow' # Unset
         /\ onShow' = was => up' = up
         /\ onShow' # was /\ onShow' \in Ids => Streams(up', watched, {onShow'})
<1> USE DEF PanesInv
<1> DEFINE t == Target(c, known, pin)
<1>1. /\ up' \in Seq(Asked) /\ SameLoads(up, up')
      /\ c = NoShell => onShow' = was /\ UNCHANGED <<card, up>>
      /\ c # NoShell =>
           /\ Synced(c, known, pin, t)
           /\ onShow' = was => up' = up
           /\ onShow' # was /\ onShow' \in Ids => Streams(up', watched, {onShow'})
  BY SyncDetailSyncs
<1> HIDE DEF t
<1>2. CASE c = NoShell
  <2>1. onShow' = was /\ UNCHANGED <<card, up>>
    BY <1>1, <1>2
  <2>2. onShow' \in {0, Unset} \cup Ids /\ card' \in [s : {0} \cup Ids, phase : Phases \cup {"no"}]
    BY <2>1 DEF PanesType
  <2>3. CardFollows'
    BY <1>2, <2>1, IdsAreNumbers DEF CardFollows
  <2>4. QED
    BY <1>1, <1>2, <2>1, <2>2, <2>3
<1>3. CASE c # NoShell
  <2>1. /\ Synced(c, known, pin, t)
        /\ onShow' = was => up' = up
        /\ onShow' # was /\ onShow' \in Ids => Streams(up', watched, {onShow'})
    BY <1>1, <1>3
  <2>2. onShow' = t /\ t \in {0} \cup Ids
    BY <2>1 DEF Synced
  <2>3. t # 0 => /\ card' = [s |-> t, phase |-> known[t]] /\ t \in Ids
                 /\ known[t] # "no" /\ sess[t].of = c
    BY <2>1 DEF Synced, Mine
  <2>4. t = 0 => card' = NoCard /\ \A x \in Ids : known[x] # "no" => sess[x].of # c
    BY <2>1 DEF Synced, Mine
  <2>5. \A x \in Ids : x = pin /\ known[x] # "no" /\ sess[x].of = c => t = x
    BY <2>1 DEF Synced, Mine
  <2>6. card' \in [s : {0} \cup Ids, phase : Phases \cup {"no"}]
    BY <2>2, <2>3, <2>4 DEF NoCard, Known, Phases
  <2>7. \A x \in Ids : seen'[x] # "no" => sess'[x].phase # "no"
    BY DEF WordsAreTrue
  <2>8. ~raced' => \A x \in Ids : Quiet(down', x) /\ seen'[x] # "no" => seen'[x] = sess'[x].phase
    BY DEF WordsAreTrue, Actual, Live
  <2>9. t # Unset /\ (t \in Ids => t # 0)
    BY <2>2, IdsAreNumbers
  <2>10. CardFollows'
    <3>1. onShow' \in Ids => card'.s = onShow' /\ sess'[onShow'].phase # "no" /\ sess'[onShow'].of = c
      BY <2>2, <2>3, <2>7, <2>9
    <3>2. onShow' = 0 => card' = NoCard /\ \A x \in Ids : seen'[x] # "no" => sess'[x].of # c
      BY <2>2, <2>4
    <3>3. onShow' \in Ids /\ ~raced' /\ Quiet(down', onShow') => card'.phase = sess'[onShow'].phase
      BY <2>2, <2>3, <2>8, <2>9
    <3>4. pinned' # 0 /\ seen'[pinned'] # "no" /\ sess'[pinned'].of = c => onShow' = pinned'
      BY <2>2, <2>5
    <3>5. QED
      BY <3>1, <3>2, <3>3, <3>4 DEF CardFollows
  <2>11. QED
    BY <1>1, <2>1, <2>2, <2>6, <2>9, <2>10
<1>4. QED
  BY <1>2, <1>3

LEMMA WordsStay ==
  ASSUME WordsAreTrue, UNCHANGED <<sess, down, seen, stash, raced>>,
         reload' = "told" => reload = "told"
  PROVE  WordsAreTrue'
BY DEF WordsAreTrue, WordIsTrue, Actual, Live

LEMMA ReloadStays ==
  ASSUME ReloadInOrder, SameLoads(up, up'), UNCHANGED <<down, reload>>
  PROVE  ReloadInOrder'
BY DEF ReloadInOrder, SameLoads

LEMMA DeedsKeep ==
  ASSUME PanesInv, SelectShell \/ SwitchSession \/ OutputSetting \/ SelectOverview \/ SelectTunnel
  PROVE  PanesInv'
<1> USE DEF PanesInv
<1>1. UNCHANGED <<sess, watched, down, seen, reload, stash, raced>>
  BY DEF SelectShell, SwitchSession, OutputSetting, SelectOverview, SelectTunnel
<1>2. WordsAreTrue' /\ seen' \in [Ids -> Known]
  BY <1>1, WordsStay DEF PanesType
<1>3. ASSUME NEW c \in Shells \cup {NoShell}, NEW pin, SyncDetail(c, seen, pin, Unset),
             pinned' = pin, pinned' \in {0} \cup Ids, chosen' = c, centre' # "tunnel"
      PROVE  PanesInv'
  <2>1. /\ CardFollows'
        /\ up' \in Seq(Asked) /\ SameLoads(up, up')
        /\ onShow' \in {0, Unset} \cup Ids
        /\ card' \in [s : {0} \cup Ids, phase : Phases \cup {"no"}]
        /\ onShow' # Unset /\ onShow' \in Ids => Streams(up', watched, {onShow'})
    BY <1>1, <1>2, <1>3, SyncedCard
  <2>2. PanesType'
    BY <1>1, <1>3, <2>1 DEF PanesType
  <2>3. ReloadInOrder'
    BY <1>1, <2>1, ReloadStays
  <2>4. WatchFollows'
    BY <1>1, <1>3, <2>1, IdsAreNumbers DEF WatchFollows
  <2>5. QED
    BY <1>2, <2>1, <2>2, <2>3, <2>4
<1>4. CASE SelectShell
  <2>1. PICK c \in Shells : chosen' = c /\ SyncDetail(c, seen, 0, Unset)
    BY <1>4 DEF SelectShell
  <2>2. pinned' = 0 /\ centre' # "tunnel"
    BY <1>4 DEF SelectShell
  <2>3. QED
    BY <1>3, <2>1, <2>2
<1>5. CASE SwitchSession
  <2>1. PICK s \in Ids : pinned' = s /\ SyncDetail(chosen, seen, s, Unset)
    BY <1>5 DEF SwitchSession
  <2>2. chosen' = chosen /\ centre' # "tunnel" /\ chosen \in Shells \cup {NoShell}
    BY <1>5 DEF SwitchSession, PanesType
  <2>3. QED
    BY <1>3, <2>1, <2>2
<1>6. CASE OutputSetting /\ centre = "detail" /\ SyncDetail(chosen, seen, pinned, Unset)
  <2>1. chosen' = chosen /\ centre' # "tunnel" /\ chosen \in Shells \cup {NoShell}
        /\ pinned' = pinned /\ pinned' \in {0} \cup Ids
    BY <1>6 DEF OutputSetting, PanesType
  <2>2. QED
    BY <1>3, <1>6, <2>1
<1>7. ASSUME NEW x \in SUBSET Ids, up' = Append(up, Watch(x)),
             centre' = "overview" \/ (centre' = "tunnel" /\ x = {}),
             pinned' = pinned, chosen' \in Shells \cup {NoShell},
             onShow' \in {onShow, Unset}, card' \in {card, NoCard}, CardFollows'
      PROVE  PanesInv'
  <2> DEFINE m == Watch(x)
  <2>1. m \in Asked /\ m.kind = "watch" /\ m.ids = x
    BY WatchIsAsked
  <2> HIDE DEF m
  <2>2. up \in Seq(Asked) /\ up' = Append(up, m)
    BY <1>7 DEF PanesType, m
  <2>3. up' \in Seq(Asked) /\ Added(up, up', m)
    BY <2>1, <2>2, AppendAdds
  <2>4. SameLoads(up, up') /\ Streams(up', watched, x)
    BY <2>1, <2>3, PlainAdded, AddedStreams
  <2>5. NoCard \in [s : {0} \cup Ids, phase : Phases \cup {"no"}]
    BY DEF NoCard
  <2>6. PanesType'
    BY <1>1, <1>7, <2>3, <2>5 DEF PanesType
  <2>7. ReloadInOrder'
    BY <1>1, <2>4, ReloadStays
  <2>8. WatchFollows'
    BY <1>1, <1>7, <2>4 DEF WatchFollows
  <2>9. QED
    BY <1>2, <1>7, <2>6, <2>7, <2>8
<1>8. {s \in Ids : seen[s] # "no"} \in SUBSET Ids /\ {} \in SUBSET Ids
  OBVIOUS
<1>9. CASE OutputSetting /\ centre = "overview" /\ up' = Append(up, Watch({s \in Ids : seen[s] # "no"}))
           /\ UNCHANGED <<onShow, card>>
  <2>1. centre' = "overview" /\ pinned' = pinned /\ chosen' = chosen /\ chosen' \in Shells \cup {NoShell}
    BY <1>9 DEF OutputSetting, PanesType
  <2>2. onShow' = onShow /\ card' = card /\ up' = Append(up, Watch({s \in Ids : seen[s] # "no"}))
    BY <1>9
  <2>3. CardFollows'
    BY <1>1, <2>1, <2>2 DEF CardFollows
  <2>4. QED
    BY <1>7, <1>8, <2>1, <2>2, <2>3
<1>10. CASE SelectOverview
  <2>1. /\ up' = Append(up, Watch({s \in Ids : seen[s] # "no"})) /\ centre' = "overview"
        /\ pinned' = pinned /\ chosen' = NoShell /\ onShow' = Unset /\ card' = card
    BY <1>10 DEF SelectOverview
  <2>2. CardFollows'
    BY <1>1, <2>1, IdsAreNumbers DEF CardFollows
  <2>3. QED
    BY <1>7, <1>8, <2>1, <2>2
<1>11. CASE SelectTunnel
  <2>1. /\ up' = Append(up, Watch({})) /\ centre' = "tunnel"
        /\ pinned' = pinned /\ chosen' = NoShell /\ onShow' = Unset /\ card' = NoCard
    BY <1>11 DEF SelectTunnel
  <2>2. CardFollows'
    BY <1>1, <2>1, IdsAreNumbers DEF CardFollows
  <2>3. QED
    BY <1>7, <1>8, <2>1, <2>2
<1>12. QED
  BY <1>4, <1>5, <1>6, <1>9, <1>10, <1>11 DEF OutputSetting

LEMMA LoadsKeep ==
  ASSUME PanesInv, Refresh \/ ShellSaved \/ ShellDeleted
  PROVE  PanesInv'
<1> USE DEF PanesInv
<1> DEFINE a == [kind |-> "sessions"]
           b == [kind |-> "rest"]
           r == Append(up, a)
<1>1. /\ UNCHANGED <<sess, watched, down, seen, stash, pinned, onShow, card, centre, raced>>
      /\ chosen' \in Shells \cup {NoShell}
      /\ reload = "no" /\ reload' = "asked" /\ up' = up \o <<a, b>>
  BY DEF Refresh, ShellSaved, ShellDeleted, AskLoad, LoadRequests, PanesType
<1>2. /\ a \in Asked /\ a.kind = "sessions" /\ b \in Asked /\ b.kind = "rest"
  BY DEF Asked
<1> HIDE DEF a, b
<1>3. up \in Seq(Asked)
  BY DEF PanesType
<1>4. r \in Seq(Asked) /\ Added(up, r, a) /\ up' = Append(r, b)
  BY <1>1, <1>2, <1>3, AppendAdds, Conses
<1> HIDE DEF r
<1>5. up' \in Seq(Asked) /\ Added(r, up', b)
  BY <1>2, <1>4, AppendAdds
<1>6. PanesType'
  BY <1>1, <1>5 DEF PanesType
<1>7. ReloadInOrder'
  <2>1. ~Has(up, "sessions") /\ ~Has(up, "rest") /\ ~Has(down, "sessions") /\ ~Has(down, "rest")
    BY <1>1 DEF ReloadInOrder
  <2>2. /\ Has(r, "sessions") /\ ~Has(r, "rest") /\ Once(r, "sessions") /\ Once(r, "rest")
        /\ SessionsFirst(r)
    BY <1>2, <1>4, <2>1, AddedKinds, AddedSessionsFirst DEF ReloadInOrder
  <2>3. /\ Has(up', "sessions") /\ Once(up', "sessions") /\ Once(up', "rest") /\ SessionsFirst(up')
    BY <1>2, <1>5, <2>2, AddedKinds, AddedSessionsFirst
  <2>4. QED
    BY <1>1, <2>1, <2>3 DEF ReloadInOrder
<1>8. WordsAreTrue'
  BY <1>1, WordsStay
<1>9. WatchFollows'
  <2>1. ASSUME NEW x, Streams(up, watched, x) PROVE Streams(up', watched, x)
    <3>1. Streams(r, watched, x)
      BY <1>2, <1>4, <2>1, AddedStreams
    <3>2. QED
      BY <1>2, <1>5, <3>1, AddedStreams
  <2>2. QED
    BY <1>1, <2>1 DEF WatchFollows
<1>10. CardFollows'
  BY <1>1 DEF CardFollows
<1>11. QED
  BY <1>6, <1>7, <1>8, <1>9, <1>10

-----------------------------------------------------------------------------
(* What arrives at the window.                                             *)

(* The first message is taken away; of what remains each word is as true.  *)
LEMMA ArrivalLeavesTruth ==
  ASSUME PanesType, WordsAreTrue, NEW m, Popped(down, down', m), UNCHANGED sess
  PROVE  \A i \in DOMAIN down' : WordIsTrue(i)'
<1> SUFFICES ASSUME NEW i \in DOMAIN down' PROVE WordIsTrue(i)'
  OBVIOUS
<1> DEFINE w == down[i + 1]
<1>1. i + 1 \in DOMAIN down /\ down'[i] = w
  BY DEF Popped
<1>2. \A x : LastWord(down', i, x) => LastWord(down, i + 1, x)
  BY PoppedLast
<1>3. /\ w.kind = "state" => w.of = sess[w.s].of /\ sess[w.s].phase # "no"
      /\ w.kind = "state" /\ LastWord(down, i + 1, w.s) => w.phase = sess[w.s].phase
      /\ w.kind = "session" /\ LastWord(down, i + 1, w.s) => w.phase = Actual(w.s)
      /\ w.kind = "sessions" => \A x \in Ids :
           /\ w.all[x] # "no" => sess[x].phase # "no"
           /\ LastWord(down, i + 1, x) => w.all[x] = Actual(x)
  BY <1>1 DEF WordsAreTrue, WordIsTrue
<1> HIDE DEF w
<1> DEFINE A(x) == IF sess'[x].phase \in {"connecting", "connected"} THEN sess'[x].phase ELSE "no"
<1>4. \A x : A(x) = Actual(x)
  BY DEF Actual, Live
<1> HIDE DEF A
<1>5. /\ w.kind = "state" => w.of = sess'[w.s].of /\ sess'[w.s].phase # "no"
      /\ w.kind = "state" /\ LastWord(down', i, w.s) => w.phase = sess'[w.s].phase
      /\ w.kind = "session" /\ LastWord(down', i, w.s) => w.phase = A(w.s)
      /\ w.kind = "sessions" => \A x \in Ids :
           /\ w.all[x] # "no" => sess'[x].phase # "no"
           /\ LastWord(down', i, x) => w.all[x] = A(x)
  BY <1>2, <1>3, <1>4
<1>6. QED
  BY <1>1, <1>5 DEF WordIsTrue, Actual, Live, A

(* What the message itself says.                                           *)
LEMMA ArrivalIsTrue ==
  ASSUME PanesType, WordsAreTrue, NEW m, Popped(down, down', m)
  PROVE  /\ m.kind = "state" => m.of = sess[m.s].of /\ sess[m.s].phase # "no"
         /\ m.kind = "state" /\ Quiet(down', m.s) => m.phase = sess[m.s].phase
         /\ m.kind = "session" /\ Quiet(down', m.s) => m.phase = Actual(m.s)
         /\ m.kind = "sessions" => \A x \in Ids :
              /\ m.all[x] # "no" => sess[x].phase # "no"
              /\ Quiet(down', x) => m.all[x] = Actual(x)
<1>1. 1 \in DOMAIN down /\ down[1] = m
  BY DEF Popped
<1>2. /\ m.kind = "state" => m.of = sess[m.s].of /\ sess[m.s].phase # "no"
      /\ m.kind = "state" /\ LastWord(down, 1, m.s) => m.phase = sess[m.s].phase
      /\ m.kind = "session" /\ LastWord(down, 1, m.s) => m.phase = Actual(m.s)
      /\ m.kind = "sessions" => \A x \in Ids :
           /\ m.all[x] # "no" => sess[x].phase # "no"
           /\ LastWord(down, 1, x) => m.all[x] = Actual(x)
  BY <1>1 DEF WordsAreTrue, WordIsTrue
<1>3. \A x : Quiet(down', x) => LastWord(down, 1, x)
  BY PoppedLast
<1>4. QED
  BY <1>2, <1>3

(* A message that is neither sessions nor rest leaves the reload alone.    *)
LEMMA ArrivalLeavesReload ==
  ASSUME ReloadInOrder, NEW m, Popped(down, down', m), m.kind \notin {"sessions", "rest"},
         SameLoads(up, up'), UNCHANGED reload
  PROVE  ReloadInOrder'
<1>1. /\ Has(down, "sessions") <=> Has(down', "sessions")
      /\ Has(down, "rest") <=> Has(down', "rest")
      /\ Once(down, "sessions") => Once(down', "sessions")
      /\ Once(down, "rest") => Once(down', "rest")
      /\ SessionsFirst(down) => SessionsFirst(down')
  BY PoppedKinds, PoppedSessionsFirst
<1>2. QED
  BY <1>1 DEF ReloadInOrder, SameLoads

LEMMA ArrivalPops ==
  ASSUME PanesType, NEW k, Arrives(k)
  PROVE  /\ down' \in Seq(Told) /\ Head(down) \in Told /\ Head(down).kind = k
         /\ Popped(down, down', Head(down))
BY TailPops DEF PanesType, Arrives

LEMMA SeedSessionKeeps ==
  ASSUME PanesInv, SeedSession
  PROVE  PanesInv'
<1> USE DEF PanesInv
<1> DEFINE m == Head(down)
<1>1. /\ UNCHANGED <<sess, watched, up, seen, reload, stash, chosen, pinned, onShow, centre, raced>>
      /\ card' = IF m.phase = "no" \/ onShow # m.s THEN card ELSE [s |-> m.s, phase |-> m.phase]
  BY DEF SeedSession
<1>2. /\ down' \in Seq(Told) /\ m \in Told /\ m.kind = "session" /\ Popped(down, down', m)
  BY ArrivalPops DEF SeedSession
<1> HIDE DEF m
<1>3. m.s \in Ids /\ m.phase \in Known
  BY <1>2 DEF Told
<1>4. PanesType'
  BY <1>1, <1>2, <1>3 DEF PanesType, Known, Phases
<1>5. ReloadInOrder'
  BY <1>1, <1>2, ArrivalLeavesReload DEF SameLoads
<1>6. \A x : Quiet(down', x) => Quiet(down, x)
  BY <1>2, PoppedLast
<1>7. WordsAreTrue'
  <2>1. \A i \in DOMAIN down' : WordIsTrue(i)'
    BY <1>1, <1>2, ArrivalLeavesTruth
  <2>2. QED
    BY <1>1, <1>6, <2>1 DEF WordsAreTrue, Actual, Live
<1>8. WatchFollows'
  BY <1>1 DEF WatchFollows
<1>9. CardFollows'
  <2>1. CASE card' = card
    BY <1>1, <1>6, <2>1 DEF CardFollows
  <2>2. CASE m.phase # "no" /\ onShow = m.s
    <3>1. card'.s = onShow /\ card'.phase = m.phase /\ onShow # 0
      BY <1>1, <1>3, <2>2, IdsAreNumbers
    <3>2. Quiet(down', onShow) => m.phase = Actual(onShow)
      BY <1>2, <2>2, ArrivalIsTrue
    <3>3. Quiet(down', onShow) => m.phase = sess[onShow].phase
      BY <2>2, <3>2 DEF Actual
    <3>4. QED
      BY <1>1, <1>6, <3>1, <3>3 DEF CardFollows
  <2>3. QED
    BY <1>1, <2>1, <2>2
<1>10. QED
  BY <1>4, <1>5, <1>7, <1>8, <1>9

LEMMA StashSessionsKeeps ==
  ASSUME PanesInv, StashSessions
  PROVE  PanesInv'
<1> USE DEF PanesInv
<1> DEFINE m == Head(down)
<1>1. /\ UNCHANGED <<sess, watched, up, seen, chosen, pinned, onShow, card, centre, raced>>
      /\ stash' = m.all /\ reload' = "told"
  BY DEF StashSessions
<1>2. /\ down' \in Seq(Told) /\ m \in Told /\ m.kind = "sessions" /\ Popped(down, down', m)
  BY ArrivalPops DEF StashSessions
<1> HIDE DEF m
<1>3. m.all \in [Ids -> Known]
  BY <1>2 DEF Told
<1>4. PanesType'
  BY <1>1, <1>2, <1>3 DEF PanesType
<1>5. ReloadInOrder'
  <2>1. ~Has(down', "sessions") /\ (Has(down', "rest") => Has(down, "rest")) /\ Has(down, "sessions")
    BY <1>2, PoppedKinds DEF ReloadInOrder
  <2>2. Once(down', "sessions") /\ Once(down', "rest") /\ SessionsFirst(down')
    BY <1>2, PoppedKinds, PoppedSessionsFirst DEF ReloadInOrder
  <2>3. ~Has(up, "sessions")
    BY <2>1 DEF ReloadInOrder
  <2>4. Once(up, "sessions") /\ Once(up, "rest") /\ SessionsFirst(up) /\ (Has(up, "rest") => ~Has(down', "rest"))
    BY <2>1 DEF ReloadInOrder
  <2>5. QED
    BY <1>1, <2>1, <2>2, <2>3, <2>4 DEF ReloadInOrder
<1>6. \A x : Quiet(down', x) => Quiet(down, x)
  BY <1>2, PoppedLast
<1>7. WordsAreTrue'
  <2>1. \A i \in DOMAIN down' : WordIsTrue(i)'
    BY <1>1, <1>2, ArrivalLeavesTruth
  <2>2. \A x \in Ids : (m.all[x] # "no" => sess[x].phase # "no") /\ (Quiet(down', x) => m.all[x] = Actual(x))
    BY <1>2, ArrivalIsTrue
  <2>3. QED
    BY <1>1, <1>6, <2>1, <2>2 DEF WordsAreTrue, Actual, Live
<1>8. WatchFollows'
  BY <1>1 DEF WatchFollows
<1>9. CardFollows'
  BY <1>1 DEF CardFollows
<1>10. QED
  BY <1>4, <1>5, <1>7, <1>8, <1>9

LEMMA ApplyReloadKeeps ==
  ASSUME PanesInv, ApplyReload
  PROVE  PanesInv'
<1> USE DEF PanesInv
<1> DEFINE m == Head(down)
<1>1. /\ UNCHANGED <<sess, watched, chosen, pinned, centre, raced>>
      /\ seen' = stash /\ stash' = NotSeen /\ reload' = "no"
      /\ SyncDetail(chosen, stash, pinned, onShow)
  BY DEF ApplyReload
<1>2. /\ down' \in Seq(Told) /\ m \in Told /\ m.kind = "rest" /\ Popped(down, down', m)
  BY ArrivalPops DEF ApplyReload
<1> HIDE DEF m
<1>3. \A x : Quiet(down', x) => Quiet(down, x)
  BY <1>2, PoppedLast
<1>4. Has(down, "rest") /\ ~Has(down', "rest")
  BY <1>2, PoppedKinds DEF ReloadInOrder
<1>5. ~Has(down, "sessions")
  <2>1. Has(down, "sessions") <=> Has(down', "sessions")
    BY <1>2, PoppedKinds
  <2>2. ~Has(down', "sessions")
    BY <1>2, PoppedSessionsFirst DEF ReloadInOrder
  <2>3. QED
    BY <2>1, <2>2
<1>6. ~Has(up, "rest") /\ ~Has(up, "sessions") /\ reload = "told"
  BY <1>4, <1>5 DEF ReloadInOrder, PanesType
<1>7. WordsAreTrue'
  <2>1. \A i \in DOMAIN down' : WordIsTrue(i)'
    BY <1>1, <1>2, ArrivalLeavesTruth
  <2>2. \A x \in Ids : NotSeen[x] = "no"
    BY DEF NotSeen
  <2>3. QED
    BY <1>1, <1>3, <1>6, <2>1, <2>2 DEF WordsAreTrue, Actual, Live
<1>8. /\ chosen \in Shells \cup {NoShell} /\ pinned \in {0} \cup Ids
      /\ seen' \in [Ids -> Known] /\ stash' \in [Ids -> Known]
  BY <1>1 DEF PanesType, NotSeen, Known
<1>9. /\ CardFollows'
      /\ up' \in Seq(Asked) /\ SameLoads(up, up')
      /\ onShow' \in {0, Unset} \cup Ids
      /\ card' \in [s : {0} \cup Ids, phase : Phases \cup {"no"}]
      /\ onShow' = onShow => up' = up
      /\ onShow' # onShow /\ onShow' \in Ids => Streams(up', watched, {onShow'})
  BY <1>1, <1>7, <1>8, SyncedCard
<1>10. onShow' = Unset => onShow = Unset
  BY <1>1, <1>7, <1>8, SyncedCard, SyncDetailSyncs
<1>11. PanesType'
  BY <1>1, <1>2, <1>8, <1>9 DEF PanesType
<1>12. ReloadInOrder'
  <2>1. ~Has(down', "sessions")
    BY <1>2, <1>5, PoppedKinds
  <2>2. Once(down', "sessions") /\ Once(down', "rest") /\ SessionsFirst(down')
    BY <1>2, PoppedKinds, PoppedSessionsFirst DEF ReloadInOrder
  <2>3. QED
    BY <1>1, <1>4, <1>6, <1>9, <2>1, <2>2 DEF ReloadInOrder, SameLoads
<1>13. WatchFollows'
  BY <1>1, <1>9, <1>10, IdsAreNumbers DEF WatchFollows
<1>14. QED
  BY <1>7, <1>9, <1>11, <1>12, <1>13

LEMMA ApplyStateKeeps ==
  ASSUME PanesInv, ApplyState
  PROVE  PanesInv'
<1> USE DEF PanesInv
<1> DEFINE m == Head(down)
           known == [seen EXCEPT ![m.s] = IF m.phase = "closed" THEN "no" ELSE m.phase]
<1>1. /\ UNCHANGED <<sess, watched, reload, stash, chosen, pinned, centre>>
      /\ seen' = known
      /\ raced' = (raced \/ reload = "told")
      /\ IF chosen # m.of THEN UNCHANGED <<onShow, card, up>>
         ELSE IF m.phase = "closed" /\ onShow = m.s
         THEN /\ card' = IF card.s \in {0, m.s} THEN [s |-> m.s, phase |-> "closed"] ELSE card
              /\ UNCHANGED <<onShow, up>>
         ELSE SyncDetail(chosen, known, pinned, onShow)
  BY DEF ApplyState
<1>2. /\ down' \in Seq(Told) /\ m \in Told /\ m.kind = "state" /\ Popped(down, down', m)
  BY ArrivalPops DEF ApplyState
<1>3. m.s \in Ids /\ m.of \in Shells /\ m.phase \in Phases
  BY <1>2 DEF Told
<1>4. /\ known \in [Ids -> Known]
      /\ known[m.s] = IF m.phase = "closed" THEN "no" ELSE m.phase
      /\ \A x \in Ids : x # m.s => known[x] = seen[x]
  BY <1>3 DEF PanesType, Known, Phases
<1> HIDE DEF m, known
<1>5. /\ m.of = sess[m.s].of /\ sess[m.s].phase # "no"
      /\ Quiet(down', m.s) => m.phase = sess[m.s].phase
  BY <1>2, ArrivalIsTrue
<1>6. \A x : x # m.s /\ Quiet(down', x) => Quiet(down, x)
  BY <1>2, PoppedLast
<1>7. WordsAreTrue'
  <2>1. \A i \in DOMAIN down' : WordIsTrue(i)'
    BY <1>1, <1>2, ArrivalLeavesTruth
  <2>2. \A x \in Ids : known[x] # "no" \/ stash[x] # "no" => sess[x].phase # "no"
    BY <1>4, <1>5 DEF WordsAreTrue
  <2>3. ASSUME ~raced', NEW x \in Ids, Quiet(down', x)
        PROVE  known[x] = Actual(x)
    <3>1. CASE x = m.s
      BY <1>3, <1>4, <1>5, <2>3, <3>1 DEF Actual, Live, Phases
    <3>2. CASE x # m.s
      BY <1>1, <1>4, <1>6, <2>3, <3>2 DEF WordsAreTrue
    <3>3. QED
      BY <3>1, <3>2
  <2>4. ~raced' => reload' # "told"
    BY <1>1
  <2>5. QED
    BY <1>1, <2>1, <2>2, <2>3, <2>4 DEF WordsAreTrue, Actual, Live
<1>8. /\ raced' \in BOOLEAN /\ seen' \in [Ids -> Known] /\ pinned' \in {0} \cup Ids
      /\ chosen \in Shells \cup {NoShell} /\ SameLoads(up, up) /\ up \in Seq(Asked)
  BY <1>1, <1>4 DEF PanesType, SameLoads
<1>9. pinned # 0 => pinned \in Ids
  BY DEF PanesType
<1>10. CASE chosen # m.of
  <2>1. UNCHANGED <<onShow, card, up>>
    BY <1>1, <1>10
  <2>2. PanesType' /\ ReloadInOrder' /\ WatchFollows'
    BY <1>1, <1>2, <1>8, <2>1, ArrivalLeavesReload DEF PanesType, WatchFollows
  <2>3. ASSUME chosen # NoShell, reload = "no"
        PROVE  /\ onShow \in Ids =>
                    /\ sess[onShow].of = chosen
                    /\ ~raced' /\ Quiet(down', onShow) => card.phase = sess[onShow].phase
               /\ onShow = 0 => \A x \in Ids : known[x] # "no" => sess[x].of # chosen
               /\ pinned # 0 /\ known[pinned] # "no" /\ sess[pinned].of = chosen => onShow = pinned
    BY <1>1, <1>4, <1>5, <1>6, <1>9, <1>10, <2>3 DEF CardFollows
  <2>4. CardFollows'
    BY <1>1, <2>1, <2>3 DEF CardFollows
  <2>5. QED
    BY <1>7, <2>2, <2>4
<1>11. CASE chosen = m.of /\ m.phase = "closed" /\ onShow = m.s
  <2>1. UNCHANGED <<onShow, up>> /\ card' = [s |-> m.s, phase |-> "closed"]
    BY <1>1, <1>3, <1>11 DEF CardFollows
  <2>2. card' \in [s : {0} \cup Ids, phase : Phases \cup {"no"}]
    BY <1>3, <2>1 DEF Phases
  <2>3. PanesType' /\ ReloadInOrder' /\ WatchFollows'
    BY <1>1, <1>2, <1>8, <2>1, <2>2, ArrivalLeavesReload DEF PanesType, WatchFollows
  <2>4. onShow \in Ids /\ onShow # 0 /\ card'.s = onShow /\ card'.phase = "closed"
    BY <1>3, <1>11, <2>1, IdsAreNumbers
  <2>5. pinned # 0 /\ known[pinned] # "no" => seen[pinned] # "no"
    BY <1>4, <1>9, <1>11
  <2>6. CardFollows'
    BY <1>1, <1>5, <1>11, <2>1, <2>4, <2>5 DEF CardFollows
  <2>7. QED
    BY <1>7, <2>3, <2>6
<1>12. CASE chosen = m.of /\ ~(m.phase = "closed" /\ onShow = m.s)
  <2>1. SyncDetail(chosen, known, pinned, onShow)
    BY <1>1, <1>12
  <2>2. /\ CardFollows'
        /\ up' \in Seq(Asked) /\ SameLoads(up, up')
        /\ onShow' \in {0, Unset} \cup Ids
        /\ card' \in [s : {0} \cup Ids, phase : Phases \cup {"no"}]
        /\ onShow' = onShow => up' = up
        /\ onShow' # onShow /\ onShow' \in Ids => Streams(up', watched, {onShow'})
    BY <1>1, <1>7, <1>8, <2>1, SyncedCard
  <2>3. onShow' = Unset => onShow = Unset
    BY <1>1, <1>7, <1>8, <2>1, SyncedCard, SyncDetailSyncs
  <2>4. PanesType'
    BY <1>1, <1>2, <1>8, <2>2 DEF PanesType
  <2>5. ReloadInOrder'
    BY <1>1, <1>2, <2>2, ArrivalLeavesReload
  <2>6. WatchFollows'
    BY <1>1, <2>2, <2>3, IdsAreNumbers DEF WatchFollows
  <2>7. QED
    BY <1>7, <2>2, <2>4, <2>5, <2>6
<1>13. QED
  BY <1>10, <1>11, <1>12

-----------------------------------------------------------------------------
(* The panes' invariant holds whatever crosses on the two queues           *)
(* (consoles-view.js, console-manager.js).                                 *)
THEOREM PanesInductive == PanesSpec => []PanesInv
<1>1. PanesInv /\ [PanesNext]_paneVars => PanesInv'
  <2> SUFFICES ASSUME PanesInv, [PanesNext]_paneVars PROVE PanesInv'
    OBVIOUS
  <2>1. CASE UNCHANGED paneVars
    <3>1. UNCHANGED <<sess, watched, up, down, seen, reload, stash, chosen, pinned, onShow,
                      card, centre, raced>>
      BY <2>1 DEF paneVars
    <3>2. PanesType' /\ ReloadInOrder' /\ WatchFollows' /\ CardFollows'
      BY <3>1 DEF PanesInv, PanesType, ReloadInOrder, WatchFollows, CardFollows
    <3>3. WordsAreTrue'
      BY <3>1, WordsStay DEF PanesInv
    <3>4. QED
      BY <3>2, <3>3 DEF PanesInv
  <2>2. CASE PanesNext
    BY <2>2, MainMovesKeep, ServeRequestKeeps, DeedsKeep, LoadsKeep, ApplyStateKeeps,
       StashSessionsKeeps, ApplyReloadKeeps, SeedSessionKeeps DEF PanesNext
  <2>3. QED
    BY <2>1, <2>2
<1>2. QED
  BY <1>1, PanesStarts, PTL DEF PanesSpec

(* Once every message is through, the main process streams the session on  *)
(* show and nothing else, and the window knows every session as it is,     *)
(* whatever the user clicked while replies and events crossed.             *)
THEOREM PaneTrue == PanesSpec => []PaneIsTrue
<1>1. PanesInv => PaneIsTrue
  <2> SUFFICES ASSUME PanesInv, AtRest PROVE PaneIsTrue
    BY DEF PaneIsTrue, PaneIsFed, PaneIsCurrent
  <2> USE DEF PanesInv, AtRest
  <2>1. DOMAIN up = {} /\ DOMAIN down = {}
    OBVIOUS
  <2>2. \A x \in Ids : seen[x] = Actual(x) /\ Quiet(down, x)
    BY <2>1 DEF WordsAreTrue, Quiet, LastWord
  <2>3. \A x : Streams(up, watched, x) => watched = x
    BY <2>1 DEF Streams, Has
  <2>4. /\ chosen # NoShell =>
             /\ onShow \in Ids => card.s = onShow /\ card.phase = sess[onShow].phase
             /\ onShow = 0 => card = NoCard /\ \A s \in Ids : seen[s] # "no" => sess[s].of # chosen
             /\ pinned # 0 /\ seen[pinned] # "no" /\ sess[pinned].of = chosen => onShow = pinned
    BY <2>2 DEF CardFollows
  <2>5. \A x \in Ids : Actual(x) = IF Live(x) THEN sess[x].phase ELSE "no"
    BY DEF Actual
  <2>6. \A x \in Ids : Live(x) => Actual(x) # "no"
    BY DEF Actual, Live
  <2>7. pinned # 0 => pinned \in Ids
    BY DEF PanesType
  <2>8. card = [s |-> card.s, phase |-> card.phase]
    BY DEF PanesType
  <2>9. PaneIsFed
    BY <2>2, <2>3, <2>4, <2>6, <2>7 DEF PaneIsFed, WatchFollows
  <2>10. PaneIsCurrent
    BY <2>2, <2>4, <2>5, <2>6, <2>8 DEF PaneIsCurrent
  <2>11. QED
    BY <2>9, <2>10 DEF PaneIsTrue
<1>2. QED
  BY <1>1, PanesInductive, PTL

-----------------------------------------------------------------------------
(* Induction over the natural numbers, and recursion along a list.          *)

LEMMA LeastNat ==
  ASSUME NEW U, U \subseteq Nat, U # {}
  PROVE  \E m \in U : \A n \in U : m <= n
<1> DEFINE R == OpToRel(<, Nat)
<1>1. IsWellFoundedOn(R, Nat)
  BY NatLessThanWellFounded
<1> HIDE DEF R
<1>2. PICK m \in U : \A y \in U : ~ (<<y, m>> \in R)
  BY <1>1, WFMin
<1>3. \A y \in U : ~ (y < m)
  BY <1>2 DEF R, OpToRel
<1>4. QED
  BY <1>3

LEMMA NatBySteps ==
  ASSUME NEW S, 0 \in S, \A n \in Nat : n \in S => n + 1 \in S
  PROVE  Nat \subseteq S
<1> SUFFICES ASSUME Nat \ S # {} PROVE FALSE
  OBVIOUS
<1>1. PICK m \in Nat \ S : \A n \in Nat \ S : m <= n
  <2> DEFINE U == Nat \ S
  <2>1. U \subseteq Nat /\ U # {}
    OBVIOUS
  <2> HIDE DEF U
  <2>2. QED
    BY <2>1, LeastNat DEF U
<1>2. m - 1 \in Nat
  BY <1>1
<1>3. m - 1 \in S
  BY <1>1, <1>2
<1>4. (m - 1) + 1 \in S
  BY <1>2, <1>3
<1>5. QED
  BY <1>1, <1>4

Unfolds(g, L, V, init, step) ==
  /\ g \in [0 .. L -> V] /\ g[0] = init
  /\ \A n \in 1 .. L : g[n] = step[<<n, g[n - 1]>>]

(* A recursion over 0 .. L whose step stays in V has a solution, in V. *)
LEMMA RecursionExists ==
  ASSUME NEW L \in Nat, NEW V, NEW init \in V, NEW step \in [(1 .. L) \X V -> V]
  PROVE  \E g : Unfolds(g, L, V, init, step)
<1> DEFINE Good(n) == \E g \in [0 .. n -> V] :
              g[0] = init /\ \A i \in 1 .. n : g[i] = step[<<i, g[i - 1]>>]
           S == {n \in Nat : n <= L => Good(n)}
<1>1. 0 \in S
  <2> DEFINE g == [i \in 0 .. 0 |-> init]
  <2>1. g \in [0 .. 0 -> V] /\ g[0] = init /\ \A i \in 1 .. 0 : g[i] = step[<<i, g[i - 1]>>]
    OBVIOUS
  <2>2. Good(0)
    BY <2>1
  <2>3. QED
    BY <2>2
<1>2. \A n \in Nat : n \in S => n + 1 \in S
  <2> SUFFICES ASSUME NEW n \in Nat, n + 1 <= L, Good(n) PROVE Good(n + 1)
    OBVIOUS
  <2>1. PICK g \in [0 .. n -> V] : g[0] = init /\ \A i \in 1 .. n : g[i] = step[<<i, g[i - 1]>>]
    OBVIOUS
  <2> DEFINE h == [i \in 0 .. n + 1 |-> IF i <= n THEN g[i] ELSE step[<<n + 1, g[n]>>]]
  <2>2. n + 1 \in 1 .. L /\ g[n] \in V
    OBVIOUS
  <2>3. h \in [0 .. n + 1 -> V]
    <3>1. step[<<n + 1, g[n]>>] \in V
      BY <2>2
    <3>2. QED
      BY <3>1
  <2>4. h[0] = init
    BY <2>1
  <2>5. ASSUME NEW i \in 1 .. n + 1 PROVE h[i] = step[<<i, h[i - 1]>>]
    <3>1. i - 1 \in 0 .. n /\ h[i - 1] = g[i - 1]
      OBVIOUS
    <3>2. CASE i <= n
      BY <2>1, <3>1, <3>2
    <3>3. CASE i = n + 1
      <4>1. h[n + 1] = step[<<n + 1, g[n]>>]
        OBVIOUS
      <4>2. i - 1 = n
        BY <3>3
      <4>3. h[i - 1] = g[n]
        BY <3>1, <4>2
      <4> HIDE DEF h
      <4>4. QED
        BY <3>3, <4>1, <4>3
    <3>4. QED
      BY <3>2, <3>3
  <2>6. QED
    BY <2>3, <2>4, <2>5
<1>3. L \in S
  <2> HIDE DEF S
  <2>1. Nat \subseteq S
    BY <1>1, <1>2, NatBySteps
  <2>2. QED
    BY <2>1
<1>4. QED
  BY <1>3 DEF Unfolds

-----------------------------------------------------------------------------
(* What is in a list, and that nothing is in it twice.                      *)

Unique(seq) == \A i, j \in DOMAIN seq : seq[i] = seq[j] => i = j

LEMMA AppendIs ==
  ASSUME NEW T, NEW b \in Seq(T), NEW x
  PROVE  /\ ToSet(Append(b, x)) = ToSet(b) \cup {x}
         /\ Unique(b) /\ x \notin ToSet(b) => Unique(Append(b, x))
<1>1. DOMAIN Append(b, x) = (DOMAIN b) \cup {Len(b) + 1}
  OBVIOUS
<1>2. \A i \in DOMAIN b : Append(b, x)[i] = b[i]
  OBVIOUS
<1>3. Append(b, x)[Len(b) + 1] = x
  OBVIOUS
<1>4. ToSet(Append(b, x)) = ToSet(b) \cup {x}
  BY <1>1, <1>2, <1>3 DEF ToSet
<1>5. ASSUME Unique(b), x \notin ToSet(b) PROVE Unique(Append(b, x))
  <2> DEFINE c == Append(b, x)
  <2>1. \A i \in DOMAIN b : b[i] # x
    BY <1>5 DEF ToSet
  <2> HIDE DEF c
  <2>2. \A i, j \in DOMAIN c : c[i] = c[j] => i = j
    BY <1>1, <1>2, <1>3, <1>5, <2>1 DEF c, Unique
  <2>3. QED
    BY <2>2 DEF c, Unique
<1>6. QED
  BY <1>4, <1>5

LEMMA ConcatIs ==
  ASSUME NEW T, NEW a \in Seq(T), NEW b \in Seq(T)
  PROVE  /\ a \o b \in Seq(T) /\ ToSet(a \o b) = ToSet(a) \cup ToSet(b)
         /\ Unique(a) /\ Unique(b) /\ ToSet(a) \cap ToSet(b) = {} => Unique(a \o b)
<1> DEFINE c == a \o b
<1>1. c \in Seq(T) /\ Len(c) = Len(a) + Len(b) /\ DOMAIN c = 1 .. Len(a) + Len(b)
      /\ DOMAIN a = 1 .. Len(a) /\ DOMAIN b = 1 .. Len(b) /\ Len(a) \in Nat /\ Len(b) \in Nat
  OBVIOUS
<1>2. \A i \in DOMAIN a : i \in DOMAIN c /\ c[i] = a[i]
  OBVIOUS
<1>3. \A i \in DOMAIN b : Len(a) + i \in DOMAIN c /\ c[Len(a) + i] = b[i]
  OBVIOUS
<1>4. \A i \in DOMAIN c : i \in DOMAIN a \/ (i - Len(a) \in DOMAIN b /\ c[i] = b[i - Len(a)])
  OBVIOUS
<1> HIDE DEF c
<1>5. ToSet(c) = ToSet(a) \cup ToSet(b)
  <2>1. ASSUME NEW x \in ToSet(c) PROVE x \in ToSet(a) \cup ToSet(b)
    BY <1>2, <1>4 DEF ToSet
  <2>2. ASSUME NEW x \in ToSet(a) \cup ToSet(b) PROVE x \in ToSet(c)
    BY <1>2, <1>3 DEF ToSet
  <2>3. QED
    BY <2>1, <2>2
<1>6. ASSUME Unique(a), Unique(b), ToSet(a) \cap ToSet(b) = {},
             NEW i \in DOMAIN c, NEW j \in DOMAIN c, c[i] = c[j]
      PROVE  i = j
  <2>1. \A x \in DOMAIN a, y \in DOMAIN b : a[x] # b[y]
    BY <1>6 DEF ToSet
  <2>2. CASE i \in DOMAIN a /\ j \in DOMAIN a
    BY <1>2, <1>6, <2>2 DEF Unique
  <2>3. CASE i \in DOMAIN a /\ j \notin DOMAIN a
    BY <1>2, <1>4, <1>6, <2>1, <2>3
  <2>4. CASE i \notin DOMAIN a /\ j \in DOMAIN a
    BY <1>2, <1>4, <1>6, <2>1, <2>4
  <2>5. CASE i \notin DOMAIN a /\ j \notin DOMAIN a
    <3>1. i - Len(a) = j - Len(a)
      BY <1>4, <1>6, <2>5 DEF Unique
    <3>2. QED
      BY <1>1, <3>1
  <2>6. QED
    BY <2>2, <2>3, <2>4, <2>5
<1>7. QED
  BY <1>1, <1>5, <1>6 DEF c, Unique

(* Placing x at any of its places among the others doubles nothing. *)
LEMMA InsertIs ==
  ASSUME NEW T, NEW r \in Seq(T), NEW at \in 1 .. Len(r) + 1, NEW x \in T
  PROVE  /\ InsertAt(r, at, x) \in Seq(T)
         /\ ToSet(InsertAt(r, at, x)) = ToSet(r) \cup {x}
         /\ Unique(r) /\ x \notin ToSet(r) => Unique(InsertAt(r, at, x))
<1> DEFINE a == SubSeq(r, 1, at - 1)
           b == SubSeq(r, at, Len(r))
           m == <<x>>
<1>1. /\ a \in Seq(T) /\ b \in Seq(T) /\ m \in Seq(T)
      /\ DOMAIN a = 1 .. at - 1 /\ DOMAIN b = 1 .. Len(r) - at + 1 /\ DOMAIN m = {1}
      /\ DOMAIN r = 1 .. Len(r) /\ Len(r) \in Nat
  OBVIOUS
<1>2. /\ \A i \in DOMAIN a : i \in DOMAIN r /\ a[i] = r[i]
      /\ \A i \in DOMAIN b : at + i - 1 \in DOMAIN r /\ b[i] = r[at + i - 1]
      /\ m[1] = x
  OBVIOUS
<1> HIDE DEF a, b, m
<1>3. ToSet(m) = {x} /\ Unique(m)
  BY <1>1, <1>2 DEF ToSet, Unique
<1>4. ToSet(r) = ToSet(a) \cup ToSet(b)
  <2>1. ASSUME NEW i \in DOMAIN r PROVE r[i] \in ToSet(a) \cup ToSet(b)
    <3>1. CASE i < at
      <4>1. i \in DOMAIN a
        BY <1>1, <3>1
      <4>2. QED
        BY <1>2, <4>1 DEF ToSet
    <3>2. CASE i >= at
      <4>1. i - at + 1 \in DOMAIN b /\ at + (i - at + 1) - 1 = i
        BY <1>1, <3>2
      <4>2. QED
        BY <1>2, <4>1 DEF ToSet
    <3>3. QED
      BY <1>1, <3>1, <3>2
  <2>2. QED
    BY <1>2, <2>1 DEF ToSet
<1>5. ASSUME Unique(r)
      PROVE  Unique(a) /\ Unique(b) /\ ToSet(a) \cap ToSet(b) = {}
  <2>1. Unique(a)
    BY <1>2, <1>5 DEF Unique
  <2>2. Unique(b)
    <3>1. ASSUME NEW i \in DOMAIN b, NEW j \in DOMAIN b, b[i] = b[j] PROVE i = j
      <4>1. at + i - 1 = at + j - 1
        BY <1>2, <1>5, <3>1 DEF Unique
      <4>2. QED
        BY <1>1, <4>1
    <3>2. QED
      BY <3>1 DEF Unique
  <2>3. ASSUME NEW i \in DOMAIN a, NEW j \in DOMAIN b, a[i] = b[j] PROVE FALSE
    <3>1. i = at + j - 1
      BY <1>2, <1>5, <2>3 DEF Unique
    <3>2. QED
      BY <1>1, <3>1
  <2>4. QED
    BY <2>1, <2>2, <2>3 DEF ToSet
<1>6. /\ a \o m \in Seq(T) /\ ToSet(a \o m) = ToSet(a) \cup {x}
      /\ Unique(a) /\ x \notin ToSet(a) => Unique(a \o m)
  BY <1>1, <1>3, ConcatIs
<1> DEFINE c == a \o m
<1> HIDE DEF c
<1>7. /\ c \o b \in Seq(T) /\ ToSet(c \o b) = ToSet(c) \cup ToSet(b)
      /\ Unique(c) /\ Unique(b) /\ ToSet(c) \cap ToSet(b) = {} => Unique(c \o b)
  BY <1>1, <1>6, ConcatIs DEF c
<1>8. InsertAt(r, at, x) = c \o b
  BY DEF InsertAt, a, b, c, m
<1>9. c \in Seq(T) /\ ToSet(c) = ToSet(a) \cup {x}
      /\ (Unique(a) /\ x \notin ToSet(a) => Unique(c))
  BY <1>6 DEF c
<1>10. QED
  BY <1>4, <1>5, <1>7, <1>8, <1>9

-----------------------------------------------------------------------------
(* Array.prototype.filter keeps the wanted elements and no others.          *)

LEMMA OnlyIs ==
  ASSUME NEW T, NEW seq \in Seq(T), NEW S
  PROVE  /\ Only(seq, S) \in Seq(T \cap S) /\ ToSet(Only(seq, S)) = ToSet(seq) \cap S
         /\ Unique(seq) => Unique(Only(seq, S))
<1> DEFINE L == Len(seq)
           V == Seq(T \cap S)
           step == [p \in (1 .. L) \X V |->
                      IF seq[p[1]] \in S THEN Append(p[2], seq[p[1]]) ELSE p[2]]
<1>1. L \in Nat /\ <<>> \in V
  OBVIOUS
<1>2. step \in [(1 .. L) \X V -> V]
  <2>1. ASSUME NEW p \in (1 .. L) \X V
        PROVE  (IF seq[p[1]] \in S THEN Append(p[2], seq[p[1]]) ELSE p[2]) \in V
    OBVIOUS
  <2>2. QED
    BY <2>1
<1>3. PICK g : Unfolds(g, L, V, <<>>, step)
  <2> HIDE DEF L, V, step
  <2>1. QED
    BY <1>1, <1>2, RecursionExists
<1>0. g \in [0 .. L -> V] /\ g[0] = <<>> /\ \A n \in 1 .. L : g[n] = step[<<n, g[n - 1]>>]
  BY <1>3 DEF Unfolds
<1>4. ASSUME NEW n \in 1 .. L
      PROVE  g[n] = IF seq[n] \in S THEN Append(g[n - 1], seq[n]) ELSE g[n - 1]
  <2>1. n - 1 \in 0 .. L
    OBVIOUS
  <2>2. <<n, g[n - 1]>> \in (1 .. L) \X V
    BY <1>0, <2>1
  <2>3. QED
    BY <1>0, <2>2
<1> DEFINE Eq(f) == f = [n \in 0 .. Len(seq) |->
                           IF n = 0 THEN <<>>
                           ELSE IF seq[n] \in S THEN Append(f[n - 1], seq[n]) ELSE f[n - 1]]
           C == CHOOSE f : Eq(f)
<1>5. Eq(g)
  <2> DEFINE B(n) == IF n = 0 THEN <<>>
                     ELSE IF seq[n] \in S THEN Append(g[n - 1], seq[n]) ELSE g[n - 1]
  <2>1. ASSUME NEW n \in 0 .. L PROVE g[n] = B(n)
    <3>1. CASE n = 0
      BY <1>0, <3>1
    <3>2. CASE n # 0
      <4>1. n \in 1 .. L
        BY <3>2
      <4>2. QED
        BY <1>4, <3>2, <4>1
    <3>3. QED
      BY <3>1, <3>2
  <2> HIDE DEF B
  <2>2. g = [n \in 0 .. L |-> B(n)]
    BY <1>0, <2>1
  <2>3. QED
    BY <2>2 DEF B
<1>6. Eq(C)
  <2> HIDE DEF Eq
  <2>1. QED
    BY <1>5
<1>7. Only(seq, S) = C[Len(seq)]
  BY DEF Only
<1> HIDE DEF C
<1> DEFINE UpTo(n) == /\ C[n] \in V /\ ToSet(C[n]) = {seq[i] : i \in 1 .. n} \cap S
                      /\ Unique(seq) => Unique(C[n])
           U == {n \in Nat : n <= L => UpTo(n)}
<1>8. 0 \in U
  <2>1. C[0] = <<>>
    BY <1>6
  <2>2. ToSet(<<>>) = {} /\ Unique(<<>>)
    BY DEF ToSet, Unique
  <2>3. {seq[i] : i \in 1 .. 0} = {}
    OBVIOUS
  <2>4. /\ C[0] \in V /\ ToSet(C[0]) = {seq[i] : i \in 1 .. 0} \cap S
        /\ Unique(C[0])
    BY <1>1, <2>1, <2>2, <2>3
  <2>5. QED
    BY <2>4
<1>9. \A n \in Nat : n \in U => n + 1 \in U
  <2> SUFFICES ASSUME NEW n \in Nat, n + 1 <= L, UpTo(n) PROVE UpTo(n + 1)
    <3> HIDE DEF UpTo
    <3>1. QED
      BY <1>1
  <2>1. C[n + 1] = IF seq[n + 1] \in S THEN Append(C[n], seq[n + 1]) ELSE C[n]
    <3>1. n + 1 \in 0 .. Len(seq) /\ n + 1 # 0 /\ (n + 1) - 1 = n
      OBVIOUS
    <3>2. QED
      BY <1>6, <3>1
  <2>2. seq[n + 1] \in T
    OBVIOUS
  <2>3. {seq[i] : i \in 1 .. n + 1} = {seq[i] : i \in 1 .. n} \cup {seq[n + 1]}
    <3>1. 1 .. n + 1 = (1 .. n) \cup {n + 1}
      OBVIOUS
    <3>2. QED
      BY <3>1
  <2>4. CASE seq[n + 1] \in S
    <3>1. C[n + 1] = Append(C[n], seq[n + 1])
      BY <2>1, <2>4
    <3>2. C[n + 1] \in V
      BY <2>2, <2>4, <3>1
    <3>3. /\ ToSet(C[n + 1]) = ToSet(C[n]) \cup {seq[n + 1]}
          /\ Unique(C[n]) /\ seq[n + 1] \notin ToSet(C[n]) => Unique(C[n + 1])
      <4> DEFINE b == C[n]
                 x == seq[n + 1]
      <4>1. b \in Seq(T \cap S)
        OBVIOUS
      <4> HIDE DEF b, x
      <4>2. /\ ToSet(Append(b, x)) = ToSet(b) \cup {x}
            /\ Unique(b) /\ x \notin ToSet(b) => Unique(Append(b, x))
        BY <4>1, AppendIs
      <4>3. QED
        BY <3>1, <4>2 DEF b, x
    <3>4. Unique(seq) => seq[n + 1] \notin ToSet(C[n])
      <4>1. \A i \in 1 .. n : i \in DOMAIN seq /\ n + 1 \in DOMAIN seq /\ i # n + 1
        OBVIOUS
      <4>2. QED
        BY <4>1 DEF Unique
    <3>5. QED
      BY <2>3, <2>4, <3>2, <3>3, <3>4
  <2>5. CASE seq[n + 1] \notin S
    <3>1. C[n + 1] = C[n]
      BY <2>1, <2>5
    <3>2. {seq[i] : i \in 1 .. n + 1} \cap S = {seq[i] : i \in 1 .. n} \cap S
      BY <2>3, <2>5
    <3>3. QED
      BY <3>1, <3>2
  <2>6. QED
    BY <2>4, <2>5
<1>10. L \in U
  <2> HIDE DEF U
  <2>1. Nat \subseteq U
    BY <1>8, <1>9, NatBySteps
  <2>2. QED
    BY <1>1, <2>1
<1>11. ToSet(seq) = {seq[i] : i \in 1 .. L}
  BY DEF ToSet
<1>12. QED
  BY <1>1, <1>7, <1>10, <1>11

LEMMA ReorderedIs ==
  ASSUME NEW T, NEW old \in Seq(T), NEW ids \in Seq(T), Unique(old), Unique(ids)
  PROVE  /\ Reordered(old, ids) \in Seq(T) /\ Unique(Reordered(old, ids))
         /\ ToSet(Reordered(old, ids)) = ToSet(old)
<1> DEFINE a == Only(ids, ToSet(old))
           b == Only(old, ToSet(old) \ ToSet(ids))
<1>1. a \in Seq(T \cap ToSet(old)) /\ ToSet(a) = ToSet(ids) \cap ToSet(old) /\ Unique(a)
  BY OnlyIs
<1>2. /\ b \in Seq(T \cap (ToSet(old) \ ToSet(ids)))
      /\ ToSet(b) = ToSet(old) \cap (ToSet(old) \ ToSet(ids)) /\ Unique(b)
  BY OnlyIs
<1> HIDE DEF a, b
<1>3. a \in Seq(T) /\ b \in Seq(T)
  BY <1>1, <1>2
<1>4. a \o b \in Seq(T) /\ ToSet(a \o b) = ToSet(a) \cup ToSet(b) /\ Unique(a \o b)
  BY <1>1, <1>2, <1>3, ConcatIs
<1>5. Reordered(old, ids) = a \o b
  BY DEF Reordered, a, b
<1>6. QED
  BY <1>1, <1>2, <1>4, <1>5

LEMMA WithoutIs ==
  ASSUME NEW T, NEW seq \in Seq(T), NEW x
  PROVE  /\ Without(seq, x) \in Seq(T) /\ ToSet(Without(seq, x)) = ToSet(seq) \ {x}
         /\ Unique(seq) => Unique(Without(seq, x))
<1> DEFINE S == {seq[i] : i \in DOMAIN seq} \ {x}
           r == Only(seq, S)
<1>1. Without(seq, x) = r
  BY DEF Without
<1>2. r \in Seq(T \cap S) /\ ToSet(r) = ToSet(seq) \cap S /\ (Unique(seq) => Unique(r))
  BY OnlyIs
<1> HIDE DEF r
<1>3. r \in Seq(T)
  BY <1>2
<1>4. ToSet(seq) \cap S = ToSet(seq) \ {x}
  BY DEF ToSet
<1>5. QED
  BY <1>1, <1>2, <1>3, <1>4

-----------------------------------------------------------------------------
(* Where a card is placed.                                                  *)

Cell == Nat \X Nat
Layouts == UNION {[S -> Cell] : S \in SUBSET KnownCards}
Injective(f) == \A j, k \in DOMAIN f : j # k => f[j] # f[k]

LEMMA LayoutsAre ==
  ASSUME NEW l
  PROVE  /\ IsLayout(l) <=> l \in Layouts
         /\ l \in Layouts => /\ DOMAIN l \subseteq KnownCards /\ l = [k \in DOMAIN l |-> l[k]]
                             /\ \A k \in DOMAIN l : l[k] \in Cell
BY DEF IsLayout, Layouts, Cell

LEMMA MakesLayout ==
  ASSUME NEW D, D \subseteq KnownCards, NEW l \in [D -> Cell]
  PROVE  l \in Layouts /\ DOMAIN l = D
BY DEF Layouts

LEMMA RangeFinite ==
  ASSUME NEW f, f = [x \in DOMAIN f |-> f[x]], IsFiniteSet(DOMAIN f)
  PROVE  IsFiniteSet({f[x] : x \in DOMAIN f})
<1> DEFINE S == DOMAIN f
           T == {f[x] : x \in S}
<1>1. f \in Surjection(S, T)
  BY DEF Surjection
<1>2. IsFiniteSet(T)
  <2> HIDE DEF S, T
  <2>1. IsFiniteSet(S)
    BY DEF S
  <2>2. QED
    BY <1>1, <2>1, FS_Surjection
<1>3. QED
  BY <1>2

LEMMA KnownFinite == IsFiniteSet(KnownCards)
<1>1. IsFiniteSet(ToSet(Cards))
  <2>1. Len(Cards) \in Int /\ DOMAIN Cards = 1 .. Len(Cards)
        /\ Cards = [i \in DOMAIN Cards |-> Cards[i]]
    BY GridAssumption
  <2>2. IsFiniteSet(DOMAIN Cards)
    <3>1. \A n \in Int : IsFiniteSet(1 .. n)
      BY FS_Interval
    <3>2. QED
      BY <2>1, <3>1
  <2>3. IsFiniteSet({Cards[i] : i \in DOMAIN Cards})
    BY <2>1, <2>2, RangeFinite
  <2>4. QED
    BY <2>3 DEF ToSet
<1>2. QED
  BY <1>1, FS_Singleton, FS_Union DEF KnownCards

(* The first free cell exists, lies in the grid and is free. *)
LEMMA FirstFreeIsFree ==
  ASSUME NEW taken, IsFiniteSet(taken)
  PROVE  FirstFree(taken) \in Cell /\ FirstFree(taken) \notin taken
<1> DEFINE n == Cardinality(taken)
           all == (0 .. Columns - 1) \X (0 .. n)
           free == {c \in all : c \notin taken}
           First(c) == \A d \in free : c[2] < d[2] \/ (c[2] = d[2] /\ c[1] <= d[1])
<1>1. n \in Nat
  BY FS_CardinalityType
<1>2. all \subseteq Cell
  BY <1>1, GridAssumption DEF Cell
<1>3. free # {}
  <2> SUFFICES ASSUME all \subseteq taken PROVE FALSE
    OBVIOUS
  <2> DEFINE rows == 0 .. n
             first == {0} \X rows
  <2>1. IsFiniteSet(rows) /\ Cardinality(rows) = n + 1
    BY <1>1, FS_Interval
  <2>2. IsFiniteSet({0}) /\ Cardinality({0}) = 1
    BY FS_Singleton
  <2>3. first \subseteq taken
    BY GridAssumption
  <2>4. Cardinality(first) = 1 * (n + 1)
    <3> HIDE DEF rows
    <3>1. QED
      BY <2>1, <2>2, FS_Product
  <2>5. Cardinality(first) <= n
    <3> HIDE DEF first
    <3>1. QED
      BY <2>3, FS_Subset
  <2>6. QED
    BY <1>1, <2>4, <2>5
<1>4. \E c \in free : First(c)
  <2> DEFINE R == {c[2] : c \in free}
  <2>1. \A c \in free : c = <<c[1], c[2]>> /\ c[1] \in Nat /\ c[2] \in Nat
    BY <1>2 DEF Cell
  <2>2. R \subseteq Nat /\ R # {}
    BY <1>3, <2>1
  <2> HIDE DEF R
  <2>3. PICK r \in R : \A s \in R : r <= s
    BY <2>2, LeastNat
  <2> DEFINE Q == {c[1] : c \in {d \in free : d[2] = r}}
  <2>4. Q \subseteq Nat /\ Q # {}
    BY <2>1, <2>3 DEF R
  <2> HIDE DEF Q
  <2>5. PICK q \in Q : \A s \in Q : q <= s
    BY <2>4, LeastNat
  <2>6. PICK c \in free : c[2] = r /\ c[1] = q
    BY <2>5 DEF Q
  <2>7. ASSUME NEW d \in free PROVE c[2] < d[2] \/ (c[2] = d[2] /\ c[1] <= d[1])
    <3>1. r <= d[2]
      BY <2>3 DEF R
    <3>2. d[2] = r => q <= d[1]
      BY <2>5 DEF Q
    <3>3. QED
      BY <2>1, <2>6, <3>1, <3>2
  <2>8. QED
    BY <2>6, <2>7
<1>5. FirstFree(taken) = CHOOSE c \in free : First(c)
  BY DEF FirstFree
<1>6. FirstFree(taken) \in free
  <2> HIDE DEF free, First
  <2>1. QED
    BY <1>4, <1>5
<1>7. QED
  BY <1>2, <1>6

(* A displaced card returns with whoever stands in its home. *)
LEMMA ReturningIs ==
  ASSUME NEW at, NEW away
  PROVE  /\ Returning(at, away) \subseteq DOMAIN away
         /\ \A k \in Returning(at, away) : \A j \in DOMAIN at \ {k} :
              at[j] = away[k] => j \in Returning(at, away)
<1> DEFINE Settled(R) == \A k \in DOMAIN away :
                     (\A j \in DOMAIN at \ {k} : at[j] = away[k] => j \in R) => k \in R
           Least(R) == Settled(R) /\ \A S \in SUBSET DOMAIN away : Settled(S) => R \subseteq S
           B == Returning(at, away)
<1>1. \E R \in SUBSET DOMAIN away : Least(R)
  <2> DEFINE M == {k \in DOMAIN away : \A S \in SUBSET DOMAIN away : Settled(S) => k \in S}
  <2>1. Settled(M)
    <3> SUFFICES ASSUME NEW k \in DOMAIN away,
                        \A j \in DOMAIN at \ {k} : at[j] = away[k] => j \in M,
                        NEW S \in SUBSET DOMAIN away, Settled(S)
                 PROVE  k \in S
      OBVIOUS
    <3>1. \A j \in DOMAIN at \ {k} : at[j] = away[k] => j \in S
      OBVIOUS
    <3>2. QED
      BY <3>1
  <2>2. \A S \in SUBSET DOMAIN away : Settled(S) => M \subseteq S
    OBVIOUS
  <2>3. M \in SUBSET DOMAIN away
    OBVIOUS
  <2> HIDE DEF M, Settled
  <2>4. QED
    BY <2>1, <2>2, <2>3
<1>2. B \in SUBSET DOMAIN away /\ Least(B)
  <2>1. B = CHOOSE R \in SUBSET DOMAIN away : Least(R)
    BY DEF Returning
  <2> HIDE DEF Least, B
  <2>2. QED
    BY <1>1, <2>1
<1>3. ASSUME NEW k \in B, NEW i \in DOMAIN at \ {k}, at[i] = away[k], i \notin B
      PROVE  FALSE
  <2> DEFINE S == B \ {k}
  <2>1. Settled(S)
    <3> SUFFICES ASSUME NEW m \in DOMAIN away,
                        \A j \in DOMAIN at \ {m} : at[j] = away[m] => j \in S
                 PROVE  m \in S
      OBVIOUS
    <3>1. m \in B
      <4> HIDE DEF B
      <4>1. QED
        BY <1>2
    <3>2. m # k
      BY <1>3
    <3>3. QED
      BY <3>1, <3>2
  <2> HIDE DEF B, Settled
  <2>2. QED
    BY <1>2, <2>1
<1>4. QED
  BY <1>2, <1>3

-----------------------------------------------------------------------------
(* Placement puts every card in a cell of its own.                          *)

LEMMA PlacedIs ==
  ASSUME NEW keys \in Seq(KnownCards), NEW base \in Layouts
  PROVE  /\ Placed(keys, base) \in Layouts /\ Injective(Placed(keys, base))
         /\ DOMAIN Placed(keys, base) = ToSet(keys)
<1> DEFINE keeps(i) == keys[i] \in DOMAIN base
                  /\ \A j \in 1 .. i - 1 :
                       keys[j] \in DOMAIN base => base[keys[j]] # base[keys[i]]
           stays == {keys[i] : i \in {i \in DOMAIN keys : keeps(i)}}
           init == [k \in stays |-> base[k]]
           L == Len(keys)
           V == {l \in Layouts : Injective(l)}
           with(at, x) == IF x \in DOMAIN at THEN at
                          ELSE [k \in DOMAIN at \cup {x} |->
                                  IF k = x THEN FirstFree(Range(at)) ELSE at[k]]
           step == [p \in (1 .. L) \X V |-> with(p[2], keys[p[1]])]
<1>1. L \in Nat /\ DOMAIN keys = 1 .. L
  OBVIOUS
<1>2. init \in V /\ DOMAIN init = stays /\ stays \subseteq ToSet(keys)
  <2>1. stays \subseteq ToSet(keys)
    BY DEF ToSet
  <2>2. stays \subseteq KnownCards /\ stays \subseteq DOMAIN base
    BY <1>1
  <2>3. init \in [stays -> Cell]
    <3> HIDE DEF stays
    <3>1. QED
      BY <2>2, LayoutsAre
  <2>4. init \in Layouts /\ DOMAIN init = stays
    <3> HIDE DEF stays, init
    <3>1. QED
      BY <2>2, <2>3, MakesLayout
  <2>5. ASSUME NEW a \in stays, NEW b \in stays, base[a] = base[b] PROVE a = b
    <3>1. PICK i \in 1 .. L : keys[i] = a /\ keeps(i)
      BY <1>1
    <3>2. PICK j \in 1 .. L : keys[j] = b /\ keeps(j)
      BY <1>1
    <3>3. ~ (i < j) /\ ~ (j < i)
      BY <2>2, <2>5, <3>1, <3>2
    <3>4. QED
      BY <3>1, <3>2, <3>3
  <2>6. Injective(init)
    <3> HIDE DEF stays
    <3>1. QED
      BY <2>5 DEF Injective
  <2>7. QED
    BY <2>1, <2>4, <2>6
<1>3. ASSUME NEW at \in V, NEW x \in KnownCards
      PROVE  with(at, x) \in V /\ DOMAIN with(at, x) = DOMAIN at \cup {x}
  <2>1. CASE x \in DOMAIN at
    BY <2>1
  <2>2. CASE x \notin DOMAIN at
    <3> DEFINE f == FirstFree(Range(at))
               w == [k \in DOMAIN at \cup {x} |-> IF k = x THEN f ELSE at[k]]
    <3>1. with(at, x) = w
      BY <2>2
    <3>2. DOMAIN at \subseteq KnownCards /\ at = [k \in DOMAIN at |-> at[k]]
          /\ \A k \in DOMAIN at : at[k] \in Cell
      BY LayoutsAre
    <3>3. IsFiniteSet(DOMAIN at)
      BY <3>2, KnownFinite, FS_Subset
    <3>4. IsFiniteSet(Range(at))
      BY <3>2, <3>3, RangeFinite DEF Range
    <3>5. f \in Cell /\ f \notin Range(at)
      BY <3>4, FirstFreeIsFree
    <3>6. \A k \in DOMAIN at : at[k] # f
      BY <3>5 DEF Range
    <3> HIDE DEF f
    <3>7. w \in [DOMAIN at \cup {x} -> Cell]
      BY <3>2, <3>5
    <3>8. w \in Layouts /\ DOMAIN w = DOMAIN at \cup {x}
      <4> HIDE DEF w
      <4>1. DOMAIN at \cup {x} \subseteq KnownCards
        BY <3>2
      <4>2. QED
        BY <3>7, <4>1, MakesLayout
    <3>9. Injective(w)
      BY <2>2, <3>6 DEF Injective
    <3>10. QED
      BY <3>1, <3>8, <3>9
  <2>3. QED
    BY <2>1, <2>2
<1> HIDE DEF stays, init, with, V
<1>4. step \in [(1 .. L) \X V -> V]
  <2>1. ASSUME NEW p \in (1 .. L) \X V PROVE with(p[2], keys[p[1]]) \in V
    <3>1. p[2] \in V /\ keys[p[1]] \in KnownCards
      BY <1>1
    <3>2. QED
      BY <1>3, <3>1
  <2>2. QED
    BY <2>1
<1>5. PICK g : Unfolds(g, L, V, init, step)
  <2> HIDE DEF L, step
  <2>1. QED
    BY <1>1, <1>2, <1>4, RecursionExists
<1>6. g \in [0 .. L -> V] /\ g[0] = init /\ \A n \in 1 .. L : g[n] = step[<<n, g[n - 1]>>]
  BY <1>5 DEF Unfolds
<1>7. ASSUME NEW n \in 1 .. L PROVE g[n] = with(g[n - 1], keys[n])
  <2>1. n - 1 \in 0 .. L
    OBVIOUS
  <2>2. <<n, g[n - 1]>> \in (1 .. L) \X V
    BY <1>6, <2>1
  <2>3. QED
    BY <1>6, <2>2
<1> DEFINE Eq(f) == f = [n \in 0 .. Len(keys) |->
                           IF n = 0 THEN init ELSE with(f[n - 1], keys[n])]
           C == CHOOSE f : Eq(f)
<1>8. Eq(g)
  <2> DEFINE B(n) == IF n = 0 THEN init ELSE with(g[n - 1], keys[n])
  <2>1. ASSUME NEW n \in 0 .. L PROVE g[n] = B(n)
    <3>1. CASE n = 0
      BY <1>6, <3>1
    <3>2. CASE n # 0
      <4>1. n \in 1 .. L
        BY <3>2
      <4>2. QED
        BY <1>7, <3>2, <4>1
    <3>3. QED
      BY <3>1, <3>2
  <2> HIDE DEF B
  <2>2. g = [n \in 0 .. L |-> B(n)]
    BY <1>6, <2>1
  <2>3. QED
    BY <2>2 DEF B
<1>9. Eq(C)
  <2> HIDE DEF Eq
  <2>1. QED
    BY <1>8
<1>10. Placed(keys, base) = C[Len(keys)]
  BY DEF Placed, init, stays, with
<1> HIDE DEF C
<1> DEFINE UpTo(n) == C[n] \in V /\ DOMAIN C[n] = stays \cup {keys[i] : i \in 1 .. n}
           U == {n \in Nat : n <= L => UpTo(n)}
<1>11. 0 \in U
  <2>1. C[0] = init
    BY <1>9
  <2>2. {keys[i] : i \in 1 .. 0} = {}
    OBVIOUS
  <2>3. UpTo(0)
    BY <1>2, <2>1, <2>2
  <2>4. QED
    BY <2>3
<1>12. \A n \in Nat : n \in U => n + 1 \in U
  <2> SUFFICES ASSUME NEW n \in Nat, n + 1 <= L, UpTo(n) PROVE UpTo(n + 1)
    <3> HIDE DEF UpTo
    <3>1. QED
      BY <1>1
  <2>1. C[n + 1] = with(C[n], keys[n + 1])
    <3>1. n + 1 \in 0 .. Len(keys) /\ n + 1 # 0 /\ (n + 1) - 1 = n
      OBVIOUS
    <3>2. QED
      BY <1>9, <3>1
  <2>2. keys[n + 1] \in KnownCards
    OBVIOUS
  <2>3. {keys[i] : i \in 1 .. n + 1} = {keys[i] : i \in 1 .. n} \cup {keys[n + 1]}
    <3>1. 1 .. n + 1 = (1 .. n) \cup {n + 1}
      OBVIOUS
    <3>2. QED
      BY <3>1
  <2>4. C[n + 1] \in V /\ DOMAIN C[n + 1] = DOMAIN C[n] \cup {keys[n + 1]}
    BY <1>3, <2>1, <2>2
  <2>5. QED
    BY <2>3, <2>4
<1>13. L \in U
  <2> HIDE DEF U
  <2>1. Nat \subseteq U
    BY <1>11, <1>12, NatBySteps
  <2>2. QED
    BY <1>1, <2>1
<1>14. ToSet(keys) = {keys[i] : i \in 1 .. L}
  BY DEF ToSet
<1>15. QED
  BY <1>1, <1>2, <1>10, <1>13, <1>14 DEF V

LEMMA NextToOthers ==
  ASSUME NEW at \in Layouts, Injective(at), NEW k \in DOMAIN at, NEW target \in Cell,
         NEW away \in Layouts, Injective(away)
  PROVE  LET d == Dropped(at, away, k, target)
         IN  /\ d.at \in Layouts /\ Injective(d.at) /\ DOMAIN d.at = DOMAIN at
             /\ d.away \in Layouts /\ Injective(d.away)
<1> DEFINE origin == at[k]
           evicted == {j \in DOMAIN at \ {k} : at[j] = target}
           at1 == [j \in DOMAIN at |-> IF j = k THEN target
                                  ELSE IF j \in evicted THEN origin ELSE at[j]]
           away0 == [j \in DOMAIN away \ {k} |-> away[j]]
           homeless == {j \in evicted : target \notin Range(away0)}
           away1 == [j \in DOMAIN away0 \cup homeless |->
                  IF j \in DOMAIN away0 THEN away0[j] ELSE target]
           back == Returning(at1, away1)
           at2 == [j \in DOMAIN at |-> IF j \in back THEN away1[j] ELSE at1[j]]
           away2 == [j \in DOMAIN away1 \ back |-> away1[j]]
<1>1. Dropped(at, away, k, target).at = at2 /\ Dropped(at, away, k, target).away = away2
  BY DEF Dropped
<1>2. /\ DOMAIN at \subseteq KnownCards /\ \A j \in DOMAIN at : at[j] \in Cell
      /\ DOMAIN away \subseteq KnownCards /\ \A j \in DOMAIN away : away[j] \in Cell
  BY LayoutsAre
<1>3. \A i, j \in DOMAIN at : at[i] = at[j] => i = j
  BY DEF Injective
<1>4. \A i, j \in evicted : i = j
  BY <1>3
<1>5. /\ DOMAIN at1 = DOMAIN at /\ (\A j \in DOMAIN at : at1[j] \in Cell)
      /\ \A i, j \in DOMAIN at : at1[i] = at1[j] => i = j
  BY <1>2, <1>3
<1>6. /\ DOMAIN away1 \subseteq KnownCards
      /\ \A j \in DOMAIN away1 : away1[j] \in Cell
      /\ \A i, j \in DOMAIN away1 : away1[i] = away1[j] => i = j
  <2>1. DOMAIN away1 = (DOMAIN away \ {k}) \cup homeless
    OBVIOUS
  <2>2. \A j \in DOMAIN away \ {k} : away1[j] = away[j]
    OBVIOUS
  <2>3. \A j \in homeless : j \notin DOMAIN away \ {k} => away1[j] = target
    OBVIOUS
  <2>4. homeless # {} => \A j \in DOMAIN away \ {k} : away[j] # target
    BY DEF Range
  <2>5. homeless \subseteq evicted /\ homeless \subseteq KnownCards
    BY <1>2
  <2> HIDE DEF away1, homeless, evicted
  <2>6. \A i, j \in DOMAIN away : away[i] = away[j] => i = j
    BY DEF Injective
  <2>7. QED
    BY <1>2, <1>4, <2>1, <2>2, <2>3, <2>4, <2>5, <2>6
<1> HIDE DEF at1, away1
<1>7. back \subseteq DOMAIN away1
      /\ \A i \in back : \A j \in DOMAIN at1 \ {i} : at1[j] = away1[i] => j \in back
  BY ReturningIs
<1> HIDE DEF back
<1>8. at2 \in [DOMAIN at -> Cell] /\ Injective(at2)
  BY <1>5, <1>6, <1>7 DEF Injective
<1>9. away2 \in [DOMAIN away1 \ back -> Cell] /\ Injective(away2)
  BY <1>6 DEF Injective
<1>10. at2 \in Layouts /\ DOMAIN at2 = DOMAIN at
  <2> HIDE DEF at2
  <2>1. QED
    BY <1>2, <1>8, MakesLayout
<1>11. away2 \in Layouts
  <2> HIDE DEF away2
  <2>1. DOMAIN away1 \ back \subseteq KnownCards
    BY <1>6
  <2>2. QED
    BY <1>9, <2>1, MakesLayout
<1> HIDE DEF at2, away2
<1>12. QED
  BY <1>1, <1>8, <1>9, <1>10, <1>11

-----------------------------------------------------------------------------
(* The grid, its layout and the settings.                                   *)

GridTypes ==
  /\ tab \in {NoTab} \cup ToSet(Tabs) /\ laidFor \in {NoTab} \cup ToSet(Tabs)
  /\ visible \in Seq(CardSet) /\ cells \in Layouts /\ homes \in Layouts
  /\ layout = Nothing \/ layout \in Layouts
  /\ IsSettings(store) /\ (fetched = Nothing \/ IsSettings(fetched)) /\ overtaken \in BOOLEAN

(* No two cards in one cell or of one home, and the card in hand is shown. *)
GridApart ==
  /\ Injective(cells) /\ Injective(homes)
  /\ tab # NoTab => tab = laidFor /\ DOMAIN cells = ToSet(visible)
  /\ held \in CardSet => tab # NoTab /\ held \in DOMAIN cells

(* Until a reload is overtaken, what it read is what is stored, and once a *)
(* tunnel was shown the canvas, the view and the settings agree, with no   *)
(* legacy layout left to adopt in their place.                             *)
GridShared ==
  ~overtaken =>
    /\ fetched # Nothing => fetched = store
    /\ laidFor # NoTab =>
         /\ AsMap(layout) = cells /\ AsMap(store.layout) = cells
         /\ store.layout # Nothing \/ DOMAIN store.legacy = {}

GridInv == GridTypes /\ GridApart /\ GridShared

LEMMA CardsKnown == /\ CardSet \subseteq KnownCards /\ Seq(CardSet) \subseteq Seq(KnownCards)
                    /\ NoHold \notin CardSet /\ Retired \notin CardSet
                    /\ Retired # NoHold
BY GridAssumption DEF CardSet, KnownCards

LEMMA BareIs == Bare \in Layouts /\ DOMAIN Bare = {} /\ Injective(Bare)
<1>1. Bare \in [{} -> Cell]
  BY DEF Bare
<1>2. QED
  BY <1>1, MakesLayout DEF Injective

LEMMA AsMapIs ==
  ASSUME NEW l
  PROVE  /\ l \in Layouts => AsMap(l) = l /\ l # Nothing
         /\ AsMap(Nothing) = Bare
         /\ l = Nothing \/ l \in Layouts => AsMap(l) \in Layouts
BY BareIs, LayoutsAre, GridAssumption DEF AsMap

LEMMA SettingsAre ==
  ASSUME NEW s, IsSettings(s)
  PROVE  /\ s = [order |-> s.order, layout |-> s.layout, legacy |-> s.legacy]
         /\ s.order = Nothing \/ s.order \in Seq(KnownCards)
         /\ s.layout = Nothing \/ s.layout \in Layouts
         /\ \A t \in DOMAIN s.legacy : s.legacy[t] \in Layouts
BY LayoutsAre DEF IsSettings

(* Storing an order, a layout or the loss of the legacy ones. *)
LEMMA SettingsMade ==
  ASSUME NEW s, IsSettings(s), NEW order, order = Nothing \/ order \in Seq(KnownCards),
         NEW l, l = Nothing \/ l \in Layouts, NEW old, old = s.legacy \/ old = Bare
  PROVE  IsSettings([order |-> order, layout |-> l, legacy |-> old])
<1> DEFINE t == [order |-> order, layout |-> l, legacy |-> old]
<1>1. t.order = order /\ t.layout = l /\ t.legacy = old
  OBVIOUS
<1>2. t = [order |-> t.order, layout |-> t.layout, legacy |-> t.legacy]
  OBVIOUS
<1>3. t.layout = Nothing \/ IsLayout(t.layout)
  BY <1>1, LayoutsAre
<1>4. \A x \in DOMAIN t.legacy : IsLayout(t.legacy[x])
  BY <1>1, BareIs DEF IsSettings
<1>5. t.order = Nothing \/ t.order \in Seq(KnownCards)
  BY <1>1
<1> HIDE DEF t
<1>6. IsSettings(t)
  BY <1>2, <1>3, <1>4, <1>5 DEF IsSettings
<1>7. QED
  BY <1>6 DEF t

LEMMA SettingsPut ==
  ASSUME NEW s, IsSettings(s), NEW l, NEW old
  PROVE  [s EXCEPT !.layout = l, !.legacy = old]
           = [order |-> s.order, layout |-> l, legacy |-> old]
<1>1. s = [order |-> s.order, layout |-> s.layout, legacy |-> s.legacy]
  BY SettingsAre
<1> DEFINE t == [s EXCEPT !.layout = l, !.legacy = old]
<1>2. DOMAIN s = {"order", "layout", "legacy"}
  BY <1>1
<1>3. t = [f \in {"order", "layout", "legacy"} |->
             IF f = "legacy" THEN old ELSE IF f = "layout" THEN l ELSE s[f]]
  BY <1>2
<1>4. QED
  BY <1>3

LEMMA GridStarts == GridInit => GridInv
<1> SUFFICES ASSUME GridInit PROVE GridInv
  OBVIOUS
<1>1. GridTypes
  <2>1. Cards \in Seq(CardSet)
    BY GridAssumption DEF CardSet, ToSet
  <2>2. IsSettings(store) /\ fetched = store
    BY GridAssumption DEF GridInit
  <2>3. QED
    BY <2>1, <2>2, BareIs DEF GridInit, GridTypes
<1>2. GridApart
  BY BareIs, CardsKnown DEF GridInit, GridApart
<1>3. GridShared
  BY DEF GridInit, GridShared
<1>4. QED
  BY <1>1, <1>2, <1>3 DEF GridInv

(* setCards never makes two displaced cards wait for one home. *)
LEMMA HomesKept ==
  ASSUME GridInv, NEW t, NEW keys, SetCards(t, keys)
  PROVE  homes' \in Layouts /\ Injective(homes')
<1>1. CASE t # laidFor
  BY <1>1, BareIs DEF SetCards
<1>2. CASE t = laidFor
  <2> DEFINE D == DOMAIN homes \cap ToSet(keys)
  <2>1. homes \in Layouts /\ Injective(homes)
    BY DEF GridInv, GridTypes, GridApart
  <2>2. D \subseteq KnownCards /\ \A k \in D : homes[k] \in Cell
    BY <2>1, LayoutsAre
  <2>3. homes' = [k \in D |-> homes[k]]
    BY <1>2 DEF SetCards
  <2>4. Injective(homes')
    BY <2>1, <2>3 DEF Injective
  <2> HIDE DEF D
  <2>5. homes' \in [D -> Cell]
    BY <2>2, <2>3
  <2>6. QED
    BY <2>2, <2>4, <2>5, MakesLayout
<1>3. QED
  BY <1>1, <1>2

LEMMA KeptByRedraw ==
  ASSUME GridInv, NEW keys \in Seq(CardSet), Redraw(keys),
         tab' = tab, fetched' = fetched, held' \notin CardSet
  PROVE  GridInv'
<1> DEFINE at == Placed(keys, cells)
<1>1. at \in Layouts /\ Injective(at) /\ DOMAIN at = ToSet(keys)
  BY CardsKnown, PlacedIs DEF GridInv, GridTypes
<1> HIDE DEF at
<1>2. keys \in Seq(KnownCards) /\ NoHold \notin CardSet
  BY CardsKnown
<1>3. IsSettings(store) /\ (layout = Nothing \/ layout \in Layouts)
  BY DEF GridInv, GridTypes
<1>4. store.layout = Nothing \/ store.layout \in Layouts
  BY <1>3, SettingsAre
<1>5. overtaken' = (overtaken \/ fetched # Nothing) /\ visible' = keys
  BY DEF Redraw, Overtake
<1>6. CASE tab = NoTab
  <2>1. store' = [store EXCEPT !.order = keys]
        /\ UNCHANGED <<laidFor, cells, homes, layout>>
    BY <1>6 DEF Redraw, WithOrder
  <2>2. IsSettings(store') /\ store'.layout = store.layout /\ store'.legacy = store.legacy
    <3>1. store' = [order |-> keys, layout |-> store.layout, legacy |-> store.legacy]
      BY <1>3, <2>1, SettingsAre
    <3>2. IsSettings([order |-> keys, layout |-> store.layout, legacy |-> store.legacy])
      BY <1>2, <1>3, <1>4, SettingsMade
    <3>3. QED
      BY <3>1, <3>2
  <2>3. GridTypes'
    BY <1>5, <2>1, <2>2 DEF GridInv, GridTypes
  <2>4. GridApart'
    BY <1>2, <1>6, <2>1 DEF GridInv, GridApart
  <2>5. GridShared'
    BY <1>5, <2>1, <2>2 DEF GridInv, GridShared, AsMap
  <2>6. QED
    BY <2>3, <2>4, <2>5 DEF GridInv
<1>7. CASE tab # NoTab
  <2> DEFINE stays == IF at # cells THEN at ELSE store.layout
  <2>1. /\ SetCards(tab, keys) /\ cells' = at
        /\ layout' = IF at # cells THEN at ELSE layout
        /\ store' = [store EXCEPT !.order = keys, !.layout = stays]
    <3>1. store' = [store EXCEPT !.order = keys, !.layout = IF at # cells THEN at ELSE @]
      BY <1>7 DEF Redraw, at
    <3>2. QED
      BY <1>3, <1>7, <3>1, SettingsAre DEF Redraw, at
  <2>2. stays = Nothing \/ stays \in Layouts
    BY <1>1, <1>4
  <2> HIDE DEF stays
  <2>3. IsSettings(store') /\ store'.layout = stays /\ store'.legacy = store.legacy
    <3>1. store' = [order |-> keys, layout |-> stays, legacy |-> store.legacy]
      <4>1. store = [order |-> store.order, layout |-> store.layout, legacy |-> store.legacy]
        BY <1>3, SettingsAre
      <4>2. store' = [store EXCEPT !.order = keys, !.layout = stays]
        BY <2>1
      <4>3. QED
        BY <4>1, <4>2
    <3>2. IsSettings([order |-> keys, layout |-> stays, legacy |-> store.legacy])
      BY <1>2, <1>3, <2>2, SettingsMade
    <3>3. QED
      BY <3>1, <3>2
  <2>4. homes' \in Layouts /\ Injective(homes')
    BY <2>1, HomesKept
  <2>5. laidFor' = tab /\ laidFor = tab
    BY <1>7, <2>1 DEF SetCards, GridInv, GridApart
  <2>6. GridTypes'
    BY <1>1, <1>3, <1>5, <2>1, <2>3, <2>4, <2>5 DEF GridInv, GridTypes
  <2>7. GridApart'
    BY <1>1, <1>2, <1>5, <2>1, <2>4, <2>5 DEF GridInv, GridApart
  <2>8. GridShared'
    <3>1. CASE at # cells
      BY <1>1, <1>5, <2>1, <2>3, <3>1, AsMapIs DEF GridInv, GridShared, stays
    <3>2. CASE at = cells
      <4>1. layout' = layout /\ store'.layout = store.layout /\ cells' = cells
        BY <2>1, <2>3, <3>2 DEF stays
      <4>2. QED
        BY <1>5, <2>3, <2>5, <4>1 DEF GridInv, GridShared, AsMap
    <3>3. QED
      BY <3>1, <3>2
  <2>9. QED
    BY <2>6, <2>7, <2>8 DEF GridInv
<1>8. QED
  BY <1>6, <1>7

(* The layout the canvas emits reaches the view and the settings. *)
LEMMA Persisted ==
  ASSUME IsSettings(store), NEW at \in Layouts, Persist(at)
  PROVE  /\ layout' = at /\ IsSettings(store') /\ store'.layout = at
         /\ store'.legacy = store.legacy /\ AsMap(at) = at /\ at # Nothing
<1>1. store = [order |-> store.order, layout |-> store.layout, legacy |-> store.legacy]
      /\ (store.order = Nothing \/ store.order \in Seq(KnownCards))
  BY SettingsAre
<1>2. layout' = at /\ store' = [store EXCEPT !.layout = at]
  BY DEF Persist
<1>3. store' = [order |-> store.order, layout |-> at, legacy |-> store.legacy]
  BY <1>1, <1>2
<1>4. IsSettings([order |-> store.order, layout |-> at, legacy |-> store.legacy])
  BY <1>1, SettingsMade
<1>5. QED
  BY <1>2, <1>3, <1>4, AsMapIs

LEMMA KeptByShowTab ==
  ASSUME GridInv, NEW t \in ToSet(Tabs), ShowTab(t)
  PROVE  GridInv'
<1> DEFINE base == IF t # laidFor THEN AsMap(layout) ELSE cells
           at == Placed(visible, base)
<1>1. /\ IsSettings(store) /\ (layout = Nothing \/ layout \in Layouts) /\ t # NoTab
      /\ visible \in Seq(KnownCards) /\ cells \in Layouts
  BY CardsKnown, GridAssumption DEF GridInv, GridTypes
<1>2. base \in Layouts
  BY <1>1, AsMapIs
<1>3. ~overtaken => base = cells /\ AsMap(layout) = cells
  BY DEF ShowTab, GridInv, GridShared
<1> HIDE DEF base
<1>4. at \in Layouts /\ Injective(at) /\ DOMAIN at = ToSet(visible)
  BY <1>1, <1>2, PlacedIs
<1>5. /\ laidFor # NoTab /\ tab' = t /\ laidFor' = t /\ cells' = at
      /\ IF at # base THEN Persist(at) /\ Overtake ELSE UNCHANGED <<layout, store, overtaken>>
  BY DEF ShowTab, SetCards, base
<1>6. visible' = visible /\ fetched' = fetched /\ held' \notin CardSet
  BY CardsKnown DEF ShowTab, NodesReplaced, Dragging, InHand
<1> HIDE DEF at
<1>7. homes' \in Layouts /\ Injective(homes')
  BY HomesKept DEF ShowTab
<1>8. GridApart'
  BY <1>4, <1>5, <1>6, <1>7, CardsKnown DEF GridInv, GridApart
<1>9. CASE at # base
  <2>1. /\ layout' = at /\ IsSettings(store') /\ store'.layout = at
        /\ AsMap(at) = at /\ at # Nothing
    BY <1>1, <1>4, <1>5, <1>9, Persisted
  <2>2. overtaken' = (overtaken \/ fetched # Nothing)
    BY <1>5, <1>9 DEF Overtake
  <2>3. GridTypes'
    BY <1>4, <1>5, <1>6, <1>7, <2>1, <2>2 DEF GridInv, GridTypes
  <2>4. GridShared'
    BY <1>5, <1>6, <2>1, <2>2 DEF GridInv, GridShared
  <2>5. QED
    BY <1>8, <2>3, <2>4 DEF GridInv
<1>10. CASE at = base
  <2>1. UNCHANGED <<layout, store, overtaken>>
    BY <1>5, <1>10
  <2>2. GridTypes'
    BY <1>4, <1>5, <1>6, <1>7, <2>1 DEF GridInv, GridTypes
  <2>3. GridShared'
    BY <1>3, <1>5, <1>6, <1>10, <2>1 DEF GridInv, GridShared, AsMap
  <2>4. QED
    BY <1>8, <2>2, <2>3 DEF GridInv
<1>11. QED
  BY <1>9, <1>10

LEMMA KeptByColumns ==
  ASSUME GridInv
  PROVE  /\ \A k \in CardSet : ToggleField(k) => GridInv'
         /\ \A from, to \in CardSet : MoveColumn(from, to) => GridInv'
         /\ DropAway => GridInv'
<1>1. visible \in Seq(CardSet)
  BY DEF GridInv, GridTypes
<1>2. ASSUME NEW k \in CardSet, ToggleField(k) PROVE GridInv'
  <2> DEFINE keys == IF k \in ToSet(visible) THEN Without(visible, k) ELSE Append(visible, k)
  <2>1. keys \in Seq(CardSet)
    BY <1>1, WithoutIs
  <2>2. Redraw(keys) /\ tab' = tab /\ fetched' = fetched /\ held' \notin CardSet
    BY <1>2 DEF ToggleField, InHand
  <2> HIDE DEF keys
  <2>3. QED
    BY <2>1, <2>2, KeptByRedraw
<1>3. ASSUME NEW from \in CardSet, NEW to \in CardSet, MoveColumn(from, to) PROVE GridInv'
  <2> DEFINE rest == Without(visible, from)
             i == CHOOSE i \in DOMAIN rest : rest[i] = to
             keys == InsertAt(rest, i, from)
  <2>1. from # to /\ to \in ToSet(visible)
    BY <1>3 DEF MoveColumn
  <2>2. rest \in Seq(CardSet) /\ to \in ToSet(rest)
    BY <1>1, <2>1, WithoutIs
  <2>3. Redraw(keys) /\ tab' = tab /\ fetched' = fetched /\ held' \notin CardSet
    BY <1>3 DEF MoveColumn, InHand
  <2> HIDE DEF rest
  <2>4. i \in DOMAIN rest
    BY <2>2 DEF ToSet
  <2> HIDE DEF i
  <2>5. i \in 1 .. Len(rest)
    BY <2>2, <2>4
  <2>6. SubSeq(rest, 1, i - 1) \in Seq(CardSet) /\ SubSeq(rest, i, Len(rest)) \in Seq(CardSet)
    BY <2>2, <2>5
  <2>7. keys \in Seq(CardSet)
    BY <2>6 DEF InsertAt
  <2> HIDE DEF keys
  <2>8. QED
    BY <2>3, <2>7, KeptByRedraw
<1>4. ASSUME DropAway PROVE GridInv'
  <2> DEFINE keys == Without(visible, held)
  <2>1. keys \in Seq(CardSet)
    BY <1>1, WithoutIs
  <2>2. Redraw(keys) /\ tab' = tab /\ fetched' = fetched /\ held' \notin CardSet
    BY <1>4, CardsKnown DEF DropAway
  <2> HIDE DEF keys
  <2>3. QED
    BY <2>1, <2>2, KeptByRedraw
<1>5. QED
  BY <1>2, <1>3, <1>4

LEMMA KeptByHand ==
  ASSUME GridInv
  PROVE  /\ ClearTab => GridInv'
         /\ \A k \in CardSet : Press(k) => GridInv'
         /\ LetGo => GridInv'
         /\ LoadReads => GridInv'
         /\ UNCHANGED gridVars => GridInv'
<1>1. ASSUME ClearTab PROVE GridInv'
  <2>1. GridTypes'
    BY <1>1 DEF GridInv, GridTypes, ClearTab
  <2>2. GridApart' /\ GridShared'
    BY <1>1, CardsKnown DEF GridInv, GridApart, GridShared, ClearTab, InHand, AsMap
  <2>3. QED
    BY <2>1, <2>2 DEF GridInv
<1>2. ASSUME NEW k \in CardSet, Press(k) PROVE GridInv'
  BY <1>2 DEF GridInv, GridTypes, GridApart, GridShared, Press, AsMap
<1>3. ASSUME LetGo PROVE GridInv'
  BY <1>3, CardsKnown DEF GridInv, GridTypes, GridApart, GridShared, LetGo, InHand, AsMap
<1>4. ASSUME LoadReads PROVE GridInv'
  BY <1>4 DEF GridInv, GridTypes, GridApart, GridShared, LoadReads, AsMap
<1>5. ASSUME UNCHANGED gridVars PROVE GridInv'
  BY <1>5 DEF GridInv, GridTypes, GridApart, GridShared, gridVars, AsMap
<1>6. QED
  BY <1>1, <1>2, <1>3, <1>4, <1>5

LEMMA KeptByDropCard ==
  ASSUME GridInv, DropCard
  PROVE  GridInv'
<1>1. PICK target \in (0 .. Reach) \X (0 .. Reach) :
        LET d == Dropped(cells, homes, held, target)
        IN cells' = d.at /\ homes' = d.away /\ Persist(d.at)
  BY DEF DropCard
<1> DEFINE at == Dropped(cells, homes, held, target).at
<1>2. target \in Cell
  BY GridAssumption DEF Cell
<1>3. /\ IsSettings(store) /\ cells \in Layouts /\ homes \in Layouts
      /\ Injective(cells) /\ Injective(homes)
      /\ tab # NoTab /\ held \in DOMAIN cells /\ DOMAIN cells = ToSet(visible)
  BY DEF DropCard, InHand, GridInv, GridTypes, GridApart
<1>4. /\ at \in Layouts /\ Injective(at) /\ DOMAIN at = DOMAIN cells
      /\ homes' \in Layouts /\ Injective(homes')
  BY <1>1, <1>2, <1>3, NextToOthers
<1>5. cells' = at /\ Persist(at)
  BY <1>1
<1>6. /\ held' = NoHold /\ overtaken' = (overtaken \/ fetched # Nothing)
      /\ UNCHANGED <<tab, laidFor, visible, fetched>>
  BY DEF DropCard, Overtake
<1> HIDE DEF at
<1>7. /\ layout' = at /\ IsSettings(store') /\ store'.layout = at
      /\ AsMap(at) = at /\ at # Nothing
  BY <1>3, <1>4, <1>5, Persisted
<1>8. GridTypes'
  BY <1>4, <1>5, <1>6, <1>7 DEF GridInv, GridTypes
<1>9. GridApart'
  BY <1>3, <1>4, <1>5, <1>6, CardsKnown DEF GridInv, GridApart
<1>10. GridShared'
  BY <1>5, <1>6, <1>7 DEF GridShared
<1>11. QED
  BY <1>8, <1>9, <1>10 DEF GridInv

LEMMA VisibleIs ==
  ASSUME NEW saved \in Seq(KnownCards), saved # Nothing
  PROVE  Visible(saved) \in Seq(CardSet)
<1> DEFINE L == Len(saved)
           V == Seq(CardSet)
           more(o, x) == IF x \in CardSet \ ToSet(o) THEN Append(o, x) ELSE o
           step == [p \in (1 .. L) \X V |-> more(p[2], saved[p[1]])]
<1>1. L \in Nat /\ <<>> \in V
  OBVIOUS
<1>2. ASSUME NEW o \in V, NEW x PROVE more(o, x) \in V
  OBVIOUS
<1> HIDE DEF more
<1>3. step \in [(1 .. L) \X V -> V]
  <2>1. ASSUME NEW p \in (1 .. L) \X V PROVE more(p[2], saved[p[1]]) \in V
    BY <1>2
  <2>2. QED
    BY <2>1
<1>4. PICK g : Unfolds(g, L, V, <<>>, step)
  <2> HIDE DEF L, V, step
  <2>1. QED
    BY <1>1, <1>3, RecursionExists
<1>5. g \in [0 .. L -> V] /\ g[0] = <<>> /\ \A n \in 1 .. L : g[n] = step[<<n, g[n - 1]>>]
  BY <1>4 DEF Unfolds
<1>6. ASSUME NEW n \in 1 .. L PROVE g[n] = more(g[n - 1], saved[n])
  <2>1. n - 1 \in 0 .. L
    OBVIOUS
  <2>2. <<n, g[n - 1]>> \in (1 .. L) \X V
    BY <1>5, <2>1
  <2>3. QED
    BY <1>5, <2>2
<1> DEFINE Eq(f) == f = [n \in 0 .. Len(saved) |->
                           IF n = 0 THEN <<>> ELSE more(f[n - 1], saved[n])]
           C == CHOOSE f : Eq(f)
<1>7. Eq(g)
  <2> DEFINE B(n) == IF n = 0 THEN <<>> ELSE more(g[n - 1], saved[n])
  <2>1. ASSUME NEW n \in 0 .. L PROVE g[n] = B(n)
    <3>1. CASE n = 0
      BY <1>5, <3>1
    <3>2. CASE n # 0
      <4>1. n \in 1 .. L
        BY <3>2
      <4>2. QED
        BY <1>6, <3>2, <4>1
    <3>3. QED
      BY <3>1, <3>2
  <2> HIDE DEF B
  <2>2. g = [n \in 0 .. L |-> B(n)]
    BY <1>5, <2>1
  <2>3. QED
    BY <2>2 DEF B
<1>8. Eq(C)
  <2> HIDE DEF Eq
  <2>1. QED
    BY <1>7
<1>9. Visible(saved) = C[Len(saved)]
  BY DEF Visible, more
<1> HIDE DEF C
<1> DEFINE U == {n \in Nat : n <= L => C[n] \in V}
<1>10. 0 \in U
  BY <1>1, <1>8
<1>11. \A n \in Nat : n \in U => n + 1 \in U
  <2> SUFFICES ASSUME NEW n \in Nat, n + 1 <= L, C[n] \in V PROVE C[n + 1] \in V
    <3> HIDE DEF V
    <3>1. QED
      BY <1>1
  <2>1. C[n + 1] = more(C[n], saved[n + 1])
    <3>1. n + 1 \in 0 .. Len(saved) /\ n + 1 # 0 /\ (n + 1) - 1 = n
      OBVIOUS
    <3>2. QED
      BY <1>8, <3>1
  <2>2. QED
    BY <1>2, <2>1
<1>12. L \in U
  <2> HIDE DEF U
  <2>1. Nat \subseteq U
    BY <1>10, <1>11, NatBySteps
  <2>2. QED
    BY <1>1, <2>1
<1>13. QED
  BY <1>1, <1>9, <1>12

(* A reload shows known cards only, and adopts a stored layout or none. *)
LEMMA ReloadIs ==
  ASSUME NEW s, IsSettings(s)
  PROVE  /\ Visible(s.order) \in Seq(CardSet)
         /\ Adopted(s) = Nothing \/ Adopted(s) \in Layouts
         /\ s.layout # Nothing \/ DOMAIN s.legacy = {} => Adopted(s) = s.layout
<1>1. Visible(s.order) \in Seq(CardSet)
  <2>1. CASE s.order = Nothing
    <3>1. Cards \in Seq(CardSet)
      BY GridAssumption DEF CardSet, ToSet
    <3>2. QED
      BY <2>1, <3>1 DEF Visible
  <2>2. CASE s.order # Nothing
    <3>1. s.order \in Seq(KnownCards)
      BY <2>2, SettingsAre
    <3>2. QED
      BY <2>2, <3>1, VisibleIs
  <2>3. QED
    BY <2>1, <2>2
<1> DEFINE old == {i \in DOMAIN Tabs : Tabs[i] \in DOMAIN s.legacy}
           i0 == CHOOSE i \in old : \A j \in old : i <= j
<1>2. Adopted(s) = IF s.layout # Nothing THEN s.layout
                   ELSE IF old = {} THEN Nothing ELSE s.legacy[Tabs[i0]]
  BY DEF Adopted
<1>3. old # {} => s.legacy[Tabs[i0]] \in Layouts
  <2> SUFFICES ASSUME old # {} PROVE s.legacy[Tabs[i0]] \in Layouts
    OBVIOUS
  <2>1. old \subseteq Nat
    BY GridAssumption
  <2> HIDE DEF old
  <2>2. \E i \in old : \A j \in old : i <= j
    BY <2>1, LeastNat
  <2>3. i0 \in old
    BY <2>2
  <2> HIDE DEF i0
  <2>4. Tabs[i0] \in DOMAIN s.legacy
    BY <2>3 DEF old
  <2>5. QED
    BY <2>4, SettingsAre
<1>4. s.layout = Nothing \/ s.layout \in Layouts
  BY SettingsAre
<1>5. DOMAIN s.legacy = {} => old = {}
  OBVIOUS
<1> HIDE DEF old, i0
<1>6. QED
  BY <1>1, <1>2, <1>3, <1>4, <1>5

LEMMA KeptByLoadLands ==
  ASSUME GridInv, LoadLands
  PROVE  GridInv'
<1> DEFINE keys == Visible(fetched.order)
           adopted == Adopted(fetched)
           migrates == fetched.layout = Nothing /\ DOMAIN fetched.legacy # {}
           at1 == IF tab = NoTab THEN cells ELSE Placed(keys, cells)
           given == IF at1 # cells THEN at1 ELSE adopted
           next == IF tab = NoTab THEN Head(Tabs) ELSE tab
           base == IF next # laidFor THEN AsMap(given) ELSE at1
           at2 == Placed(keys, base)
           stays == IF at2 # base THEN at2 ELSE given
           old == IF migrates THEN Bare ELSE store.legacy
<1>1. /\ fetched # Nothing /\ fetched' = Nothing /\ overtaken' = overtaken
      /\ visible' = keys /\ tab' = next /\ cells' = at2 /\ SetCards(next, keys)
      /\ layout' = stays /\ held' = (IF held # NoHold THEN Retired ELSE NoHold)
  BY DEF LoadLands, NodesReplaced, Dragging
<1>2. IsSettings(store) /\ IsSettings(fetched) /\ cells \in Layouts
  BY <1>1 DEF GridInv, GridTypes
<1>3. /\ store = [order |-> store.order, layout |-> store.layout, legacy |-> store.legacy]
      /\ store.order = Nothing \/ store.order \in Seq(KnownCards)
      /\ store.layout = Nothing \/ store.layout \in Layouts
  BY <1>2, SettingsAre
<1>4. store' = IF at2 # base \/ at1 # cells
                 THEN [order |-> store.order, layout |-> stays, legacy |-> old]
               ELSE IF migrates
                 THEN [order |-> store.order, layout |-> adopted, legacy |-> Bare]
               ELSE store
  <2>1. store' = IF at2 # base \/ at1 # cells
                   THEN [store EXCEPT !.layout = stays, !.legacy = IF migrates THEN Bare ELSE @]
                 ELSE IF migrates
                   THEN [store EXCEPT !.layout = adopted, !.legacy = Bare]
                 ELSE store
    BY DEF LoadLands
  <2> HIDE DEF at2, base, at1, stays, adopted, migrates
  <2>3. [store EXCEPT !.layout = stays, !.legacy = IF migrates THEN Bare ELSE @]
          = [order |-> store.order, layout |-> stays, legacy |-> old]
    <3>1. \A x : [store EXCEPT !.layout = stays, !.legacy = x]
                   = [order |-> store.order, layout |-> stays, legacy |-> x]
      BY <1>2, SettingsPut
    <3>2. CASE migrates
      BY <3>1, <3>2
    <3>3. CASE ~migrates
      BY <3>1, <3>3
    <3>4. QED
      BY <3>2, <3>3
  <2>4. [store EXCEPT !.layout = adopted, !.legacy = Bare]
          = [order |-> store.order, layout |-> adopted, legacy |-> Bare]
    BY <1>2, SettingsPut
  <2> HIDE DEF old
  <2>5. QED
    BY <2>1, <2>3, <2>4
<1>5. next \in ToSet(Tabs) /\ next # NoTab
  BY GridAssumption DEF GridInv, GridTypes, ToSet
<1>6. /\ keys \in Seq(CardSet) /\ keys \in Seq(KnownCards)
      /\ adopted = Nothing \/ adopted \in Layouts
      /\ fetched.layout # Nothing \/ DOMAIN fetched.legacy = {} => adopted = fetched.layout
  BY <1>2, ReloadIs, CardsKnown
<1> HIDE DEF keys, adopted, next
<1>7. at1 \in Layouts
  BY <1>2, <1>6, PlacedIs
<1> HIDE DEF at1
<1>8. given = Nothing \/ given \in Layouts
  BY <1>6, <1>7
<1> HIDE DEF given
<1>9. base \in Layouts
  BY <1>7, <1>8, AsMapIs
<1> HIDE DEF base
<1>10. at2 \in Layouts /\ Injective(at2) /\ DOMAIN at2 = ToSet(keys)
  BY <1>6, <1>9, PlacedIs
<1> HIDE DEF at2
<1>11. stays = Nothing \/ stays \in Layouts
  BY <1>8, <1>10
<1> HIDE DEF stays
<1>12. homes' \in Layouts /\ Injective(homes') /\ laidFor' = next
  BY <1>1, HomesKept DEF SetCards
<1>13. IsSettings(store')
  <2>1. old = store.legacy \/ old = Bare
    OBVIOUS
  <2> HIDE DEF old, migrates
  <2>2. IsSettings([order |-> store.order, layout |-> stays, legacy |-> old])
    BY <1>2, <1>3, <1>11, <2>1, SettingsMade
  <2>3. IsSettings([order |-> store.order, layout |-> adopted, legacy |-> Bare])
    BY <1>2, <1>3, <1>6, SettingsMade
  <2>4. QED
    BY <1>2, <1>4, <2>2, <2>3
<1>14. GridTypes'
  BY <1>1, <1>5, <1>6, <1>10, <1>11, <1>12, <1>13 DEF GridInv, GridTypes
<1>15. GridApart'
  BY <1>1, <1>10, <1>12, CardsKnown DEF GridApart
<1>16. GridShared'
  <2> SUFFICES ASSUME ~overtaken
               PROVE  /\ AsMap(stays) = at2 /\ AsMap(store'.layout) = at2
                      /\ store'.layout # Nothing \/ DOMAIN store'.legacy = {}
    BY <1>1 DEF GridShared
  <2>1. fetched = store
    BY <1>1 DEF GridInv, GridShared
  <2>2. laidFor # NoTab => /\ AsMap(store.layout) = cells
                           /\ store.layout # Nothing \/ DOMAIN store.legacy = {}
    BY DEF GridInv, GridShared
  <2>3. ~migrates => adopted = store.layout /\ (store.layout # Nothing \/ DOMAIN store.legacy = {})
    BY <1>6, <2>1
  <2>4. migrates => ~(store.layout # Nothing \/ DOMAIN store.legacy = {})
    BY <2>1
  <2>5. (migrates => DOMAIN old = {}) /\ (~migrates => old = store.legacy)
    BY BareIs
  <2> HIDE DEF old, migrates
  <2>6. AsMap(stays) = at2
    <3>1. CASE at2 # base
      BY <1>10, <3>1, AsMapIs DEF stays
    <3>2. CASE at2 = base /\ next # laidFor
      BY <3>2 DEF stays, base
    <3>3. CASE at2 = base /\ next = laidFor
      <4>1. at2 = at1 /\ stays = given
        BY <3>3 DEF stays, base
      <4>2. CASE at1 # cells
        BY <1>7, <4>1, <4>2, AsMapIs DEF given
      <4>3. CASE at1 = cells
        BY <1>5, <2>2, <2>3, <2>4, <3>3, <4>1, <4>3 DEF given
      <4>4. QED
        BY <4>2, <4>3
    <3>4. QED
      BY <3>1, <3>2, <3>3
  <2>7. CASE at2 # base \/ at1 # cells
    <3>1. store'.layout = stays /\ store'.legacy = old
      BY <1>4, <2>7
    <3>2. stays # Nothing
      BY <1>7, <1>10, <2>7, AsMapIs DEF stays, given
    <3>3. QED
      BY <2>6, <3>1, <3>2
  <2>8. CASE at2 = base /\ at1 = cells
    <3>1. stays = adopted
      BY <2>8 DEF stays, given
    <3>2. CASE migrates
      BY <1>4, <2>6, <2>8, <3>1, <3>2, BareIs
    <3>3. CASE ~migrates
      BY <1>4, <2>3, <2>6, <2>8, <3>1, <3>3
    <3>4. QED
      BY <3>2, <3>3
  <2>9. QED
    BY <2>6, <2>7, <2>8
<1>17. QED
  BY <1>14, <1>15, <1>16 DEF GridInv

LEMMA GridSteps == GridInv /\ [GridNext]_gridVars => GridInv'
<1> SUFFICES ASSUME GridInv, [GridNext]_gridVars PROVE GridInv'
  OBVIOUS
<1>1. ASSUME NEW i \in DOMAIN Tabs, ShowTab(Tabs[i]) PROVE GridInv'
  <2>1. Tabs[i] \in ToSet(Tabs)
    BY DEF ToSet
  <2>2. QED
    BY <1>1, <2>1, KeptByShowTab
<1>2. CASE ClearTab \/ LetGo \/ LoadReads \/ UNCHANGED gridVars
  BY <1>2, KeptByHand
<1>3. ASSUME NEW k \in CardSet, ToggleField(k) \/ Press(k) PROVE GridInv'
  BY <1>3, KeptByColumns, KeptByHand
<1>4. ASSUME NEW from \in CardSet, NEW to \in CardSet, MoveColumn(from, to) PROVE GridInv'
  BY <1>4, KeptByColumns
<1>5. CASE DropCard
  BY <1>5, KeptByDropCard
<1>6. CASE DropAway
  BY <1>6, KeptByColumns
<1>7. CASE LoadLands
  BY <1>7, KeptByLoadLands
<1>8. QED
  BY <1>1, <1>2, <1>3, <1>4, <1>5, <1>6, <1>7 DEF GridNext

LEMMA GridShows == GridInv => GridIsSound
<1> SUFFICES ASSUME GridInv PROVE GridIsSound
  OBVIOUS
<1>1. CardsApart
  BY DEF GridInv, GridApart, CardsApart, Injective
<1>2. LayoutIsShared
  BY DEF GridInv, GridApart, GridShared, GridTypes, LayoutIsShared
<1>3. QED
  BY <1>1, <1>2 DEF GridIsSound

(* The canvas, the view, the settings and a reload under way keep GridInv. *)
THEOREM GridInductive == GridSpec => []GridInv
<1>1. QED
  BY GridStarts, GridSteps, PTL DEF GridSpec

(* Whatever the user drags, drops, hides, shows or resets, and whenever a  *)
(* reload lands, no two visible cards share a cell, no two displaced cards *)
(* wait for one home, and unless a reload was overtaken every tunnel is    *)
(* laid out as the settings say (applyDrop, placeCards, setCards and       *)
(* #loadCardLayout), for any catalogue, grid and list of tunnels.          *)
THEOREM GridSound == GridSpec => []GridIsSound
<1>1. QED
  BY GridInductive, GridShows, PTL

-----------------------------------------------------------------------------
(* The trees of the sidebar.                                                *)

RowsOf(k) == IF k = "tunnels" THEN Tunnels ELSE Consoles

(* What a view of tree k may be: no row and no group twice, and every row  *)
(* in one of its groups or in none.                                        *)
Snapshots(k) ==
  {v \in [order : Seq(RowsOf(k)), member : [RowsOf(k) -> Sections],
          groups : Seq(Groups), kept : SUBSET Sections] :
     /\ Unique(v.order) /\ Unique(v.groups)
     /\ \A t \in RowsOf(k) : v.member[t] \in ToSet(v.groups) \cup {Ungrouped}}

TreeTypes ==
  /\ recs = [k \in Trees |-> [order |-> recs[k].order, member |-> recs[k].member]]
  /\ DOMAIN kept = Trees /\ DOMAIN view = Trees /\ DOMAIN reads = Trees
  /\ \A k \in Trees : /\ Stored(k) \in Snapshots(k) /\ view[k] \in Snapshots(k)
                      /\ reads[k] \in Seq(Snapshots(k))

(* The ids in the stores are the ones in use. *)
AliveIsStored ==
  /\ \A k \in Trees : ToSet(recs[k].order) = alive \cap RowsOf(k)
  /\ ToSet(groups) = alive \cap Groups
  /\ alive \subseteq Tunnels \cup Consoles \cup Groups

(* A request names no row and no group twice. *)
OpFields == {"tree", "n", "next", "row", "ids", "to", "list", "clean", "shown", "want", "was"}

GoodOp(o) ==
  /\ DOMAIN o = OpFields /\ o.tree \in Trees /\ Unique(o.list)
  /\ o.next \in {"update", "reorder"} => o.list \in Seq(RowsOf(o.tree))
  /\ o.next = "groups" => o.list \in Seq(Groups)

OpsAreGood == \A o \in ops : GoodOp(o)

(* A reload of tree k is still to come of o. *)
Owes(o, k) == \/ o.next \in {"announce", "saved"}
              \/ o.next \in {"reorder", "landed", "assign"} /\ o.tree = k

Owed(k) == \E o \in ops : Owes(o, k)

(* What tree k will show once its replies are applied. *)
ComingTo(k) == IF reads[k] = <<>> THEN view[k] ELSE reads[k][Len(reads[k])]

Alike(v, w) == v.order = w.order /\ v.member = w.member /\ v.groups = w.groups

(* A write that a view will not have seen is followed by a reload of it. *)
NothingMissed == \A k \in Trees : Owed(k) \/ Alike(ComingTo(k), Stored(k))

TreeInv == TreeTypes /\ AliveIsStored /\ OpsAreGood /\ NothingMissed

-----------------------------------------------------------------------------
(* Operators of the model.                                                  *)

LEMMA StoredIs ==
  ASSUME NEW k
  PROVE  /\ Stored(k).order = recs[k].order /\ Stored(k).member = recs[k].member
         /\ Stored(k).groups = groups /\ Stored(k).kept = kept[k]
BY DEF Stored

LEMMA SnapshotsAre ==
  ASSUME NEW k, NEW v
  PROVE  v \in Snapshots(k) =>
           /\ v = [order |-> v.order, member |-> v.member, groups |-> v.groups, kept |-> v.kept]
           /\ v.order \in Seq(RowsOf(k)) /\ Unique(v.order)
           /\ v.member \in [RowsOf(k) -> Sections]
           /\ v.groups \in Seq(Groups) /\ Unique(v.groups) /\ v.kept \subseteq Sections
           /\ \A t \in RowsOf(k) : v.member[t] \in ToSet(v.groups) \cup {Ungrouped}
<1> SUFFICES ASSUME v \in Snapshots(k)
             PROVE  /\ v = [order |-> v.order, member |-> v.member, groups |-> v.groups, kept |-> v.kept]
           /\ v.order \in Seq(RowsOf(k)) /\ Unique(v.order)
           /\ v.member \in [RowsOf(k) -> Sections]
           /\ v.groups \in Seq(Groups) /\ Unique(v.groups) /\ v.kept \subseteq Sections
           /\ \A t \in RowsOf(k) : v.member[t] \in ToSet(v.groups) \cup {Ungrouped}
  OBVIOUS
<1>1. v \in [order : Seq(RowsOf(k)), member : [RowsOf(k) -> Sections],
             groups : Seq(Groups), kept : SUBSET Sections]
  BY DEF Snapshots
<1>2. QED
  BY <1>1 DEF Snapshots

LEMMA MakesSnapshot ==
  ASSUME NEW k, NEW order \in Seq(RowsOf(k)), Unique(order),
         NEW gs \in Seq(Groups), Unique(gs), NEW member, DOMAIN member = RowsOf(k),
         member = [t \in RowsOf(k) |-> member[t]],
         \A t \in RowsOf(k) : member[t] \in ToSet(gs) \cup {Ungrouped},
         NEW ks, ks \subseteq Sections
  PROVE  [order |-> order, member |-> member, groups |-> gs, kept |-> ks] \in Snapshots(k)
<1>1. ToSet(gs) \subseteq Groups
  BY DEF ToSet
<1>2. member \in [RowsOf(k) -> Sections]
  BY <1>1 DEF Sections
<1>3. QED
  BY <1>2 DEF Snapshots

LEMMA OpIs ==
  ASSUME NEW k \in Trees, NEW next
  PROVE  LET o == Op(k, next)
         IN  DOMAIN o = OpFields /\ o.tree = k /\ o.next = next /\ o.list = <<>>
BY DEF Op, OpFields

(* A gesture that asks for nothing of a list. *)
LEMMA OpGood ==
  ASSUME NEW k \in Trees, NEW next, next \notin {"update", "reorder", "groups"}, NEW ids, NEW to
  PROVE  /\ GoodOp(Op(k, next))
         /\ GoodOp([Op(k, next) EXCEPT !.to = to])
         /\ GoodOp([Op(k, next) EXCEPT !.ids = ids, !.to = to])
<1> DEFINE o == Op(k, next)
           p == [o EXCEPT !.to = to]
           i == [o EXCEPT !.ids = ids]
           q == [i EXCEPT !.to = to]
<1>1. DOMAIN o = OpFields /\ o.tree = k /\ o.next = next /\ o.list = <<>>
  BY OpIs
<1>2. Unique(<<>>)
  BY DEF Unique
<1> HIDE DEF o
<1>3. DOMAIN p = OpFields /\ p.tree = k /\ p.next = next /\ p.list = <<>>
  BY <1>1 DEF OpFields
<1>4. DOMAIN i = OpFields /\ i.tree = k /\ i.next = next /\ i.list = <<>>
  BY <1>1 DEF OpFields
<1> HIDE DEF p, i
<1>5. DOMAIN q = OpFields /\ q.tree = k /\ q.next = next /\ q.list = <<>>
  BY <1>4 DEF OpFields
<1> HIDE DEF q
<1>6. GoodOp(o) /\ GoodOp(p) /\ GoodOp(q)
  BY <1>1, <1>2, <1>3, <1>5 DEF GoodOp
<1>7. QED
  BY <1>6 DEF o, p, i, q

(* What a served request goes on to keeps its tree and its list. *)
LEMMA OpMoves ==
  ASSUME NEW o, GoodOp(o), NEW x, NEW b, NEW S
  PROVE  /\ GoodOp([o EXCEPT !.clean = b]) /\ [o EXCEPT !.clean = b].next = o.next
         /\ [o EXCEPT !.clean = b].tree = o.tree
         /\ GoodOp([o EXCEPT !.ids = S]) /\ [o EXCEPT !.ids = S].next = o.next
         /\ [o EXCEPT !.ids = S].tree = o.tree
         /\ [o EXCEPT !.next = x].next = x /\ [o EXCEPT !.next = x].tree = o.tree
         /\ x \in {"landed", "announce", "saved"} => GoodOp([o EXCEPT !.next = x])
         /\ x = "reorder" /\ o.next = "update" => GoodOp([o EXCEPT !.next = x])
         /\ x \in {"assign"} => /\ GoodOp([o EXCEPT !.next = x, !.ids = S])
                                /\ [o EXCEPT !.next = x, !.ids = S].next = x
                                /\ [o EXCEPT !.next = x, !.ids = S].tree = o.tree
<1> DEFINE c == [o EXCEPT !.clean = b]
           i == [o EXCEPT !.ids = S]
           n == [o EXCEPT !.next = x]
           a == [n EXCEPT !.ids = S]
<1>1. DOMAIN o = OpFields
  BY DEF GoodOp
<1>2. DOMAIN c = OpFields /\ c.tree = o.tree /\ c.next = o.next /\ c.list = o.list
  BY <1>1 DEF OpFields
<1>3. DOMAIN i = OpFields /\ i.tree = o.tree /\ i.next = o.next /\ i.list = o.list
  BY <1>1 DEF OpFields
<1>4. DOMAIN n = OpFields /\ n.tree = o.tree /\ n.next = x /\ n.list = o.list
  BY <1>1 DEF OpFields
<1> HIDE DEF c, i, n
<1>5. DOMAIN a = OpFields /\ a.tree = o.tree /\ a.next = x /\ a.list = o.list
  BY <1>4 DEF OpFields
<1> HIDE DEF a
<1>6. GoodOp(c) /\ GoodOp(i)
  BY <1>2, <1>3 DEF GoodOp
<1>7. /\ x \in {"landed", "announce", "saved"} => GoodOp(n)
      /\ x = "reorder" /\ o.next = "update" => GoodOp(n)
      /\ x = "assign" => GoodOp(a)
  BY <1>4, <1>5 DEF GoodOp
<1>8. QED
  BY <1>2, <1>3, <1>4, <1>5, <1>6, <1>7 DEF c, i, n, a

LEMMA PlaceIs ==
  ASSUME NEW T, NEW seq \in Seq(T), NEW x \in ToSet(seq)
  PROVE  Place(seq, x) \in 1 .. Len(seq)
<1>1. \E i \in DOMAIN seq : seq[i] = x
  BY DEF ToSet
<1>2. Place(seq, x) \in DOMAIN seq
  BY <1>1 DEF Place
<1>3. QED
  BY <1>2

LEMMA RowsInIs ==
  ASSUME NEW k, NEW v \in Snapshots(k), NEW s
  PROVE  /\ RowsIn(v, s) \in Seq(RowsOf(k))
         /\ ToSet(RowsIn(v, s)) = {t \in ToSet(v.order) : GroupOf(v, t) = s}
<1> DEFINE S == {t \in ToSet(v.order) : GroupOf(v, t) = s}
           r == Only(v.order, S)
<1>1. v.order \in Seq(RowsOf(k))
  BY SnapshotsAre
<1>2. r \in Seq(RowsOf(k) \cap S) /\ ToSet(r) = ToSet(v.order) \cap S
  <2> HIDE DEF S
  <2>1. QED
    BY <1>1, OnlyIs
<1>3. RowsIn(v, s) = r
  BY DEF RowsIn
<1> HIDE DEF r
<1>4. r \in Seq(RowsOf(k))
  BY <1>2
<1>5. QED
  BY <1>2, <1>3, <1>4

-----------------------------------------------------------------------------
(* Lists filtered, joined and cut in two: what stays is in the order it was *)
(* in, on the same side of the cut.                                        *)

(* The function that Only unfolds. *)
LEMMA OnlyUnfolds ==
  ASSUME NEW T, NEW seq \in Seq(T), NEW S
  PROVE  \E C : /\ C \in [0 .. Len(seq) -> Seq(T)] /\ C[0] = <<>> /\ Only(seq, S) = C[Len(seq)]
                /\ \A n \in 1 .. Len(seq) :
                     C[n] = IF seq[n] \in S THEN Append(C[n - 1], seq[n]) ELSE C[n - 1]
<1> DEFINE L == Len(seq)
           V == Seq(T)
           step == [p \in (1 .. L) \X V |->
                      IF seq[p[1]] \in S THEN Append(p[2], seq[p[1]]) ELSE p[2]]
<1>1. L \in Nat /\ <<>> \in V
  OBVIOUS
<1>2. step \in [(1 .. L) \X V -> V]
  <2>1. ASSUME NEW p \in (1 .. L) \X V
        PROVE  (IF seq[p[1]] \in S THEN Append(p[2], seq[p[1]]) ELSE p[2]) \in V
    OBVIOUS
  <2>2. QED
    BY <2>1
<1>3. PICK g : Unfolds(g, L, V, <<>>, step)
  <2> HIDE DEF L, V, step
  <2>1. QED
    BY <1>1, <1>2, RecursionExists
<1>0. g \in [0 .. L -> V] /\ g[0] = <<>> /\ \A n \in 1 .. L : g[n] = step[<<n, g[n - 1]>>]
  BY <1>3 DEF Unfolds
<1>4. ASSUME NEW n \in 1 .. L
      PROVE  g[n] = IF seq[n] \in S THEN Append(g[n - 1], seq[n]) ELSE g[n - 1]
  <2>1. n - 1 \in 0 .. L
    OBVIOUS
  <2>2. <<n, g[n - 1]>> \in (1 .. L) \X V
    BY <1>0, <2>1
  <2>3. QED
    BY <1>0, <2>2
<1> DEFINE Eq(f) == f = [n \in 0 .. Len(seq) |->
                           IF n = 0 THEN <<>>
                           ELSE IF seq[n] \in S THEN Append(f[n - 1], seq[n]) ELSE f[n - 1]]
           C == CHOOSE f : Eq(f)
           Unfolded(f) == /\ DOMAIN f = 0 .. L /\ f[0] = <<>>
                          /\ \A n \in 1 .. L : f[n] = IF seq[n] \in S THEN Append(f[n - 1], seq[n]) ELSE f[n - 1]
<1>5. Eq(g)
  <2> DEFINE B(n) == IF n = 0 THEN <<>>
                     ELSE IF seq[n] \in S THEN Append(g[n - 1], seq[n]) ELSE g[n - 1]
  <2>1. ASSUME NEW n \in 0 .. L PROVE g[n] = B(n)
    <3>1. CASE n = 0
      BY <1>0, <3>1
    <3>2. CASE n # 0
      <4>1. n \in 1 .. L
        BY <3>2
      <4>2. QED
        BY <1>4, <3>2, <4>1
    <3>3. QED
      BY <3>1, <3>2
  <2> HIDE DEF B
  <2>2. g = [n \in 0 .. L |-> B(n)]
    BY <1>0, <2>1
  <2>3. QED
    BY <2>2 DEF B
<1>6. Eq(C)
  <2> HIDE DEF Eq
  <2>1. \E f : Eq(f)
    BY <1>5
  <2>2. QED
    BY <2>1 DEF C
<1>7. Only(seq, S) = C[Len(seq)]
  BY DEF Only
<1> HIDE DEF C
<1>8. Unfolded(C)
  <2>1. DOMAIN C = 0 .. L /\ C[0] = <<>>
    BY <1>6
  <2>2. ASSUME NEW n \in 1 .. L
        PROVE  C[n] = IF seq[n] \in S THEN Append(C[n - 1], seq[n]) ELSE C[n - 1]
    <3>1. n \in 0 .. Len(seq) /\ n # 0
      OBVIOUS
    <3>2. QED
      BY <1>6, <3>1
  <2>3. QED
    BY <2>1, <2>2
<1> DEFINE U == {n \in Nat : n <= L => C[n] \in V}
<1>9. 0 \in U /\ \A n \in Nat : n \in U => n + 1 \in U
  <2>1. 0 \in U
    BY <1>1, <1>8
  <2>2. ASSUME NEW n \in Nat, n \in U PROVE n + 1 \in U
    <3>1. CASE n + 1 <= L
      <4>1. n + 1 \in 1 .. L /\ (n + 1) - 1 = n /\ C[n] \in V /\ seq[n + 1] \in T
        BY <1>1, <2>2, <3>1
      <4>2. C[n + 1] = IF seq[n + 1] \in S THEN Append(C[n], seq[n + 1]) ELSE C[n]
        BY <1>8, <4>1
      <4>3. C[n + 1] \in V
        BY <4>1, <4>2
      <4>4. QED
        BY <2>2, <4>3
    <3>2. QED
      BY <2>2, <3>1
  <2>3. QED
    BY <2>1, <2>2
<1>10. Nat \subseteq U
  <2> HIDE DEF U
  <2>1. QED
    BY <1>9, NatBySteps
<1>11. \A n \in 0 .. L : C[n] \in V
  BY <1>1, <1>10
<1>12. C \in [0 .. L -> V]
  <2> HIDE DEF L, V
  <2>1. C = [n \in 0 .. L |-> C[n]]
    <3>1. C = [n \in 0 .. Len(seq) |-> IF n = 0 THEN <<>>
                           ELSE IF seq[n] \in S THEN Append(C[n - 1], seq[n]) ELSE C[n - 1]]
      BY <1>6
    <3>2. QED
      BY <3>1 DEF L
  <2>2. QED
    BY <1>11, <2>1
<1>13. QED
  BY <1>7, <1>8, <1>12

LEMMA OnlyEmpty == ASSUME NEW S PROVE Only(<<>>, S) = <<>>
<1>1. ASSUME NEW T, NEW e \in Seq(T), e = <<>> PROVE Only(e, S) = <<>>
  <2>1. PICK C : /\ C \in [0 .. Len(e) -> Seq(T)] /\ C[0] = <<>> /\ Only(e, S) = C[Len(e)]
                 /\ \A n \in 1 .. Len(e) :
                      C[n] = IF e[n] \in S THEN Append(C[n - 1], e[n]) ELSE C[n - 1]
    BY OnlyUnfolds
  <2>2. Len(e) = 0
    BY <1>1
  <2>3. QED
    BY <2>1, <2>2
<1>2. <<>> \in Seq({})
  OBVIOUS
<1>3. QED
  BY <1>1, <1>2

(* filter() of a list and one more element. *)
LEMMA OnlyAppend ==
  ASSUME NEW T, NEW a \in Seq(T), NEW x \in T, NEW S
  PROVE  Only(Append(a, x), S) = IF x \in S THEN Append(Only(a, S), x) ELSE Only(a, S)
<1> DEFINE b == Append(a, x)
           L == Len(a)
<1>1. b \in Seq(T) /\ Len(b) = L + 1 /\ b[L + 1] = x /\ (\A i \in 1 .. L : b[i] = a[i]) /\ L \in Nat
  OBVIOUS
<1>2. PICK C : /\ C[0] = <<>> /\ Only(a, S) = C[Len(a)]
               /\ \A n \in 1 .. Len(a) : C[n] = IF a[n] \in S THEN Append(C[n - 1], a[n]) ELSE C[n - 1]
  <2> HIDE DEF b, L
  <2>1. QED
    BY OnlyUnfolds
<1>3. PICK D : /\ D[0] = <<>> /\ Only(b, S) = D[Len(b)]
               /\ \A n \in 1 .. Len(b) : D[n] = IF b[n] \in S THEN Append(D[n - 1], b[n]) ELSE D[n - 1]
  <2> HIDE DEF b, L
  <2>1. QED
    BY <1>1, OnlyUnfolds
<1> HIDE DEF b
<1> DEFINE U == {n \in Nat : n <= L => D[n] = C[n]}
<1>4. 0 \in U /\ \A n \in Nat : n \in U => n + 1 \in U
  <2>1. 0 \in U
    BY <1>2, <1>3
  <2>2. ASSUME NEW n \in Nat, n \in U, n + 1 <= L PROVE D[n + 1] = C[n + 1]
    <3>1. n + 1 \in 1 .. L /\ n + 1 \in 1 .. Len(b) /\ (n + 1) - 1 = n /\ D[n] = C[n] /\ b[n + 1] = a[n + 1]
      BY <1>1, <2>2
    <3>2. C[n + 1] = IF a[n + 1] \in S THEN Append(C[n], a[n + 1]) ELSE C[n]
      BY <1>2, <3>1
    <3>3. D[n + 1] = IF b[n + 1] \in S THEN Append(D[n], b[n + 1]) ELSE D[n]
      BY <1>3, <3>1
    <3>4. QED
      BY <3>1, <3>2, <3>3
  <2>3. QED
    BY <2>1, <2>2
<1>5. L \in U
  <2>1. Nat \subseteq U
    <3> HIDE DEF U
    <3>1. QED
      BY <1>4, NatBySteps
  <2>2. QED
    BY <1>1, <2>1
<1>6. D[L] = C[L] /\ L + 1 \in 1 .. Len(b) /\ (L + 1) - 1 = L
  BY <1>1, <1>5
<1>7. D[L + 1] = IF x \in S THEN Append(D[L], x) ELSE D[L]
  BY <1>1, <1>3, <1>6
<1>8. QED
  BY <1>1, <1>2, <1>3, <1>6, <1>7 DEF b

(* filter() of two lists joined is the two filtered and joined. *)
LEMMA OnlyConcat ==
  ASSUME NEW T, NEW a \in Seq(T), NEW b \in Seq(T), NEW S
  PROVE  Only(a \o b, S) = Only(a, S) \o Only(b, S)
<1> DEFINE Joined(c) == Only(a \o c, S) = Only(a, S) \o Only(c, S)
           U == {n \in Nat : \A c \in Seq(T) : Len(c) = n => Joined(c)}
<1>0. \A c \in Seq(T) : Only(c, S) \in Seq(T)
  <2>1. ASSUME NEW c \in Seq(T) PROVE Only(c, S) \in Seq(T)
    <3>1. Only(c, S) \in Seq(T \cap S)
      BY OnlyIs
    <3>2. QED
      BY <3>1
  <2>2. QED
    BY <2>1
<1>1. 0 \in U
  <2>1. ASSUME NEW c \in Seq(T), Len(c) = 0 PROVE Joined(c)
    <3>1. c = <<>> /\ a \o c = a
      BY <2>1
    <3>2. Only(c, S) = <<>>
      BY <3>1, OnlyEmpty
    <3>3. Only(a, S) \o <<>> = Only(a, S)
      BY <1>0
    <3>4. QED
      BY <3>1, <3>2, <3>3
  <2>2. QED
    BY <2>1
<1>2. ASSUME NEW n \in Nat, n \in U PROVE n + 1 \in U
  <2>1. ASSUME NEW c \in Seq(T), Len(c) = n + 1 PROVE Joined(c)
    <3> DEFINE d == SubSeq(c, 1, n)
               x == c[n + 1]
    <3>1. d \in Seq(T) /\ x \in T /\ Len(d) = n /\ c = Append(d, x)
      BY <2>1
    <3> HIDE DEF d, x
    <3>2. a \o c = Append(a \o d, x) /\ a \o d \in Seq(T)
      BY <3>1
    <3>3. Joined(d)
      BY <1>2, <3>1
    <3>4. Only(a \o c, S) = IF x \in S THEN Append(Only(a \o d, S), x) ELSE Only(a \o d, S)
      <4> DEFINE e == a \o d
      <4>1. e \in Seq(T) /\ a \o c = Append(e, x)
        BY <3>2
      <4> HIDE DEF e
      <4>2. Only(Append(e, x), S) = IF x \in S THEN Append(Only(e, S), x) ELSE Only(e, S)
        BY <3>1, <4>1, OnlyAppend
      <4>3. QED
        BY <4>1, <4>2 DEF e
    <3>5. Only(c, S) = IF x \in S THEN Append(Only(d, S), x) ELSE Only(d, S)
      BY <3>1, OnlyAppend
    <3>6. Only(a, S) \in Seq(T) /\ Only(d, S) \in Seq(T)
      BY <1>0, <3>1
    <3>7. Only(a, S) \o Append(Only(d, S), x) = Append(Only(a, S) \o Only(d, S), x)
      BY <3>1, <3>6
    <3>8. QED
      BY <3>3, <3>4, <3>5, <3>7
  <2>2. QED
    BY <2>1
<1> HIDE DEF U
<1>3. Nat \subseteq U
  BY <1>1, <1>2, NatBySteps
<1>4. Len(b) \in U
  BY <1>3
<1>5. QED
  BY <1>4 DEF U

(* Induction along lists. *)
LEMMA ListsBySteps ==
  ASSUME NEW T, NEW P, <<>> \in P, \A c \in Seq(T), x \in T : c \in P => Append(c, x) \in P
  PROVE  Seq(T) \subseteq P
<1> DEFINE U == {n \in Nat : \A c \in Seq(T) : Len(c) = n => c \in P}
<1>1. 0 \in U
  <2>1. \A c \in Seq(T) : Len(c) = 0 => c = <<>>
    OBVIOUS
  <2>2. QED
    BY <2>1
<1>2. ASSUME NEW n \in Nat, n \in U PROVE n + 1 \in U
  <2>1. ASSUME NEW c \in Seq(T), Len(c) = n + 1 PROVE c \in P
    <3> DEFINE d == SubSeq(c, 1, n)
               x == c[n + 1]
    <3>1. d \in Seq(T) /\ x \in T /\ Len(d) = n /\ c = Append(d, x)
      BY <2>1
    <3> HIDE DEF d, x
    <3>2. d \in P
      BY <1>2, <3>1
    <3>3. QED
      BY <3>1, <3>2
  <2>2. QED
    BY <2>1
<1> HIDE DEF U
<1>3. Nat \subseteq U
  BY <1>1, <1>2, NatBySteps
<1>4. ASSUME NEW c \in Seq(T) PROVE c \in P
  <2>1. Len(c) \in U
    BY <1>3
  <2>2. QED
    BY <2>1 DEF U
<1>5. QED
  BY <1>4

(* Only what is there matters. *)
LEMMA OnlySame ==
  ASSUME NEW T, NEW a \in Seq(T), NEW S, NEW R, ToSet(a) \cap S = ToSet(a) \cap R
  PROVE  Only(a, S) = Only(a, R)
<1> DEFINE Q(c) == ToSet(c) \cap S = ToSet(c) \cap R => Only(c, S) = Only(c, R)
           P == {c \in Seq(T) : Q(c)}
<1>1. <<>> \in P
  <2>1. <<>> \in Seq(T) /\ \A W : Only(<<>>, W) = <<>>
    BY OnlyEmpty
  <2>2. QED
    BY <2>1
<1>2. ASSUME NEW c \in Seq(T), NEW x \in T, c \in P PROVE Append(c, x) \in P
  <2> DEFINE d == Append(c, x)
  <2>1. d \in Seq(T) /\ ToSet(d) = ToSet(c) \cup {x}
    BY AppendIs
  <2>2. \A W : Only(d, W) = IF x \in W THEN Append(Only(c, W), x) ELSE Only(c, W)
    BY OnlyAppend
  <2> HIDE DEF d
  <2>3. Q(c)
    BY <1>2
  <2>6. Q(d)
    BY <2>1, <2>2, <2>3
  <2>8. d \in P
    BY <2>1, <2>6
  <2>9. QED
    BY <2>8 DEF d
<1> HIDE DEF P
<1>3. Seq(T) \subseteq P
  BY <1>1, <1>2, ListsBySteps
<1>4. QED
  BY <1>3 DEF P

(* Keeping everything, and keeping nothing. *)
LEMMA OnlyAll ==
  ASSUME NEW T, NEW a \in Seq(T), NEW S, ToSet(a) \subseteq S
  PROVE  Only(a, S) = a
<1> DEFINE Q(c) == ToSet(c) \subseteq S => Only(c, S) = c
           P == {c \in Seq(T) : Q(c)}
<1>1. <<>> \in P
  <2>1. <<>> \in Seq(T) /\ \A W : Only(<<>>, W) = <<>>
    BY OnlyEmpty
  <2>2. QED
    BY <2>1
<1>2. ASSUME NEW c \in Seq(T), NEW x \in T, c \in P PROVE Append(c, x) \in P
  <2> DEFINE d == Append(c, x)
  <2>1. d \in Seq(T) /\ ToSet(d) = ToSet(c) \cup {x}
    BY AppendIs
  <2>2. \A W : Only(d, W) = IF x \in W THEN Append(Only(c, W), x) ELSE Only(c, W)
    BY OnlyAppend
  <2> HIDE DEF d
  <2>3. Q(c)
    BY <1>2
  <2>6. Q(d)
    BY <2>1, <2>2, <2>3 DEF d
  <2>8. d \in P
    BY <2>1, <2>6
  <2>9. QED
    BY <2>8 DEF d
<1> HIDE DEF P
<1>3. Seq(T) \subseteq P
  BY <1>1, <1>2, ListsBySteps
<1>4. QED
  BY <1>3 DEF P

LEMMA OnlyNone ==
  ASSUME NEW T, NEW a \in Seq(T), NEW S, ToSet(a) \cap S = {}
  PROVE  Only(a, S) = <<>>
<1> DEFINE Q(c) == ToSet(c) \cap S = {} => Only(c, S) = <<>>
           P == {c \in Seq(T) : Q(c)}
<1>1. <<>> \in P
  <2>1. <<>> \in Seq(T) /\ \A W : Only(<<>>, W) = <<>>
    BY OnlyEmpty
  <2>2. QED
    BY <2>1
<1>2. ASSUME NEW c \in Seq(T), NEW x \in T, c \in P PROVE Append(c, x) \in P
  <2> DEFINE d == Append(c, x)
  <2>1. d \in Seq(T) /\ ToSet(d) = ToSet(c) \cup {x}
    BY AppendIs
  <2>2. \A W : Only(d, W) = IF x \in W THEN Append(Only(c, W), x) ELSE Only(c, W)
    BY OnlyAppend
  <2> HIDE DEF d
  <2>3. Q(c)
    BY <1>2
  <2>6. Q(d)
    BY <2>1, <2>2, <2>3
  <2>8. d \in P
    BY <2>1, <2>6
  <2>9. QED
    BY <2>8 DEF d
<1> HIDE DEF P
<1>3. Seq(T) \subseteq P
  BY <1>1, <1>2, ListsBySteps
<1>4. QED
  BY <1>3 DEF P

(* Filtering again. *)
LEMMA OnlyTwice ==
  ASSUME NEW T, NEW a \in Seq(T), NEW S, NEW R
  PROVE  Only(Only(a, S), R) = Only(a, S \cap R)
<1> DEFINE Q(c) == Only(Only(c, S), R) = Only(c, S \cap R)
           P == {c \in Seq(T) : Q(c)}
<1>1. <<>> \in P
  <2>1. <<>> \in Seq(T) /\ \A W : Only(<<>>, W) = <<>>
    BY OnlyEmpty
  <2>2. QED
    BY <2>1
<1>2. ASSUME NEW c \in Seq(T), NEW x \in T, c \in P PROVE Append(c, x) \in P
  <2> DEFINE d == Append(c, x)
  <2>1. d \in Seq(T) /\ ToSet(d) = ToSet(c) \cup {x}
    BY AppendIs
  <2>2. \A W : Only(d, W) = IF x \in W THEN Append(Only(c, W), x) ELSE Only(c, W)
    BY OnlyAppend
  <2> HIDE DEF d
  <2>3. Q(c)
    BY <1>2
  <2>4. Only(c, S) \in Seq(T)
    <3>1. Only(c, S) \in Seq(T \cap S)
      BY OnlyIs
    <3>2. QED
      BY <3>1
  <2>5. Only(Append(Only(c, S), x), R) = IF x \in R THEN Append(Only(Only(c, S), R), x) ELSE Only(Only(c, S), R)
    BY <2>4, OnlyAppend
  <2>6. Q(d)
    BY <2>2, <2>3, <2>5
  <2>8. d \in P
    BY <2>1, <2>6
  <2>9. QED
    BY <2>8 DEF d
<1> HIDE DEF P
<1>3. Seq(T) \subseteq P
  BY <1>1, <1>2, ListsBySteps
<1>4. QED
  BY <1>3 DEF P

(* The rows of a list as the elements of section s. *)
Tag(s, c) == [i \in DOMAIN c |-> [section |-> s, row |-> c[i]]]
Untag(c) == [i \in DOMAIN c |-> c[i].row]

LEMMA TagType ==
  ASSUME NEW T, NEW c \in Seq(T), NEW s
  PROVE  /\ Tag(s, c) \in Seq([section : {s}, row : T]) /\ Len(Tag(s, c)) = Len(c)
         /\ \A i \in 1 .. Len(c) : Tag(s, c)[i] = [section |-> s, row |-> c[i]]
<1> DEFINE E == [section : {s}, row : T]
<1>1. c \in [1 .. Len(c) -> T] /\ Len(c) \in Nat /\ DOMAIN c = 1 .. Len(c)
  OBVIOUS
<1>2. Tag(s, c) \in [1 .. Len(c) -> E]
  BY <1>1 DEF Tag
<1>3. QED
  BY <1>1, <1>2 DEF Tag

LEMMA TagMembers ==
  ASSUME NEW T, NEW a \in Seq(T), NEW s
  PROVE  /\ Untag(Tag(s, a)) = a
         /\ ToSet(Tag(s, a)) = {[section |-> s, row |-> t] : t \in ToSet(a)}
<1>1. Untag(Tag(s, a)) = a
  BY DEF Untag, Tag
<1>2. ToSet(Tag(s, a)) = {[section |-> s, row |-> t] : t \in ToSet(a)}
  BY DEF ToSet, Tag
<1>3. QED
  BY <1>1, <1>2

LEMMA TagAppend ==
  ASSUME NEW T, NEW a \in Seq(T), NEW s, NEW x \in T
  PROVE  Tag(s, Append(a, x)) = Append(Tag(s, a), [section |-> s, row |-> x])
<1> DEFINE E == [section : {s}, row : T]
<1>0. ASSUME NEW c \in Seq(T)
      PROVE  /\ Tag(s, c) \in Seq(E) /\ Len(Tag(s, c)) = Len(c)
             /\ \A i \in 1 .. Len(c) : Tag(s, c)[i] = [section |-> s, row |-> c[i]]
  BY TagType, ZenonT(30)
<1> DEFINE d == Append(a, x)
           e == [section |-> s, row |-> x]
           g == Append(Tag(s, a), e)
<1>1. d \in Seq(T) /\ Len(d) = Len(a) + 1 /\ d[Len(a) + 1] = x /\ (\A i \in 1 .. Len(a) : d[i] = a[i])
  OBVIOUS
<1>2. e \in E
  OBVIOUS
<1>3. Tag(s, a) \in Seq(E) /\ Len(Tag(s, a)) = Len(a)
  BY <1>0
<1> HIDE DEF E
<1>4. g \in Seq(E) /\ Len(g) = Len(a) + 1 /\ g[Len(a) + 1] = e
      /\ (\A i \in 1 .. Len(a) : g[i] = Tag(s, a)[i])
  BY <1>2, <1>3
<1> HIDE DEF d, g
<1>5. Tag(s, d) \in Seq(E) /\ Len(Tag(s, d)) = Len(a) + 1
      /\ \A i \in 1 .. Len(d) : Tag(s, d)[i] = [section |-> s, row |-> d[i]]
  BY <1>0, <1>1
<1>6. \A i \in 1 .. Len(d) : Tag(s, d)[i] = g[i]
  <3>1. ASSUME NEW i \in 1 .. Len(d) PROVE Tag(s, d)[i] = g[i]
    <4>1. i = Len(a) + 1 \/ i \in 1 .. Len(a)
      BY <1>1
    <4>2. QED
      BY <1>0, <1>1, <1>4, <1>5, <4>1
  <3>2. QED
    BY <3>1
<1>7. Tag(s, d) = g
  BY <1>1, <1>4, <1>5, <1>6, SeqEqual
<1>8. QED
  BY <1>7 DEF d, g

LEMMA TagConcat ==
  ASSUME NEW T, NEW a \in Seq(T), NEW b \in Seq(T), NEW s
  PROVE  Tag(s, a \o b) = Tag(s, a) \o Tag(s, b)
<1> DEFINE E == [section : {s}, row : T]
<1>0. ASSUME NEW c \in Seq(T)
      PROVE  /\ Tag(s, c) \in Seq(E) /\ Len(Tag(s, c)) = Len(c)
             /\ \A i \in 1 .. Len(c) : Tag(s, c)[i] = [section |-> s, row |-> c[i]]
  BY TagType, ZenonT(30)
<1> DEFINE d == a \o b
           ta == Tag(s, a)
           tb == Tag(s, b)
           g == ta \o tb
           L == Len(a)
           M == Len(b)
<1>1. /\ d \in Seq(T) /\ Len(d) = L + M /\ L \in Nat /\ M \in Nat
      /\ \A i \in 1 .. L : d[i] = a[i]
      /\ \A i \in L + 1 .. L + M : d[i] = b[i - L]
  OBVIOUS
<1>2. /\ ta \in Seq(E) /\ Len(ta) = L /\ tb \in Seq(E) /\ Len(tb) = M
      /\ \A i \in 1 .. L : ta[i] = [section |-> s, row |-> a[i]]
      /\ \A i \in 1 .. M : tb[i] = [section |-> s, row |-> b[i]]
  BY <1>0
<1> HIDE DEF E, ta, tb
<1>3. /\ g \in Seq(E) /\ Len(g) = L + M
      /\ \A i \in 1 .. L : g[i] = ta[i]
      /\ \A i \in L + 1 .. L + M : g[i] = tb[i - L]
  <2> HIDE DEF L, M
  <2>1. Len(g) = Len(ta) + Len(tb) /\ g \in Seq(E)
    BY <1>2, ConcatProperties
  <2>2. \A i \in 1 .. Len(ta) + Len(tb) : g[i] = IF i <= Len(ta) THEN ta[i] ELSE tb[i - Len(ta)]
    BY <1>2, ConcatProperties
  <2>3. QED
    BY <1>1, <1>2, <2>1, <2>2
<1> HIDE DEF d, g
<1>4. Tag(s, d) \in Seq(E) /\ Len(Tag(s, d)) = L + M
      /\ \A i \in 1 .. Len(d) : Tag(s, d)[i] = [section |-> s, row |-> d[i]]
  BY <1>0, <1>1
<1> HIDE DEF L, M
<1>5. ASSUME NEW i \in 1 .. L + M PROVE Tag(s, d)[i] = g[i]
  <3>1. CASE i \in 1 .. L
    <4>1. Tag(s, d)[i] = [section |-> s, row |-> d[i]] /\ d[i] = a[i] /\ g[i] = ta[i]
      BY <1>1, <1>3, <1>4, <3>1
    <4>2. ta[i] = [section |-> s, row |-> a[i]]
      BY <1>2, <3>1
    <4>3. QED
      BY <4>1, <4>2
  <3>2. CASE i \notin 1 .. L
    <4>1. i \in L + 1 .. L + M /\ i - L \in 1 .. M
      BY <1>1, <3>2
    <4>2. Tag(s, d)[i] = [section |-> s, row |-> d[i]] /\ d[i] = b[i - L] /\ g[i] = tb[i - L]
      BY <1>1, <1>3, <1>4, <4>1
    <4>3. tb[i - L] = [section |-> s, row |-> b[i - L]]
      BY <1>2, <4>1
    <4>4. QED
      BY <4>2, <4>3
  <3>3. QED
    BY <3>1, <3>2
<1>6. Tag(s, d) = g
  BY <1>3, <1>4, <1>5, SeqEqual
<1>7. QED
  BY <1>6 DEF d, g, ta, tb

(* Filtering the elements of a section filters its rows. *)
LEMMA OnlyTag ==
  ASSUME NEW T, NEW a \in Seq(T), NEW s, NEW X, NEW R,
         \A t \in T : [section |-> s, row |-> t] \in X <=> t \in R
  PROVE  Only(Tag(s, a), X) = Tag(s, Only(a, R))
<1> DEFINE Q(c) == Only(Tag(s, c), X) = Tag(s, Only(c, R))
           P == {c \in Seq(T) : Q(c)}
           E == [section : {s}, row : T]
<1>1. <<>> \in P
  <2>1. Only(<<>>, R) = <<>> /\ Only(<<>>, X) = <<>>
    BY OnlyEmpty
  <2>2. Tag(s, <<>>) = <<>>
    BY DEF Tag
  <2>3. QED
    BY <2>1, <2>2
<1>2. ASSUME NEW c \in Seq(T), NEW x \in T, c \in P PROVE Append(c, x) \in P
  <2> DEFINE d == Append(c, x)
             e == [section |-> s, row |-> x]
  <2>1. d \in Seq(T) /\ Tag(s, d) = Append(Tag(s, c), e)
    BY TagAppend
  <2>2. Only(d, R) = IF x \in R THEN Append(Only(c, R), x) ELSE Only(c, R)
    BY OnlyAppend
  <2>3. Tag(s, c) \in Seq(E)
    BY TagType
  <2>4. e \in E /\ (e \in X <=> x \in R)
    OBVIOUS
  <2> HIDE DEF E, e, d
  <2>5. Only(Append(Tag(s, c), e), X) = IF e \in X THEN Append(Only(Tag(s, c), X), e) ELSE Only(Tag(s, c), X)
    BY <2>3, <2>4, OnlyAppend
  <2>6. Only(c, R) \in Seq(T)
    <3>1. Only(c, R) \in Seq(T \cap R)
      BY OnlyIs
    <3>2. QED
      BY <3>1
  <2>7. Tag(s, Append(Only(c, R), x)) = Append(Tag(s, Only(c, R)), e)
    BY <2>6, TagAppend DEF e
  <2>8. Q(c)
    BY <1>2
  <2>9. Q(d)
    BY <2>1, <2>2, <2>4, <2>5, <2>7, <2>8
  <2>10. QED
    BY <2>1, <2>9 DEF d
<1> HIDE DEF P
<1>3. Seq(T) \subseteq P
  BY <1>1, <1>2, ListsBySteps
<1>4. QED
  BY <1>3 DEF P

(* Two lists cut at the same element, which is nowhere else before it. *)
LEMMA SameCut ==
  ASSUME NEW T, NEW a \in Seq(T), NEW x \in Seq(T), NEW b \in Seq(T), NEW y \in Seq(T), NEW z \in T,
         z \notin ToSet(a), z \notin ToSet(b), a \o <<z>> \o x = b \o <<z>> \o y
  PROVE  a = b /\ x = y
<1> DEFINE c == a \o <<z>> \o x
           m == Len(a)
           n == Len(b)
           l == Len(x)
           o == Len(y)
<1>1. /\ m \in Nat /\ l \in Nat /\ Len(c) = m + 1 + l /\ c[m + 1] = z
      /\ \A i \in 1 .. m : c[i] = a[i]
      /\ \A i \in 1 .. l : c[m + 1 + i] = x[i]
  OBVIOUS
<1>2. /\ n \in Nat /\ o \in Nat /\ Len(c) = n + 1 + o /\ c[n + 1] = z
      /\ \A i \in 1 .. n : c[i] = b[i]
      /\ \A i \in 1 .. o : c[n + 1 + i] = y[i]
  <2> DEFINE g == b \o <<z>> \o y
  <2>1. /\ n \in Nat /\ o \in Nat /\ Len(g) = n + 1 + o /\ g[n + 1] = z
        /\ \A i \in 1 .. n : g[i] = b[i]
        /\ \A i \in 1 .. o : g[n + 1 + i] = y[i]
    OBVIOUS
  <2>2. g = c
    OBVIOUS
  <2> HIDE DEF g, c
  <2>3. QED
    BY <2>1, <2>2
<1> HIDE DEF c
<1>3. (\A i \in 1 .. m : a[i] # z) /\ (\A i \in 1 .. n : b[i] # z)
  BY DEF ToSet
<1> HIDE DEF m, n, l, o
<1>4. m = n
  <2>1. m + 1 \notin 1 .. n
    BY <1>1, <1>2, <1>3
  <2>2. n + 1 \notin 1 .. m
    BY <1>1, <1>2, <1>3
  <2>3. QED
    BY <1>1, <1>2, <2>1, <2>2
<1>5. l = o
  BY <1>1, <1>2, <1>4
<1>6. \A i \in 1 .. m : a[i] = b[i]
  BY <1>1, <1>2, <1>4
<1>7. \A i \in 1 .. l : x[i] = y[i]
  BY <1>1, <1>2, <1>4, <1>5
<1>8. QED
  BY <1>4, <1>5, <1>6, <1>7, SeqEqual DEF m, n, l, o

(* The function that FlattenSeq unfolds. *)
LEMMA FlattenUnfolds ==
  ASSUME NEW T, NEW ss \in Seq(Seq(T)), Len(ss) # 0
  PROVE  \E F : /\ F[1] = ss[1] /\ FlattenSeq(ss) = F[Len(ss)]
                /\ \A n \in 1 .. Len(ss) : n # 1 => F[n] = F[n - 1] \o ss[n]
<1> DEFINE L == Len(ss)
           K == L - 1
           V == Seq(T)
           step == [p \in (1 .. K) \X V |-> p[2] \o ss[p[1] + 1]]
           init == ss[1]
<1>1. L \in Nat /\ L # 0 /\ K \in Nat /\ L = K + 1 /\ \A n \in 1 .. L : ss[n] \in V
  OBVIOUS
<1>2. step \in [(1 .. K) \X V -> V] /\ init \in V
  <2>1. ASSUME NEW p \in (1 .. K) \X V PROVE (p[2] \o ss[p[1] + 1]) \in V
    <3>1. p[1] + 1 \in 1 .. L /\ p[2] \in V
      BY <1>1
    <3>2. QED
      BY <1>1, <3>1
  <2>2. QED
    BY <1>1, <2>1
<1>3. PICK g : Unfolds(g, K, V, init, step)
  <2> HIDE DEF K, V, step, init
  <2>1. QED
    BY <1>1, <1>2, RecursionExists
<1>4. g \in [0 .. K -> V] /\ g[0] = init /\ \A n \in 1 .. K : g[n] = step[<<n, g[n - 1]>>]
  BY <1>3 DEF Unfolds
<1>5. ASSUME NEW n \in 1 .. K PROVE g[n] = g[n - 1] \o ss[n + 1]
  <2>1. n - 1 \in 0 .. K
    BY <1>1
  <2>2. <<n, g[n - 1]>> \in (1 .. K) \X V
    BY <1>4, <2>1
  <2>3. QED
    BY <1>4, <2>2
<1> DEFINE Eq(f) == f = [i \in 1 .. Len(ss) |-> IF i = 1 THEN ss[i] ELSE f[i - 1] \o ss[i]]
           C == CHOOSE f : Eq(f)
           h == [i \in 1 .. L |-> g[i - 1]]
<1>6. Eq(h)
  <2> DEFINE B(n) == IF n = 1 THEN ss[n] ELSE h[n - 1] \o ss[n]
  <2>1. ASSUME NEW n \in 1 .. L PROVE h[n] = B(n)
    <3>1. CASE n = 1
      BY <1>4, <3>1
    <3>2. CASE n # 1
      <4>1. n - 1 \in 1 .. K /\ (n - 1) + 1 = n /\ n - 1 \in 1 .. L
        BY <1>1, <3>2
      <4>2. g[n - 1] = g[(n - 1) - 1] \o ss[n]
        BY <1>5, <4>1
      <4>3. h[n] = g[n - 1] /\ h[n - 1] = g[(n - 1) - 1]
        BY <4>1
      <4>4. QED
        BY <3>2, <4>2, <4>3
    <3>3. QED
      BY <3>1, <3>2
  <2> HIDE DEF B
  <2>2. h = [n \in 1 .. L |-> B(n)]
    BY <2>1
  <2>3. QED
    BY <2>2 DEF B
<1>7. Eq(C)
  <2> HIDE DEF Eq
  <2>1. \E f : Eq(f)
    BY <1>6
  <2>2. QED
    BY <2>1 DEF C
<1>8. FlattenSeq(ss) = C[Len(ss)]
  BY DEF FlattenSeq
<1> HIDE DEF C
<1>9. C[1] = ss[1] /\ \A n \in 1 .. Len(ss) : n # 1 => C[n] = C[n - 1] \o ss[n]
  <2>1. C = [i \in 1 .. Len(ss) |-> IF i = 1 THEN ss[i] ELSE C[i - 1] \o ss[i]]
    BY <1>7
  <2>2. \A i \in 1 .. Len(ss) : C[i] = IF i = 1 THEN ss[i] ELSE C[i - 1] \o ss[i]
    BY <2>1
  <2>3. 1 \in 1 .. Len(ss)
    BY <1>1
  <2>4. QED
    BY <2>2, <2>3
<1>10. QED
  BY <1>8, <1>9

OnlyPart(ss, k, N) == \A j \in 1 .. Len(ss) : j # k => ToSet(ss[j]) \cap N = {}
StandsIn(part, seq, T, N) ==
  \E P, Q \in Seq(T) : seq = P \o part \o Q /\ ToSet(P) \cap N = {} /\ ToSet(Q) \cap N = {}

(* What is in the flattened list is in one of its parts; and a part, the only *)
(* one with elements of N, stands in it whole with no other of them around it. *)
LEMMA FlattenSplits ==
  ASSUME NEW T, NEW ss \in Seq(Seq(T)), NEW k \in 1 .. Len(ss), NEW N, OnlyPart(ss, k, N)
  PROVE  StandsIn(ss[k], FlattenSeq(ss), T, N)
<1> DEFINE L == Len(ss)
<1>1. L \in Nat /\ k \in 1 .. L /\ \A n \in 1 .. L : ss[n] \in Seq(T)
  OBVIOUS
<1>2. PICK F : /\ F[1] = ss[1] /\ FlattenSeq(ss) = F[Len(ss)]
               /\ \A n \in 1 .. Len(ss) : n # 1 => F[n] = F[n - 1] \o ss[n]
  <2>1. Len(ss) # 0
    BY <1>1
  <2> HIDE DEF L
  <2>2. QED
    BY <2>1, FlattenUnfolds
<1>3. ToSet(<<>>) = {}
  BY DEF ToSet
<1> HIDE DEF L
<1> DEFINE Splits(a) == \E P, Q \in Seq(T) : a = P \o ss[k] \o Q /\ ToSet(P) \cap N = {} /\ ToSet(Q) \cap N = {}
           Good(n) == /\ F[n] \in Seq(T)
                      /\ n < k => ToSet(F[n]) \cap N = {}
                      /\ n >= k => Splits(F[n])
           U == {n \in Nat : 1 <= n /\ n <= L => Good(n)}
<1>4. 0 \in U
  BY <1>1
<1>5. ASSUME NEW n \in Nat, n \in U, n + 1 <= L PROVE Good(n + 1)
  <2> DEFINE m == n + 1
             a == F[n]
             b == ss[m]
  <2>1. m \in 1 .. L /\ b \in Seq(T) /\ (m # k => ToSet(b) \cap N = {})
    BY <1>1, <1>5 DEF L, OnlyPart
  <2>2. CASE n = 0
    <3>1. F[m] = b /\ m = 1
      BY <1>2, <2>2
    <3>2. m >= k => k = m
      BY <1>1, <3>1
    <3>3. b = <<>> \o b \o <<>> /\ <<>> \in Seq(T)
      BY <2>1
    <3>4. k = m => Splits(b)
      BY <1>3, <3>3
    <3> HIDE DEF b, m, Splits
    <3>5. m < k => m # k
      BY <1>1, <2>1
    <3>6. Good(m)
      BY <2>1, <3>1, <3>2, <3>4, <3>5
    <3>7. QED
      BY <3>6 DEF m
  <2>3. CASE n # 0
    <3>1. Good(n)
      <4>1. 1 <= n /\ n <= L
        BY <1>1, <1>5, <2>3
      <4> HIDE DEF Good
      <4>2. QED
        BY <1>5, <4>1
    <3>2. F[m] = a \o b
      <4>1. m \in 1 .. Len(ss) /\ m # 1 /\ m - 1 = n
        BY <2>1, <2>3 DEF L
      <4>2. QED
        BY <1>2, <4>1
    <3>3. a \in Seq(T)
      BY <3>1
    <3> HIDE DEF a, b, Splits
    <3>4. a \o b \in Seq(T) /\ ToSet(a \o b) = ToSet(a) \cup ToSet(b)
      BY <2>1, <3>3, ConcatIs
    <3>5. ASSUME m < k PROVE ToSet(F[m]) \cap N = {}
      <4>1. n < k /\ m # k
        BY <1>1, <3>5
      <4>2. ToSet(a) \cap N = {}
        BY <3>1, <4>1 DEF a
      <4>3. QED
        BY <2>1, <3>2, <3>4, <4>1, <4>2
    <3>6. ASSUME m >= k PROVE Splits(F[m])
      <4>1. CASE m = k
        <5>1. n < k
          BY <1>1, <4>1
        <5>2. ToSet(a) \cap N = {}
          BY <3>1, <5>1 DEF a
        <5>3. a \o b = a \o b \o <<>> /\ <<>> \in Seq(T) /\ b = ss[k]
          <6>1. b = ss[k]
            BY <4>1 DEF b
          <6>2. QED
            BY <3>4, <6>1
        <5>4. Splits(a \o b)
          BY <1>3, <3>3, <5>2, <5>3 DEF Splits
        <5>5. QED
          BY <3>2, <5>4
      <4>2. CASE m # k
        <5>1. n >= k
          BY <1>1, <3>6, <4>2
        <5>2. Splits(a)
          BY <3>1, <5>1 DEF a
        <5>3. PICK P, Q \in Seq(T) : a = P \o ss[k] \o Q /\ ToSet(P) \cap N = {} /\ ToSet(Q) \cap N = {}
          BY <5>2 DEF Splits
        <5>4. Q \o b \in Seq(T) /\ ToSet(Q \o b) = ToSet(Q) \cup ToSet(b)
          BY <2>1, ConcatIs
        <5>5. a \o b = P \o ss[k] \o (Q \o b)
          <6> DEFINE c == P \o ss[k]
          <6>1. c \in Seq(T) /\ b \in Seq(T)
            BY <1>1, <2>1
          <6> HIDE DEF c
          <6>2. (c \o Q) \o b = c \o (Q \o b)
            BY <6>1
          <6>3. QED
            BY <5>3, <6>2 DEF c
        <5>6. ToSet(Q \o b) \cap N = {}
          BY <2>1, <4>2, <5>3, <5>4
        <5>7. Splits(a \o b)
          BY <5>3, <5>4, <5>5, <5>6 DEF Splits
        <5>8. QED
          BY <3>2, <5>7
      <4>3. QED
        BY <4>1, <4>2
    <3>7. QED
      BY <3>2, <3>4, <3>5, <3>6
  <2>4. QED
    BY <2>2, <2>3
<1>6. \A n \in Nat : n \in U => n + 1 \in U
  <2> HIDE DEF Good
  <2>1. QED
    BY <1>5
<1>7. L \in U
  <2> HIDE DEF U
  <2>1. Nat \subseteq U
    BY <1>4, <1>6, NatBySteps
  <2>2. QED
    BY <1>1, <2>1
<1>8. Splits(F[L])
  <2>1. 1 <= L /\ L <= L /\ L >= k
    BY <1>1
  <2> HIDE DEF Splits
  <2>2. QED
    BY <1>7, <2>1
<1>9. QED
  BY <1>2, <1>8 DEF L, StandsIn

LEMMA OnlyType ==
  ASSUME NEW T, NEW a \in Seq(T), NEW S
  PROVE  Only(a, S) \in Seq(T)
<1>1. Only(a, S) \in Seq(T \cap S)
  BY OnlyIs
<1>2. QED
  BY <1>1

LEMMA OnlyOne ==
  ASSUME NEW x, NEW S
  PROVE  Only(<<x>>, S) = IF x \in S THEN <<x>> ELSE <<>>
<1>1. <<>> \in Seq({x}) /\ <<x>> = Append(<<>>, x)
  OBVIOUS
<1>2. Only(Append(<<>>, x), S) = IF x \in S THEN Append(Only(<<>>, S), x) ELSE Only(<<>>, S)
  <2>1. ASSUME NEW T, NEW e \in Seq(T), NEW y \in T
        PROVE  Only(Append(e, y), S) = IF y \in S THEN Append(Only(e, S), y) ELSE Only(e, S)
    BY OnlyAppend
  <2>2. x \in {x}
    OBVIOUS
  <2>3. QED
    BY <1>1, <2>1, <2>2
<1>3. QED
  BY <1>1, <1>2, OnlyEmpty

LEMMA OneIs == ASSUME NEW x PROVE ToSet(<<x>>) = {x}
BY DEF ToSet

(* A list around one of its elements. *)
LEMMA AroundIs ==
  ASSUME NEW T, NEW a \in Seq(T), NEW z \in T, NEW b \in Seq(T)
  PROVE  LET c == a \o <<z>> \o b
         IN  /\ c \in Seq(T) /\ Len(c) = Len(a) + 1 + Len(b) /\ c[Len(a) + 1] = z
             /\ \A j \in 1 .. Len(a) : c[j] = a[j]
             /\ \A j \in 1 .. Len(b) : c[Len(a) + 1 + j] = b[j]
OBVIOUS

LEMMA OnlyAround ==
  ASSUME NEW T, NEW a \in Seq(T), NEW y \in Seq(T), NEW b \in Seq(T), NEW S, ToSet(y) \subseteq S
  PROVE  Only(a \o y \o b, S) = Only(a, S) \o y \o Only(b, S)
<1> DEFINE c == a \o y
<1>1. c \in Seq(T)
  OBVIOUS
<1>2. Only(c, S) = Only(a, S) \o Only(y, S)
  BY OnlyConcat
<1> HIDE DEF c
<1>3. Only(c \o b, S) = Only(c, S) \o Only(b, S)
  BY <1>1, OnlyConcat
<1>4. Only(y, S) = y
  BY OnlyAll
<1>5. QED
  BY <1>2, <1>3, <1>4 DEF c

LEMMA OnlyApart ==
  ASSUME NEW T, NEW a \in Seq(T), NEW y \in Seq(T), NEW b \in Seq(T), NEW S, ToSet(y) \cap S = {}
  PROVE  Only(a \o y \o b, S) = Only(a, S) \o Only(b, S)
<1> DEFINE c == a \o y
<1>1. c \in Seq(T)
  OBVIOUS
<1>2. Only(y, S) = <<>>
  BY OnlyNone
<1>3. Only(c, S) = Only(a, S) \o Only(y, S)
  BY OnlyConcat
<1> HIDE DEF c
<1>4. Only(c \o b, S) = Only(c, S) \o Only(b, S)
  BY <1>1, OnlyConcat
<1>5. Only(a, S) \in Seq(T)
  BY OnlyType
<1>6. Only(a, S) \o <<>> = Only(a, S)
  BY <1>5
<1>7. QED
  BY <1>2, <1>3, <1>4, <1>6 DEF c

LEMMA AroundUnique ==
  ASSUME NEW T, NEW a \in Seq(T), NEW z \in T, NEW b \in Seq(T), Unique(a \o <<z>> \o b)
  PROVE  z \notin ToSet(a)
<1> DEFINE c == a \o <<z>> \o b
           m == Len(a)
<1>1. /\ m \in Nat /\ m + 1 \in DOMAIN c /\ c[m + 1] = z
      /\ \A i \in 1 .. m : i \in DOMAIN c /\ c[i] = a[i]
  OBVIOUS
<1> HIDE DEF c
<1>2. \A i, j \in DOMAIN c : c[i] = c[j] => i = j
  BY DEF Unique, c
<1>3. \A i \in 1 .. m : a[i] # z
  BY <1>1, <1>2
<1>4. DOMAIN a = 1 .. m
  OBVIOUS
<1>5. QED
  BY <1>3, <1>4 DEF ToSet

Parted(seq, x, z, y) == seq = x \o <<z>> \o y

LEMMA PartedKept ==
  ASSUME NEW T, NEW r, NEW a \in Seq(T), NEW b \in Seq(T), NEW z \in T, NEW W, z \in W, Parted(r, a, z, b)
  PROVE  Parted(Only(r, W), Only(a, W), z, Only(b, W))
<1> DEFINE m == <<z>>
<1>1. m \in Seq(T) /\ ToSet(m) \subseteq W
  BY OneIs
<1>2. r = a \o m \o b
  BY DEF Parted
<1> HIDE DEF m
<1>3. Only(a \o m \o b, W) = Only(a, W) \o m \o Only(b, W)
  BY <1>1, OnlyAround
<1>4. QED
  BY <1>2, <1>3 DEF Parted, m

(* A list cut at an element that is kept: what is kept is cut there too. *)
LEMMA CutAt ==
  ASSUME NEW T, NEW r \in Seq(T), Unique(r), NEW W, NEW x \in Seq(T), NEW y \in Seq(T), NEW z \in T,
         Parted(Only(r, W), x, z, y)
  PROVE  LET i == Place(r, z)
             a == SubSeq(r, 1, i - 1)
             b == SubSeq(r, i + 1, Len(r))
         IN  /\ i \in 1 .. Len(r) /\ r[i] = z /\ z \in ToSet(r) /\ z \in W
             /\ a \in Seq(T) /\ b \in Seq(T) /\ r = a \o <<z>> \o b
             /\ Only(a, W) = x /\ Only(b, W) = y
<1> DEFINE i == Place(r, z)
           a == SubSeq(r, 1, i - 1)
           b == SubSeq(r, i + 1, Len(r))
<1>1. z \in ToSet(r) /\ z \in W /\ Unique(Only(r, W))
  <2>1. /\ ToSet(Only(r, W)) = ToSet(r) \cap W /\ Unique(Only(r, W))
    BY OnlyIs
  <2>2. z \in ToSet(x \o <<z>> \o y)
    <3> DEFINE c == x \o <<z>> \o y
    <3>1. Len(x) + 1 \in DOMAIN c /\ c[Len(x) + 1] = z
      OBVIOUS
    <3> HIDE DEF c
    <3>2. z \in ToSet(c)
      BY <3>1 DEF ToSet
    <3>3. QED
      BY <3>2 DEF c
  <2>3. QED
    BY <2>1, <2>2 DEF Parted
<1>2. i \in 1 .. Len(r) /\ r[i] = z
  <2>1. \E j \in DOMAIN r : r[j] = z
    BY <1>1 DEF ToSet
  <2>2. i \in DOMAIN r /\ r[i] = z
    BY <2>1 DEF Place
  <2>3. QED
    BY <2>2
<1> HIDE DEF i
<1>3. a \in Seq(T) /\ b \in Seq(T) /\ r = a \o <<z>> \o b
  <2> DEFINE c == a \o <<z>> \o b
  <2> DEFINE L == Len(r)
  <2>0. L \in Nat /\ i \in 1 .. L /\ r \in Seq(T)
    BY <1>2
  <2>1. /\ a \in Seq(T) /\ Len(a) = i - 1 /\ \A j \in 1 .. i - 1 : a[j] = r[j]
        /\ b \in Seq(T) /\ Len(b) = L - i /\ \A j \in 1 .. L - i : b[j] = r[i + j]
    <3>1. a \in Seq(T) /\ Len(a) = i - 1 /\ \A j \in 1 .. i - 1 : a[j] = r[j]
      BY <2>0
    <3>2. b \in Seq(T) /\ Len(b) = L - i /\ \A j \in 1 .. L - i : b[j] = r[i + j]
      BY <2>0
    <3>3. QED
      BY <3>1, <3>2
  <2> HIDE DEF a, b, L
  <2>2. /\ c \in Seq(T) /\ Len(c) = L /\ c[i] = z
        /\ \A j \in 1 .. i - 1 : c[j] = a[j]
        /\ \A j \in i + 1 .. L : c[j] = b[j - i]
    <3>1. /\ c \in Seq(T) /\ Len(c) = Len(a) + 1 + Len(b) /\ c[Len(a) + 1] = z
          /\ \A j \in 1 .. Len(a) : c[j] = a[j]
          /\ \A j \in 1 .. Len(b) : c[Len(a) + 1 + j] = b[j]
      <4>1. a \in Seq(T) /\ b \in Seq(T)
        BY <2>1
      <4>2. QED
        BY <4>1, AroundIs
    <3> HIDE DEF c
    <3>2. Len(a) + 1 = i /\ \A j \in i + 1 .. L : j - i \in 1 .. Len(b) /\ i + (j - i) = j
      BY <2>0, <2>1
    <3>3. \A j \in 1 .. Len(b) : c[i + j] = b[j]
      BY <3>1, <3>2
    <3>4. \A j \in i + 1 .. L : c[j] = b[j - i]
      BY <3>2, <3>3
    <3>5. QED
      BY <2>0, <2>1, <3>1, <3>2, <3>4
  <2> HIDE DEF c
  <2>3. ASSUME NEW j \in 1 .. L PROVE c[j] = r[j]
    <3>1. CASE j <= i
      BY <1>2, <2>0, <2>1, <2>2, <3>1
    <3>2. CASE j > i
      <4>1. j - i \in 1 .. L - i /\ i + (j - i) = j
        BY <2>0, <3>2
      <4>2. QED
        BY <2>0, <2>1, <2>2, <3>2, <4>1
    <3>3. QED
      BY <2>0, <3>1, <3>2
  <2>4. c = r
    BY <2>2, <2>3, SeqEqual DEF L
  <2>5. QED
    BY <2>1, <2>4 DEF c
<1> HIDE DEF a, b
<1>4. Only(r, W) = Only(a, W) \o <<z>> \o Only(b, W)
  <2>1. Parted(r, a, z, b)
    BY <1>3 DEF Parted
  <2>2. a \in Seq(T) /\ b \in Seq(T) /\ z \in W
    BY <1>1, <1>3
  <2>3. Parted(Only(r, W), Only(a, W), z, Only(b, W))
    BY <2>1, <2>2, PartedKept
  <2>4. QED
    BY <2>3 DEF Parted
<1>5. Only(a, W) \in Seq(T) /\ Only(b, W) \in Seq(T)
  BY <1>3, OnlyType
<1>6. z \notin ToSet(Only(a, W)) /\ z \notin ToSet(x)
  <2> DEFINE oa == Only(a, W)
             ob == Only(b, W)
  <2>1. Unique(oa \o <<z>> \o ob) /\ Unique(x \o <<z>> \o y)
    BY <1>1, <1>4 DEF Parted
  <2> HIDE DEF oa, ob
  <2>2. QED
    BY <1>5, <2>1, AroundUnique DEF oa, ob
<1>7. Only(a, W) = x /\ Only(b, W) = y
  <2> DEFINE oa == Only(a, W)
             ob == Only(b, W)
  <2>1. oa \in Seq(T) /\ ob \in Seq(T) /\ z \notin ToSet(oa) /\ oa \o <<z>> \o ob = x \o <<z>> \o y
    BY <1>4, <1>5, <1>6 DEF Parted
  <2> HIDE DEF oa, ob
  <2>2. oa = x /\ ob = y
    BY <1>6, <2>1, SameCut, ZenonT(30)
  <2>3. QED
    BY <2>2 DEF oa, ob
<1>8. QED
  BY <1>1, <1>2, <1>3, <1>7 DEF i, a, b

LEMMA WithoutOnly ==
  ASSUME NEW T, NEW a \in Seq(T), NEW x, NEW S, \A t \in ToSet(a) : t \in S <=> t # x
  PROVE  Without(a, x) = Only(a, S)
<1> DEFINE R == {a[i] : i \in DOMAIN a} \ {x}
<1>1. ToSet(a) \cap S = ToSet(a) \cap R
  BY DEF ToSet
<1>2. Only(a, S) = Only(a, R)
  <2> HIDE DEF R
  <2>1. QED
    BY <1>1, OnlySame
<1>3. QED
  BY <1>2 DEF Without

(* A list with one more element, and that element taken out again. *)
LEMMA InsertedIs ==
  ASSUME NEW T, NEW r \in Seq(T), NEW at \in 1 .. Len(r) + 1, NEW x \in T, x \notin ToSet(r)
  PROVE  Without(InsertAt(r, at, x), x) = r
<1> DEFINE a == SubSeq(r, 1, at - 1)
           b == SubSeq(r, at, Len(r))
           S == ToSet(r)
           w == InsertAt(r, at, x)
<1>1. a \in Seq(T) /\ b \in Seq(T) /\ r = a \o b
  <2> DEFINE L == Len(r)
             c == a \o b
  <2>0. L \in Nat /\ at \in 1 .. L + 1 /\ r \in Seq(T)
    OBVIOUS
  <2>1. a \in Seq(T) /\ Len(a) = at - 1 /\ \A j \in 1 .. at - 1 : a[j] = r[j]
    BY <2>0
  <2>2. b \in Seq(T) /\ Len(b) = L - at + 1 /\ \A j \in 1 .. L - at + 1 : b[j] = r[at + j - 1]
    BY <2>0
  <2> HIDE DEF a, b, L
  <2>3. /\ c \in Seq(T) /\ Len(c) = L
        /\ \A j \in 1 .. at - 1 : c[j] = a[j]
        /\ \A j \in at .. L : c[j] = b[j - at + 1]
    <3>1. /\ c \in Seq(T) /\ Len(c) = Len(a) + Len(b)
          /\ \A j \in 1 .. Len(a) : c[j] = a[j]
          /\ \A j \in 1 .. Len(b) : c[Len(a) + j] = b[j]
      <4>1. a \in Seq(T) /\ b \in Seq(T)
        BY <2>1, <2>2
      <4>2. QED
        BY <4>1
    <3> HIDE DEF c
    <3>2. Len(a) = at - 1 /\ \A j \in at .. L : j - at + 1 \in 1 .. Len(b) /\ Len(a) + (j - at + 1) = j
      BY <2>0, <2>1, <2>2
    <3>3. \A j \in at .. L : c[j] = b[j - at + 1]
      <4>1. ASSUME NEW j \in at .. L PROVE c[j] = b[j - at + 1]
        <5>1. c[Len(a) + (j - at + 1)] = b[j - at + 1]
          BY <3>1, <3>2
        <5>2. QED
          BY <3>2, <5>1
      <4>2. QED
        BY <4>1
    <3>4. QED
      BY <2>0, <2>1, <2>2, <3>1, <3>3
  <2> HIDE DEF c
  <2>4. ASSUME NEW j \in 1 .. L PROVE c[j] = r[j]
    <3>1. CASE j < at
      BY <2>0, <2>1, <2>3, <3>1
    <3>2. CASE j >= at
      <4>1. j - at + 1 \in 1 .. L - at + 1 /\ at + (j - at + 1) - 1 = j
        BY <2>0, <3>2
      <4>2. QED
        BY <2>0, <2>2, <2>3, <3>2, <4>1
    <3>3. QED
      BY <2>0, <3>1, <3>2
  <2>5. c = r
    BY <2>3, <2>4, SeqEqual DEF L
  <2>6. QED
    BY <2>1, <2>2, <2>5 DEF c
<1>2. w = a \o <<x>> \o b
  BY DEF InsertAt
<1>3. w \in Seq(T) /\ ToSet(w) = ToSet(r) \cup {x}
  BY InsertIs
<1> HIDE DEF a, b, w, S
<1>4. Without(w, x) = Only(w, S)
  BY <1>3, WithoutOnly DEF S
<1>5. Only(w, S) = Only(a, S) \o Only(b, S)
  <2>1. x \notin S /\ a \in Seq(T) /\ b \in Seq(T)
    BY <1>1 DEF S
  <2> DEFINE y == <<x>>
  <2>2. y \in Seq(T) /\ ToSet(y) \cap S = {}
    BY <2>1, OneIs
  <2>3. w = a \o y \o b
    BY <1>2
  <2> HIDE DEF y
  <2>4. Only(a \o y \o b, S) = Only(a, S) \o Only(b, S)
    BY <2>1, <2>2, OnlyApart, SMTT(30)
  <2>5. QED
    BY <2>3, <2>4
<1>6. Only(a \o b, S) = Only(a, S) \o Only(b, S)
  BY <1>1, OnlyConcat
<1>7. Only(r, S) = r
  BY OnlyAll DEF S
<1>8. QED
  BY <1>1, <1>4, <1>5, <1>6, <1>7 DEF w

-----------------------------------------------------------------------------
(* The plan of a move and the sections of the list.                        *)

(* Whatever the gap, the plan is the order with the row in another place. *)
LEMMA PlanMoves ==
  ASSUME NEW k, NEW v \in Snapshots(k), NEW id \in RowsOf(k), NEW group, NEW before
  PROVE  LET plan == MovePlan(v, id, group, before)
         IN  /\ plan.order \in Seq(RowsOf(k)) /\ Unique(plan.order)
             /\ ToSet(plan.order) = ToSet(v.order) \cup {id}
             /\ Without(plan.order, id) = Without(v.order, id)
             /\ plan.to = IF group \in ToSet(v.groups) THEN group ELSE Ungrouped
<1> DEFINE to == IF group \in ToSet(v.groups) THEN group ELSE Ungrouped
           rest == Without(v.order, id)
           rows == RowsIn(v, to)
           members == Without(rows, id)
           at == IF before \in ToSet(rest) THEN Place(rest, before)
                 ELSE IF members # <<>> THEN Place(rest, Last(members)) + 1
                      ELSE Len(rest) + 1
<1>1. MovePlan(v, id, group, before) = [to |-> to, order |-> InsertAt(rest, at, id)]
  BY DEF MovePlan
<1>2. v.order \in Seq(RowsOf(k)) /\ Unique(v.order)
  BY SnapshotsAre
<1>3. rows \in Seq(RowsOf(k)) /\ ToSet(rows) \subseteq ToSet(v.order)
  <2> HIDE DEF to
  <2>1. QED
    BY RowsInIs
<1> HIDE DEF rows
<1>4. rest \in Seq(RowsOf(k)) /\ ToSet(rest) = ToSet(v.order) \ {id} /\ Unique(rest)
  BY <1>2, WithoutIs
<1>5. members \in Seq(RowsOf(k)) /\ ToSet(members) = ToSet(rows) \ {id}
  BY <1>3, WithoutIs
<1> HIDE DEF rest, members
<1>6. members # <<>> => Last(members) \in ToSet(rest)
  <2> SUFFICES ASSUME members # <<>> PROVE Last(members) \in ToSet(rest)
    OBVIOUS
  <2>1. Len(members) \in DOMAIN members
    BY <1>5
  <2>2. Last(members) \in ToSet(members)
    BY <2>1 DEF Last, ToSet
  <2>3. QED
    BY <1>3, <1>4, <1>5, <2>2
<1>7. at \in 1 .. Len(rest) + 1
  <2>1. \A x \in ToSet(rest) : Place(rest, x) \in 1 .. Len(rest)
    BY <1>4, PlaceIs
  <2>2. Len(rest) \in Nat
    BY <1>4
  <2>3. QED
    BY <1>6, <2>1, <2>2
<1> HIDE DEF at, to
<1>8. id \notin ToSet(rest)
  BY <1>4
<1>9. /\ InsertAt(rest, at, id) \in Seq(RowsOf(k)) /\ Unique(InsertAt(rest, at, id))
      /\ ToSet(InsertAt(rest, at, id)) = ToSet(rest) \cup {id}
  BY <1>4, <1>7, <1>8, InsertIs
<1>10. Without(InsertAt(rest, at, id), id) = rest
  BY <1>4, <1>7, <1>8, InsertedIs
<1>11. QED
  BY <1>1, <1>4, <1>9, <1>10 DEF to, rest

LEMMA SectionsAre ==
  ASSUME NEW k, NEW v \in Snapshots(k)
  PROVE  /\ BuildSections(v) \in Seq(Sections) /\ Unique(BuildSections(v))
         /\ ToSet(BuildSections(v)) \subseteq ToSet(v.groups) \cup {Ungrouped}
<1> DEFINE all == Append(v.groups, Ungrouped)
           S == {s \in Sections : RowsIn(v, s) # <<>>}
           B == BuildSections(v)
<1>1. v.groups \in Seq(Groups) /\ Unique(v.groups) /\ ToSet(v.groups) \subseteq Groups
  BY SnapshotsAre DEF ToSet
<1>2. all \in Seq(Sections) /\ Unique(all) /\ ToSet(all) = ToSet(v.groups) \cup {Ungrouped}
  <2>1. all \in Seq(Sections)
    BY <1>1 DEF Sections
  <2>2. Ungrouped \notin ToSet(v.groups)
    BY <1>1, TreeAssumption
  <2>3. QED
    BY <1>1, <2>1, <2>2, AppendIs
<1>3. B = IF v.groups = <<>> THEN <<>> ELSE Only(all, S)
  BY DEF BuildSections
<1> HIDE DEF all, S, B
<1>4. /\ Only(all, S) \in Seq(Sections) /\ Unique(Only(all, S))
      /\ ToSet(Only(all, S)) = ToSet(all) \cap S
  <2>1. ToSet(Only(all, S)) = ToSet(all) \cap S /\ Unique(Only(all, S))
    BY <1>2, OnlyIs
  <2>2. Only(all, S) \in Seq(Sections)
    BY <1>2, OnlyType
  <2>3. QED
    BY <2>1, <2>2
<1>5. <<>> \in Seq(Sections) /\ Unique(<<>>) /\ ToSet(<<>>) = {}
  BY DEF Unique, ToSet
<1>6. QED
  BY <1>2, <1>3, <1>4, <1>5 DEF B

-----------------------------------------------------------------------------
(* The invariant holds at first, and gestures keep it.                      *)

(* Listing a finite set names each of its elements once. *)
LEMMA ListIs ==
  ASSUME NEW S, IsFiniteSet(S)
  PROVE  SetToSeq(S) \in Seq(S) /\ Unique(SetToSeq(S)) /\ ToSet(SetToSeq(S)) = S
<1> DEFINE n == Cardinality(S)
           l == SetToSeq(S)
<1>1. n \in Nat /\ ExistsBijection(1 .. n, S)
  BY FS_CardinalityType
<1>2. PICK f : f \in Bijection(1 .. n, S)
  BY <1>1 DEF ExistsBijection
<1>3. f \in [1 .. n -> S] /\ IsInjective(f)
  BY <1>2 DEF Bijection, Injection, IsInjective
<1>4. l \in [1 .. n -> S] /\ IsInjective(l)
  BY <1>3 DEF SetToSeq
<1> HIDE DEF l
<1>5. l \in Seq(S)
  BY <1>1, <1>4
<1>6. Unique(l)
  BY <1>4 DEF IsInjective, Unique
<1>7. l \in Injection(1 .. n, S)
  BY <1>4 DEF IsInjective, Injection
<1>8. IsFiniteSet(1 .. n) /\ Cardinality(1 .. n) = n
  BY <1>1, FS_Interval
<1>9. l \in Surjection(1 .. n, S)
  <2> DEFINE D == 1 .. n
  <2>1. IsFiniteSet(D) /\ Cardinality(D) = Cardinality(S) /\ l \in Injection(D, S)
    BY <1>7, <1>8
  <2> HIDE DEF D
  <2>2. l \in Surjection(D, S)
    BY <2>1, FS_Injection
  <2>3. QED
    BY <2>2 DEF D
<1>10. ToSet(l) = S
  BY <1>4, <1>9 DEF Surjection, ToSet
<1>11. QED
  BY <1>5, <1>6, <1>10 DEF l

LEMMA TreeStarts == TreeInit => TreeInv
<1> SUFFICES ASSUME TreeInit PROVE TreeInv
  OBVIOUS
<1>1. PICK m \in [Tunnels -> Sections \ Unborn], c \in [Consoles -> Sections \ Unborn] :
        /\ \A x \in Unborn : /\ x \in Tunnels => m[x] = Ungrouped
                             /\ x \in Consoles => c[x] = Ungrouped
        /\ recs = [k \in Trees |->
             IF k = "tunnels" THEN [order |-> SetToSeq(Tunnels \ Unborn), member |-> m]
             ELSE [order |-> SetToSeq(Consoles \ Unborn), member |-> c]]
  BY DEF TreeInit
<1> DEFINE GS == Groups \ Unborn
           TS == Tunnels \ Unborn
           CS == Consoles \ Unborn
           gl == SetToSeq(GS)
           tl == SetToSeq(TS)
           cl == SetToSeq(CS)
<1>2. IsFiniteSet(GS) /\ IsFiniteSet(TS) /\ IsFiniteSet(CS)
  BY TreeAssumption, FS_Subset
<1>3. /\ gl \in Seq(GS) /\ Unique(gl) /\ ToSet(gl) = GS
      /\ tl \in Seq(TS) /\ Unique(tl) /\ ToSet(tl) = TS
      /\ cl \in Seq(CS) /\ Unique(cl) /\ ToSet(cl) = CS
  <2> HIDE DEF GS, TS, CS
  <2>1. QED
    BY <1>2, ListIs
<1>4. /\ groups = gl /\ kept = [k \in Trees |-> {}] /\ view = [k \in Trees |-> Stored(k)]
      /\ ops = {} /\ reads = [k \in Trees |-> <<>>]
      /\ alive = (Tunnels \cup Consoles \cup Groups) \ Unborn
  BY DEF TreeInit
<1> HIDE DEF gl, tl, cl
<1>5. gl \in Seq(Groups) /\ tl \in Seq(Tunnels) /\ cl \in Seq(Consoles)
  BY <1>3
<1>6. /\ recs["tunnels"].order = tl /\ recs["tunnels"].member = m
      /\ recs["consoles"].order = cl /\ recs["consoles"].member = c
  BY <1>1 DEF Trees, tl, cl
<1>7. Trees = {"tunnels", "consoles"} /\ RowsOf("tunnels") = Tunnels /\ RowsOf("consoles") = Consoles
  BY DEF Trees, RowsOf
<1>8. \A k \in Trees : Stored(k) \in Snapshots(k)
  <2>1. \A s \in Sections \ Unborn : s \in ToSet(gl) \cup {Ungrouped}
    BY <1>3 DEF Sections
  <2>2. ASSUME NEW k \in Trees, k = "tunnels" PROVE Stored(k) \in Snapshots(k)
    <3>1. [order |-> tl, member |-> m, groups |-> gl, kept |-> {}] \in Snapshots(k)
      BY <1>3, <1>5, <1>7, <2>1, <2>2, MakesSnapshot
    <3>2. QED
      BY <1>4, <1>6, <2>2, <3>1 DEF Stored
  <2>3. ASSUME NEW k \in Trees, k = "consoles" PROVE Stored(k) \in Snapshots(k)
    <3>1. [order |-> cl, member |-> c, groups |-> gl, kept |-> {}] \in Snapshots(k)
      BY <1>3, <1>5, <1>7, <2>1, <2>3, MakesSnapshot
    <3>2. QED
      BY <1>4, <1>6, <2>3, <3>1 DEF Stored
  <2>4. QED
    BY <1>7, <2>2, <2>3
<1>9. TreeTypes
  <2>1. recs = [k \in Trees |-> [order |-> recs[k].order, member |-> recs[k].member]]
    BY <1>1
  <2>2. QED
    BY <1>4, <1>8, <2>1 DEF TreeTypes
<1>10. AliveIsStored
  BY <1>3, <1>4, <1>6, <1>7, TreeAssumption DEF AliveIsStored
<1>11. OpsAreGood /\ NothingMissed
  BY <1>4 DEF OpsAreGood, NothingMissed, ComingTo, Alike
<1>12. QED
  BY <1>9, <1>10, <1>11 DEF TreeInv

LEMMA KeptByFrame ==
  ASSUME TreeInv, UNCHANGED <<groups, recs, kept, view, ops, reads, alive>>
  PROVE  TreeInv'
<1>1. TreeTypes'
  BY DEF TreeInv, TreeTypes, Stored
<1>2. AliveIsStored' /\ OpsAreGood'
  BY DEF TreeInv, AliveIsStored, OpsAreGood
<1>3. NothingMissed'
  BY DEF TreeInv, NothingMissed, Owed, ComingTo, Stored
<1>4. QED
  BY <1>1, <1>2, <1>3 DEF TreeInv

LEMMA KeptByAsking ==
  ASSUME TreeInv, UNCHANGED <<groups, recs, kept, view, reads, alive>>,
         ops \subseteq ops', \A o \in ops' : GoodOp(o)
  PROVE  TreeInv'
<1>1. TreeTypes'
  BY DEF TreeInv, TreeTypes, Stored
<1>2. AliveIsStored' /\ OpsAreGood'
  BY DEF TreeInv, AliveIsStored, OpsAreGood
<1>3. \A k \in Trees : Owed(k) => Owed(k)'
  BY DEF Owed
<1>4. NothingMissed'
  BY <1>3 DEF TreeInv, NothingMissed, ComingTo, Stored
<1>5. QED
  BY <1>1, <1>2, <1>4 DEF TreeInv

LEMMA KeptByDrop ==
  ASSUME TreeInv, NEW k \in Trees, Drop(k)
  PROVE  TreeInv'
<1> DEFINE v == view[k]
           id == drag.id
<1>1. UNCHANGED <<groups, recs, kept, view, reads, alive>>
  BY DEF Drop
<1>2. v \in Snapshots(k) /\ OpsAreGood
  BY DEF TreeInv, TreeTypes
<1>3. CASE MoveRow(k, id, spot)
  <2> DEFINE plan == MovePlan(v, id, spot.group, spot.before)
             next == IF GroupOf(v, id) # plan.to THEN "update" ELSE "reorder"
             clean == spot.fresh /\ ops = {} /\ reads[k] = <<>> /\ ViewIsStored(k)
             o0 == Op(k, next)
             o1 == [o0 EXCEPT !.row = id]
             o2 == [o1 EXCEPT !.to = plan.to]
             o3 == [o2 EXCEPT !.list = plan.order]
             o4 == [o3 EXCEPT !.clean = clean]
             o5 == [o4 EXCEPT !.shown = spot.shown]
             o6 == [o5 EXCEPT !.want = spot.want]
  <2>1. ops' = IF id \notin ToSet(v.order) \/ PlanIsIdle(v, id, plan) THEN ops ELSE ops \cup {o6}
    BY <1>3 DEF MoveRow
  <2>2. id \in ToSet(v.order) => plan.order \in Seq(RowsOf(k)) /\ Unique(plan.order)
    <3> SUFFICES ASSUME id \in ToSet(v.order)
                 PROVE  plan.order \in Seq(RowsOf(k)) /\ Unique(plan.order)
      OBVIOUS
    <3> DEFINE s == spot.group
               b == spot.before
    <3> HIDE DEF v, id, s, b
    <3>1. v.order \in Seq(RowsOf(k))
      BY <1>2, SnapshotsAre
    <3>2. id \in RowsOf(k)
      BY <3>1 DEF ToSet
    <3>3. LET p == MovePlan(v, id, s, b) IN p.order \in Seq(RowsOf(k)) /\ Unique(p.order)
      BY <1>2, <3>2, PlanMoves
    <3>4. QED
      BY <3>3 DEF s, b
  <2> HIDE DEF plan, v, id
  <2>3. next \in {"update", "reorder"}
    OBVIOUS
  <2> HIDE DEF next, clean
  <2>4. DOMAIN o0 = OpFields /\ o0.tree = k /\ o0.next = next
    BY OpIs
  <2> HIDE DEF o0
  <2>5. DOMAIN o1 = OpFields /\ o1.tree = k /\ o1.next = next
    BY <2>4 DEF OpFields
  <2> HIDE DEF o1
  <2>6. DOMAIN o2 = OpFields /\ o2.tree = k /\ o2.next = next
    BY <2>5 DEF OpFields
  <2> HIDE DEF o2
  <2>7. DOMAIN o3 = OpFields /\ o3.tree = k /\ o3.next = next /\ o3.list = plan.order
    BY <2>6 DEF OpFields
  <2> HIDE DEF o3
  <2>8. DOMAIN o4 = OpFields /\ o4.tree = k /\ o4.next = next /\ o4.list = plan.order
    BY <2>7 DEF OpFields
  <2> HIDE DEF o4
  <2>9. DOMAIN o5 = OpFields /\ o5.tree = k /\ o5.next = next /\ o5.list = plan.order
    BY <2>8 DEF OpFields
  <2> HIDE DEF o5
  <2>10. DOMAIN o6 = OpFields /\ o6.tree = k /\ o6.next = next /\ o6.list = plan.order
    BY <2>9 DEF OpFields
  <2> HIDE DEF o6
  <2>11. id \in ToSet(v.order) => GoodOp(o6)
    BY <2>2, <2>3, <2>10 DEF GoodOp
  <2>12. ops \subseteq ops' /\ \A o \in ops' : GoodOp(o)
    BY <1>2, <2>1, <2>11 DEF OpsAreGood
  <2>13. QED
    BY <1>1, <2>12, KeptByAsking
<1>4. CASE MoveGroup(k, id, spot.group)
  <2> DEFINE to == spot.group
             rest == Without(v.groups, id)
             at == IF to \in ToSet(rest) THEN Place(rest, to) ELSE Len(rest) + 1
             list == InsertAt(rest, at, id)
             o0 == Op(k, "groups")
             o1 == [o0 EXCEPT !.list = list]
  <2>1. ops' = IF id \notin ToSet(v.groups) \/ id = to THEN ops ELSE ops \cup {o1}
    BY <1>4 DEF MoveGroup
  <2>2. id \in ToSet(v.groups) => list \in Seq(Groups) /\ Unique(list)
    <3> SUFFICES ASSUME id \in ToSet(v.groups) PROVE list \in Seq(Groups) /\ Unique(list)
      OBVIOUS
    <3>1. v.groups \in Seq(Groups) /\ Unique(v.groups)
      BY <1>2, SnapshotsAre
    <3>2. id \in Groups
      BY <3>1 DEF ToSet
    <3>3. rest \in Seq(Groups) /\ ToSet(rest) = ToSet(v.groups) \ {id} /\ Unique(rest)
      BY <3>1, WithoutIs
    <3> HIDE DEF rest
    <3>4. at \in 1 .. Len(rest) + 1
      <4>1. \A x \in ToSet(rest) : Place(rest, x) \in 1 .. Len(rest)
        BY <3>3, PlaceIs
      <4>2. Len(rest) \in Nat
        BY <3>3
      <4>3. QED
        BY <4>1, <4>2
    <3> HIDE DEF at
    <3>5. QED
      BY <3>2, <3>3, <3>4, InsertIs
  <2> HIDE DEF list, v, id
  <2>3. DOMAIN o0 = OpFields /\ o0.tree = k /\ o0.next = "groups"
    BY OpIs
  <2> HIDE DEF o0
  <2>4. DOMAIN o1 = OpFields /\ o1.tree = k /\ o1.next = "groups" /\ o1.list = list
    BY <2>3 DEF OpFields
  <2> HIDE DEF o1
  <2>5. id \in ToSet(v.groups) => GoodOp(o1)
    BY <2>2, <2>4 DEF GoodOp
  <2>6. ops \subseteq ops' /\ \A o \in ops' : GoodOp(o)
    BY <1>2, <2>1, <2>5 DEF OpsAreGood
  <2>7. QED
    BY <1>1, <2>6, KeptByAsking
<1>5. QED
  BY <1>3, <1>4 DEF Drop

LEMMA KeptByGroupActs ==
  ASSUME TreeInv, NEW k \in Trees
  PROVE  /\ AssignRow(k) \/ SaveGroup(k) \/ DeleteGroup(k) => TreeInv'
         /\ TableDrop => TreeInv'
<1>1. \A o \in ops : GoodOp(o)
  BY DEF TreeInv, OpsAreGood
<1>2. ASSUME AssignRow(k) PROVE TreeInv'
  <2>1. PICK t \in ToSet(view[k].order), to \in ToSet(view[k].groups) \cup {Ungrouped} :
          AssignMany(k, {t}, to)
    BY <1>2 DEF AssignRow
  <2>2. ops' = ops \cup {[Op(k, "assign") EXCEPT !.ids = {t} \cap ToSet(view[k].order), !.to = to]}
    BY <2>1 DEF AssignMany
  <2>3. GoodOp([Op(k, "assign") EXCEPT !.ids = {t} \cap ToSet(view[k].order), !.to = to])
    BY OpGood
  <2>4. UNCHANGED <<groups, recs, kept, view, reads, alive>>
    BY <1>2 DEF AssignRow
  <2>5. ops \subseteq ops' /\ \A o \in ops' : GoodOp(o)
    BY <1>1, <2>2, <2>3
  <2>6. QED
    BY <2>4, <2>5, KeptByAsking
<1>3. ASSUME TableDrop PROVE TreeInv'
  <2>1. PICK t, s : AssignMany("tunnels", {t}, s)
    BY <1>3 DEF TableDrop
  <2> DEFINE o1 == [Op("tunnels", "assign") EXCEPT
                      !.ids = {t} \cap ToSet(view["tunnels"].order), !.to = s]
  <2>2. ops' = ops \cup {o1}
    BY <2>1 DEF AssignMany
  <2>3. GoodOp(o1)
    BY OpGood DEF Trees
  <2> HIDE DEF o1
  <2>4. UNCHANGED <<groups, recs, kept, view, reads, alive>>
    BY <1>3 DEF TableDrop
  <2>5. ops \subseteq ops' /\ \A o \in ops' : GoodOp(o)
    BY <1>1, <2>2, <2>3
  <2>6. QED
    BY <2>4, <2>5, KeptByAsking
<1>4. ASSUME SaveGroup(k) PROVE TreeInv'
  <2> DEFINE to == IF edit[k].open = "new" THEN Ungrouped ELSE edit[k].open
             o1 == [Op(k, "save") EXCEPT !.to = to]
  <2>1. ops' = ops \cup {o1} /\ UNCHANGED <<groups, recs, kept, view, reads, alive>>
    BY <1>4 DEF SaveGroup
  <2> HIDE DEF to
  <2>2. GoodOp(o1)
    BY OpGood
  <2> HIDE DEF o1
  <2>3. ops \subseteq ops' /\ \A o \in ops' : GoodOp(o)
    BY <1>1, <2>1, <2>2
  <2>4. QED
    BY <2>1, <2>3, KeptByAsking
<1>5. ASSUME DeleteGroup(k) PROVE TreeInv'
  <2>1. PICK g : ops' = ops \cup {[Op(k, "delete") EXCEPT !.to = g]}
    BY <1>5 DEF DeleteGroup
  <2>2. GoodOp([Op(k, "delete") EXCEPT !.to = g])
    BY OpGood
  <2>3. UNCHANGED <<groups, recs, kept, view, reads, alive>>
    BY <1>5 DEF DeleteGroup
  <2>4. ops \subseteq ops' /\ \A o \in ops' : GoodOp(o)
    BY <1>1, <2>1, <2>2
  <2>5. QED
    BY <2>3, <2>4, KeptByAsking
<1>6. QED
  BY <1>2, <1>3, <1>4, <1>5

LEMMA KeptByCollapse ==
  ASSUME TreeInv, NEW k \in Trees, ToggleCollapse(k)
  PROVE  TreeInv'
<1>1. PICK s \in ToSet(BuildSections(view[k])) :
        /\ view' = [view EXCEPT ![k].kept = SymDiff(view[k].kept, {s})]
        /\ kept' = [kept EXCEPT ![k] = SymDiff(view[k].kept, {s})]
  BY DEF ToggleCollapse
<1> DEFINE now == SymDiff(view[k].kept, {s})
<1>2. UNCHANGED <<groups, recs, ops, reads, alive>>
  BY DEF ToggleCollapse
<1>3. /\ DOMAIN kept = Trees /\ DOMAIN view = Trees
      /\ \A j \in Trees : /\ Stored(j) \in Snapshots(j) /\ view[j] \in Snapshots(j)
                          /\ reads[j] \in Seq(Snapshots(j))
  BY DEF TreeInv, TreeTypes
<1>4. now \subseteq Sections
  <2>1. s \in Sections
    <3>1. view[k] \in Snapshots(k)
      BY <1>3
    <3>2. ToSet(BuildSections(view[k])) \subseteq ToSet(view[k].groups) \cup {Ungrouped}
      BY <3>1, SectionsAre
    <3>3. ToSet(view[k].groups) \subseteq Groups
      BY <3>1, SnapshotsAre DEF ToSet
    <3>4. QED
      BY <3>2, <3>3 DEF Sections
  <2>2. view[k].kept \subseteq Sections
    BY <1>3, SnapshotsAre
  <2>3. QED
    BY <2>1, <2>2 DEF SymDiff
<1>5. view' = [view EXCEPT ![k].kept = now] /\ kept' = [kept EXCEPT ![k] = now]
  BY <1>1
<1> HIDE DEF now
<1> DEFINE Put(v) == [order |-> v.order, member |-> v.member, groups |-> v.groups, kept |-> now]
<1>6. ASSUME NEW v \in Snapshots(k) PROVE Put(v) \in Snapshots(k)
  <2>1. v.order \in Seq(RowsOf(k)) /\ Unique(v.order) /\ v.member \in [RowsOf(k) -> Sections]
        /\ v.groups \in Seq(Groups) /\ Unique(v.groups)
        /\ \A t \in RowsOf(k) : v.member[t] \in ToSet(v.groups) \cup {Ungrouped}
    BY SnapshotsAre
  <2>2. DOMAIN v.member = RowsOf(k) /\ v.member = [t \in RowsOf(k) |-> v.member[t]]
    BY <2>1
  <2>3. QED
    BY <1>4, <2>1, <2>2, MakesSnapshot
<1>7. view[k] = [order |-> view[k].order, member |-> view[k].member,
                 groups |-> view[k].groups, kept |-> view[k].kept]
  BY <1>3, SnapshotsAre
<1>8. view'[k] = Put(view[k]) /\ \A j \in Trees \ {k} : view'[j] = view[j]
  BY <1>3, <1>5, <1>7
<1>9. Stored(k)' = Put(Stored(k)) /\ \A j \in Trees \ {k} : Stored(j)' = Stored(j)
  BY <1>2, <1>3, <1>5 DEF Stored
<1>10. \A j \in Trees : Stored(j)' \in Snapshots(j) /\ view'[j] \in Snapshots(j)
  BY <1>3, <1>6, <1>8, <1>9
<1>11. TreeTypes'
  BY <1>2, <1>3, <1>5, <1>10 DEF TreeInv, TreeTypes
<1>12. AliveIsStored' /\ OpsAreGood'
  BY <1>2 DEF TreeInv, AliveIsStored, OpsAreGood
<1>13. ASSUME NEW j \in Trees PROVE Owed(j)' \/ Alike(ComingTo(j)', Stored(j)')
  <2>1. Owed(j)' = Owed(j)
    BY <1>2 DEF Owed
  <2>2. Alike(ComingTo(j), Stored(j)) => Alike(ComingTo(j)', Stored(j)')
    BY <1>2, <1>8, <1>9 DEF Alike, ComingTo
  <2>3. QED
    BY <2>1, <2>2 DEF TreeInv, NothingMissed
<1>14. NothingMissed'
  BY <1>13 DEF NothingMissed
<1>15. QED
  BY <1>11, <1>12, <1>14 DEF TreeInv

(* A reply is applied: the view is what it will be in the end, or a reload *)
(* behind it still says.                                                   *)
LEMMA KeptByApplyLoad ==
  ASSUME TreeInv, NEW k \in Trees, ApplyLoad(k)
  PROVE  TreeInv'
<1>1. /\ reads[k] # <<>> /\ view' = [view EXCEPT ![k] = Head(reads[k])]
      /\ reads' = [reads EXCEPT ![k] = Tail(@)]
      /\ UNCHANGED <<groups, recs, kept, ops, alive>>
  BY DEF ApplyLoad
<1>2. /\ DOMAIN kept = Trees /\ DOMAIN view = Trees /\ DOMAIN reads = Trees
      /\ \A j \in Trees : /\ Stored(j) \in Snapshots(j) /\ view[j] \in Snapshots(j)
                          /\ reads[j] \in Seq(Snapshots(j))
  BY DEF TreeInv, TreeTypes
<1>3. /\ view'[k] = Head(reads[k]) /\ reads'[k] = Tail(reads[k])
      /\ \A j \in Trees \ {k} : view'[j] = view[j] /\ reads'[j] = reads[j]
      /\ DOMAIN view' = Trees /\ DOMAIN reads' = Trees
  BY <1>1, <1>2
<1> DEFINE q == reads[k]
           Q == Snapshots(k)
<1>4. q \in Seq(Q) /\ q # <<>>
  BY <1>1, <1>2
<1> HIDE DEF q, Q
<1>5. Head(q) \in Q /\ Tail(q) \in Seq(Q)
  BY <1>4
<1>6. (IF Tail(q) = <<>> THEN Head(q) ELSE Tail(q)[Len(Tail(q))]) = q[Len(q)]
  <2>1. CASE Len(q) = 1
    BY <1>4, <2>1, SMTT(30)
  <2>2. CASE Len(q) # 1
    <3> DEFINE t == Tail(q)
    <3>1. Len(q) \in Nat /\ Len(q) > 1
      BY <1>4, <2>2
    <3>2. Len(t) = Len(q) - 1 /\ \A i \in 1 .. Len(q) - 1 : t[i] = q[i + 1]
      BY <1>4
    <3> HIDE DEF t
    <3>3. Len(t) = Len(q) - 1
      BY <3>2
    <3>4. t # <<>>
      BY <3>1, <3>3
    <3>5. t[Len(q) - 1] = q[Len(q)]
      BY <3>1, <3>2
    <3>6. QED
      BY <3>3, <3>4, <3>5 DEF t
  <2>3. QED
    BY <2>1, <2>2
<1>7. \A j \in Trees : Stored(j)' = Stored(j)
  BY <1>1 DEF Stored
<1>8. TreeTypes'
  <2>1. \A j \in Trees : view'[j] \in Snapshots(j) /\ reads'[j] \in Seq(Snapshots(j))
    BY <1>2, <1>3, <1>5 DEF q, Q
  <2>2. QED
    BY <1>1, <1>2, <1>3, <1>7, <2>1 DEF TreeInv, TreeTypes
<1>9. AliveIsStored' /\ OpsAreGood'
  BY <1>1 DEF TreeInv, AliveIsStored, OpsAreGood
<1>10. \A j \in Trees : ComingTo(j)' = ComingTo(j)
  BY <1>1, <1>3, <1>6 DEF ComingTo, q
<1>11. NothingMissed'
  BY <1>1, <1>7, <1>10 DEF TreeInv, NothingMissed, Owed
<1>12. QED
  BY <1>8, <1>9, <1>11 DEF TreeInv

-----------------------------------------------------------------------------
(* Requests: what they write, and the reload each of them still owes.       *)

LEMMA DirtyIs ==
  ASSUME NEW S, \A o \in S : GoodOp(o)
  PROVE  /\ \A o \in Dirty(S) : GoodOp(o)
         /\ \A j : (\E o \in S : Owes(o, j)) => \E o \in Dirty(S) : Owes(o, j)
<1>1. \A o \in S : LET c == [o EXCEPT !.clean = FALSE]
                   IN  c \in Dirty(S) /\ GoodOp(c) /\ c.next = o.next /\ c.tree = o.tree
  BY OpMoves DEF Dirty
<1>2. \A c \in Dirty(S) : \E o \in S : c = [o EXCEPT !.clean = FALSE]
  BY DEF Dirty
<1>3. \A o \in Dirty(S) : GoodOp(o)
  BY <1>1, <1>2
<1>4. ASSUME NEW j, NEW o \in S, Owes(o, j) PROVE \E c \in Dirty(S) : Owes(c, j)
  <2> DEFINE c == [o EXCEPT !.clean = FALSE]
  <2>1. c \in Dirty(S) /\ c.next = o.next /\ c.tree = o.tree
    BY <1>1
  <2> HIDE DEF c
  <2>2. Owes(c, j)
    BY <1>4, <2>1 DEF Owes
  <2>3. QED
    BY <2>1, <2>2
<1>5. QED
  BY <1>3, <1>4

(* A request that goes on as p owes no less. *)
LEMMA GoesOn ==
  ASSUME TreeInv, NEW o \in ops, NEW p, GoodOp(p),
         ops' = Rest(o) \cup {p} \/ ops' = (ops \ {o}) \cup {p},
         \A j \in Trees : Owes(o, j) => Owes(p, j)
  PROVE  OpsAreGood' /\ \A j \in Trees : Owed(j) \/ Owes(p, j) => Owed(j)'
<1> DEFINE S == ops \ {o}
<1>1. \A x \in S : GoodOp(x)
  BY DEF TreeInv, OpsAreGood
<1> HIDE DEF S
<1>2. /\ \A x \in Dirty(S) : GoodOp(x)
      /\ \A j : (\E x \in S : Owes(x, j)) => \E x \in Dirty(S) : Owes(x, j)
  BY <1>1, DirtyIs
<1>3. ops' = Dirty(S) \cup {p} \/ ops' = S \cup {p}
  BY DEF Rest, S
<1>4. OpsAreGood'
  BY <1>1, <1>2, <1>3 DEF OpsAreGood
<1>5. ASSUME NEW j \in Trees, Owed(j) \/ Owes(p, j) PROVE Owed(j)'
  <2>1. p \in ops'
    BY <1>3
  <2>2. CASE Owes(p, j)
    BY <2>1, <2>2 DEF Owed
  <2>3. CASE Owed(j)
    <3>1. PICK x \in ops : Owes(x, j)
      BY <2>3 DEF Owed
    <3>2. CASE x = o
      BY <2>1, <3>1, <3>2 DEF Owed
    <3>3. CASE x # o
      <4>1. x \in S
        BY <3>3 DEF S
      <4>2. QED
        BY <1>2, <1>3, <3>1, <4>1 DEF Owed
    <3>4. QED
      BY <3>2, <3>3
  <2>4. QED
    BY <1>5, <2>2, <2>3
<1>6. QED
  BY <1>4, <1>5

LEMMA Joins ==
  ASSUME TreeInv, NEW p, GoodOp(p), ops' = Dirty(ops) \cup {p}
  PROVE  OpsAreGood' /\ \A j \in Trees : Owed(j) \/ Owes(p, j) => Owed(j)'
<1>1. /\ \A x \in Dirty(ops) : GoodOp(x)
      /\ \A j : (\E x \in ops : Owes(x, j)) => \E x \in Dirty(ops) : Owes(x, j)
  <2>1. \A o \in ops : GoodOp(o)
    BY DEF TreeInv, OpsAreGood
  <2>2. QED
    BY <2>1, DirtyIs
<1>2. OpsAreGood'
  BY <1>1 DEF OpsAreGood
<1>3. \A j \in Trees : Owed(j) \/ Owes(p, j) => Owed(j)'
  BY <1>1 DEF Owed
<1>4. QED
  BY <1>2, <1>3

(* One tree is written; its reload is owed. *)
LEMMA TreeWritten ==
  ASSUME TreeInv, NEW k \in Trees,
         NEW order \in Seq(RowsOf(k)), Unique(order),
         NEW member, DOMAIN member = RowsOf(k), member = [t \in RowsOf(k) |-> member[t]],
         \A t \in RowsOf(k) : member[t] \in ToSet(groups) \cup {Ungrouped},
         recs' = [recs EXCEPT ![k] = [order |-> order, member |-> member]],
         UNCHANGED <<groups, kept, view, reads>>,
         ToSet(order) = alive' \cap RowsOf(k),
         \A j \in Trees \ {k} : alive' \cap RowsOf(j) = alive \cap RowsOf(j),
         alive' \cap Groups = alive \cap Groups,
         alive' \subseteq Tunnels \cup Consoles \cup Groups,
         OpsAreGood', Owed(k)', \A j \in Trees : Owed(j) => Owed(j)'
  PROVE  TreeInv'
<1>1. /\ recs = [j \in Trees |-> [order |-> recs[j].order, member |-> recs[j].member]]
      /\ DOMAIN kept = Trees /\ DOMAIN view = Trees /\ DOMAIN reads = Trees
      /\ \A j \in Trees : /\ Stored(j) \in Snapshots(j) /\ view[j] \in Snapshots(j)
                          /\ reads[j] \in Seq(Snapshots(j))
  BY DEF TreeInv, TreeTypes
<1>2. /\ recs'[k] = [order |-> order, member |-> member] /\ DOMAIN recs' = Trees
      /\ \A j \in Trees \ {k} : recs'[j] = recs[j]
  BY <1>1
<1>3. \A j \in Trees \ {k} : Stored(j)' = Stored(j)
  BY <1>2 DEF Stored
<1>4. Stored(k)' = [order |-> order, member |-> member, groups |-> groups, kept |-> kept[k]]
  BY <1>2 DEF Stored
<1>5. Stored(k)' \in Snapshots(k)
  <2>1. groups \in Seq(Groups) /\ Unique(groups) /\ kept[k] \subseteq Sections
    <3>1. Stored(k) \in Snapshots(k)
      BY <1>1
    <3>2. Stored(k).groups \in Seq(Groups) /\ Unique(Stored(k).groups) /\ Stored(k).kept \subseteq Sections
      BY <3>1, SnapshotsAre
    <3>3. QED
      BY <3>2, StoredIs
  <2> DEFINE gs == groups
             ks == kept[k]
  <2>2. gs \in Seq(Groups) /\ Unique(gs) /\ ks \subseteq Sections
        /\ \A t \in RowsOf(k) : member[t] \in ToSet(gs) \cup {Ungrouped}
    BY <2>1
  <2> HIDE DEF gs, ks
  <2>3. [order |-> order, member |-> member, groups |-> gs, kept |-> ks] \in Snapshots(k)
    BY <2>2, MakesSnapshot
  <2>4. QED
    BY <1>4, <2>3 DEF gs, ks
<1>6. recs' = [j \in Trees |-> [order |-> recs'[j].order, member |-> recs'[j].member]]
  <2>1. \A j \in Trees : recs'[j] = [order |-> recs'[j].order, member |-> recs'[j].member]
    BY <1>1, <1>2
  <2>2. recs' = [j \in Trees |-> recs'[j]]
    BY <1>1
  <2>3. QED
    BY <2>1, <2>2
<1>7. TreeTypes'
  <2>1. \A j \in Trees : Stored(j)' \in Snapshots(j)
    BY <1>1, <1>3, <1>5
  <2>2. QED
    BY <1>1, <1>6, <2>1 DEF TreeTypes
<1>8. AliveIsStored'
  <2>1. recs'[k].order = order
    BY <1>2
  <2>2. QED
    BY <1>2, <2>1 DEF TreeInv, AliveIsStored
<1>9. NothingMissed'
  BY <1>3 DEF TreeInv, NothingMissed, ComingTo
<1>10. QED
  BY <1>7, <1>8, <1>9 DEF TreeInv

(* The groups are written, and the members with them: every tree is owed. *)
LEMMA GroupsWritten ==
  ASSUME TreeInv, NEW gs \in Seq(Groups), Unique(gs), groups' = gs,
         UNCHANGED <<kept, view, reads>>,
         recs' = [k \in Trees |-> [order |-> recs[k].order, member |-> recs'[k].member]],
         \A k \in Trees : DOMAIN recs'[k].member = RowsOf(k),
         \A k \in Trees : recs'[k].member = [t \in RowsOf(k) |-> recs'[k].member[t]],
         \A k \in Trees : \A t \in RowsOf(k) : recs'[k].member[t] \in ToSet(gs) \cup {Ungrouped},
         ToSet(gs) = alive' \cap Groups,
         \A k \in Trees : alive' \cap RowsOf(k) = alive \cap RowsOf(k),
         alive' \subseteq Tunnels \cup Consoles \cup Groups,
         OpsAreGood', \A k \in Trees : Owed(k)'
  PROVE  TreeInv'
<1>1. /\ DOMAIN kept = Trees /\ DOMAIN view = Trees /\ DOMAIN reads = Trees
      /\ \A j \in Trees : /\ Stored(j) \in Snapshots(j) /\ view[j] \in Snapshots(j)
                          /\ reads[j] \in Seq(Snapshots(j))
  BY DEF TreeInv, TreeTypes
<1>2. \A k \in Trees : recs'[k].order = recs[k].order
  <2> DEFINE R == recs'
  <2>1. R = [k \in Trees |-> [order |-> recs[k].order, member |-> R[k].member]]
    OBVIOUS
  <2> HIDE DEF R
  <2>2. \A k \in Trees : R[k].order = recs[k].order
    BY <2>1
  <2>3. QED
    BY <2>2 DEF R
<1>3. ASSUME NEW k \in Trees PROVE Stored(k)' \in Snapshots(k)
  <2> DEFINE order == recs[k].order
             member == recs'[k].member
  <2>1. order \in Seq(RowsOf(k)) /\ Unique(order) /\ kept[k] \subseteq Sections
    BY <1>1, StoredIs, SnapshotsAre
  <2>2. Stored(k)' = [order |-> order, member |-> member, groups |-> gs, kept |-> kept[k]]
    BY <1>2 DEF Stored
  <2>3. DOMAIN member = RowsOf(k) /\ member = [t \in RowsOf(k) |-> member[t]]
        /\ \A t \in RowsOf(k) : member[t] \in ToSet(gs) \cup {Ungrouped}
    OBVIOUS
  <2> HIDE DEF order, member
  <2>4. [order |-> order, member |-> member, groups |-> gs, kept |-> kept[k]] \in Snapshots(k)
    BY <2>1, <2>3, MakesSnapshot
  <2>5. QED
    BY <2>2, <2>4
<1>4. TreeTypes'
  BY <1>1, <1>2, <1>3 DEF TreeTypes
<1>5. AliveIsStored'
  BY <1>2 DEF TreeInv, AliveIsStored
<1>6. QED
  BY <1>4, <1>5 DEF TreeInv, NothingMissed

(* A reload reads what is stored; what it owes is paid. *)
LEMMA Reloaded ==
  ASSUME TreeInv, NEW ks, ks \subseteq Trees, Reload(ks),
         UNCHANGED <<groups, recs, kept, view, alive>>,
         OpsAreGood', \A j \in Trees \ ks : Owed(j) => Owed(j)'
  PROVE  TreeInv'
<1>1. /\ DOMAIN kept = Trees /\ DOMAIN view = Trees /\ DOMAIN reads = Trees
      /\ \A j \in Trees : /\ Stored(j) \in Snapshots(j) /\ view[j] \in Snapshots(j)
                          /\ reads[j] \in Seq(Snapshots(j))
  BY DEF TreeInv, TreeTypes
<1>2. /\ DOMAIN reads' = Trees
      /\ \A j \in ks : reads'[j] = Append(reads[j], Stored(j))
      /\ \A j \in Trees \ ks : reads'[j] = reads[j]
  BY DEF Reload
<1>3. \A j \in Trees : Stored(j)' = Stored(j)
  BY DEF Stored
<1>4. ASSUME NEW j \in ks PROVE reads'[j] \in Seq(Snapshots(j)) /\ ComingTo(j)' = Stored(j)
  <2> DEFINE q == reads[j]
             x == Stored(j)
             Q == Snapshots(j)
  <2>1. q \in Seq(Q) /\ x \in Q /\ reads'[j] = Append(q, x)
    BY <1>1, <1>2
  <2> HIDE DEF q, x, Q
  <2>2. Append(q, x) \in Seq(Q) /\ Append(q, x) # <<>>
    BY <2>1
  <2>3. Append(q, x)[Len(Append(q, x))] = x
    BY <2>1
  <2>4. QED
    BY <2>1, <2>2, <2>3 DEF ComingTo, x, Q
<1>5. TreeTypes'
  BY <1>1, <1>2, <1>3, <1>4 DEF TreeInv, TreeTypes
<1>6. AliveIsStored'
  BY DEF TreeInv, AliveIsStored
<1>7. NothingMissed'
  <2>1. \A j \in ks : Alike(ComingTo(j)', Stored(j)')
    BY <1>3, <1>4 DEF Alike
  <2>2. \A j \in Trees \ ks : ComingTo(j)' = ComingTo(j)
    BY <1>2 DEF ComingTo
  <2>3. QED
    BY <1>3, <2>1, <2>2 DEF TreeInv, NothingMissed
<1>8. QED
  BY <1>5, <1>6, <1>7 DEF TreeInv

LEMMA RecsAre ==
  ASSUME TreeInv, NEW k \in Trees
  PROVE  /\ recs[k] = [order |-> recs[k].order, member |-> recs[k].member] /\ DOMAIN recs = Trees
         /\ recs[k].order \in Seq(RowsOf(k)) /\ Unique(recs[k].order)
         /\ DOMAIN recs[k].member = RowsOf(k)
         /\ recs[k].member = [t \in RowsOf(k) |-> recs[k].member[t]]
         /\ \A t \in RowsOf(k) : recs[k].member[t] \in ToSet(groups) \cup {Ungrouped}
         /\ groups \in Seq(Groups) /\ Unique(groups)
         /\ ToSet(recs[k].order) = alive \cap RowsOf(k) /\ ToSet(groups) = alive \cap Groups
         /\ alive \subseteq Tunnels \cup Consoles \cup Groups
<1>1. Stored(k) \in Snapshots(k)
      /\ recs = [j \in Trees |-> [order |-> recs[j].order, member |-> recs[j].member]]
  BY DEF TreeInv, TreeTypes
<1> DEFINE v == Stored(k)
<1>2. /\ v.order \in Seq(RowsOf(k)) /\ Unique(v.order)
      /\ v.member \in [RowsOf(k) -> Sections]
      /\ v.groups \in Seq(Groups) /\ Unique(v.groups)
      /\ \A t \in RowsOf(k) : v.member[t] \in ToSet(v.groups) \cup {Ungrouped}
  <2> HIDE DEF v
  <2>1. v \in Snapshots(k)
    BY <1>1 DEF v
  <2>2. QED
    BY <2>1, SnapshotsAre
<1>3. v.order = recs[k].order /\ v.member = recs[k].member /\ v.groups = groups
  BY StoredIs
<1> HIDE DEF v
<1>4. recs[k].member \in [RowsOf(k) -> Sections]
  BY <1>2, <1>3
<1>5. recs[k] = [order |-> recs[k].order, member |-> recs[k].member] /\ DOMAIN recs = Trees
  <2> DEFINE R == recs
  <2>1. R = [j \in Trees |-> [order |-> R[j].order, member |-> R[j].member]]
    BY <1>1
  <2> HIDE DEF R
  <2>2. R[k] = [order |-> R[k].order, member |-> R[k].member] /\ DOMAIN R = Trees
    BY <2>1
  <2>3. QED
    BY <2>2 DEF R
<1>6. QED
  BY <1>2, <1>3, <1>4, <1>5 DEF TreeInv, AliveIsStored

LEMMA Regrouped ==
  ASSUME TreeInv, NEW o \in ops, NEW t, CanUpdate(o, t), Regroup(o, t),
         UNCHANGED <<groups, kept, view, reads, alive>>,
         OpsAreGood', Owed(o.tree)', \A j \in Trees : Owed(j) => Owed(j)'
  PROVE  TreeInv'
<1> DEFINE k == o.tree
           order == recs[k].order
           old == recs[k].member
           member == [old EXCEPT ![t] = o.to]
<1>1. k \in Trees
  BY DEF TreeInv, OpsAreGood, GoodOp
<1> HIDE DEF k
<1>2. /\ recs[k] = [order |-> order, member |-> old] /\ DOMAIN recs = Trees
      /\ order \in Seq(RowsOf(k)) /\ Unique(order)
      /\ DOMAIN old = RowsOf(k) /\ old = [x \in RowsOf(k) |-> old[x]]
      /\ \A x \in RowsOf(k) : old[x] \in ToSet(groups) \cup {Ungrouped}
      /\ ToSet(order) = alive \cap RowsOf(k)
      /\ alive \subseteq Tunnels \cup Consoles \cup Groups
  BY <1>1, RecsAre
<1>3. t \in ToSet(order) /\ o.to \in ToSet(groups) \cup {Ungrouped}
  BY DEF CanUpdate, k
<1>4. t \in RowsOf(k)
  BY <1>2, <1>3
<1>5. recs' = [recs EXCEPT ![k] = [order |-> order, member |-> member]]
  <2>1. recs' = [recs EXCEPT ![k] = [recs[k] EXCEPT !.member = member]]
    BY DEF Regroup, k
  <2>2. [recs[k] EXCEPT !.member = member] = [order |-> order, member |-> member]
    <3> HIDE DEF order, old, member
    <3>1. QED
      BY <1>2
  <2>3. QED
    BY <2>1, <2>2
<1>6. DOMAIN member = RowsOf(k) /\ member = [x \in RowsOf(k) |-> member[x]]
      /\ \A x \in RowsOf(k) : member[x] \in ToSet(groups) \cup {Ungrouped}
  <2> HIDE DEF old
  <2>1. QED
    BY <1>2, <1>3, <1>4
<1> HIDE DEF order, member
<1>7. Owed(k)'
  BY DEF k
<1>8. QED
  BY <1>1, <1>2, <1>5, <1>6, <1>7, TreeWritten

LEMMA RequestRefused ==
  ASSUME TreeInv, NEW o \in ops, ops' = ops \ {o}, \A j \in Trees : ~Owes(o, j),
         UNCHANGED <<groups, recs, kept, view, reads, alive>>
  PROVE  TreeInv'
<1>1. TreeTypes'
  BY DEF TreeInv, TreeTypes, Stored
<1>2. AliveIsStored' /\ OpsAreGood'
  BY DEF TreeInv, AliveIsStored, OpsAreGood
<1>3. \A k \in Trees : Owed(k) => Owed(k)'
  BY DEF Owed
<1>4. NothingMissed'
  BY <1>3 DEF TreeInv, NothingMissed, ComingTo, Stored
<1>5. QED
  BY <1>1, <1>2, <1>4 DEF TreeInv

LEMMA KeptByServeMove ==
  ASSUME TreeInv
  PROVE  ServeMoveUpdate \/ ServeMoveReorder \/ ServeMoveLoad => TreeInv'
<1>1. \A o \in ops : GoodOp(o)
  BY DEF TreeInv, OpsAreGood
<1>2. ASSUME ServeMoveUpdate PROVE TreeInv'
  <2>1. PICK o \in ops :
          /\ o.next = "update"
          /\ \/ /\ CanUpdate(o, o.row) /\ Regroup(o, o.row)
                /\ ops' = Rest(o) \cup {[o EXCEPT !.next = "reorder"]}
             \/ /\ ~CanUpdate(o, o.row) /\ ops' = ops \ {o} /\ UNCHANGED recs
          /\ UNCHANGED <<groups, kept, view, reads, alive>>
    BY <1>2 DEF ServeMoveUpdate
  <2> DEFINE p == [o EXCEPT !.next = "reorder"]
  <2>2. \A j \in Trees : ~Owes(o, j)
    BY <2>1 DEF Owes
  <2>3. CASE CanUpdate(o, o.row)
    <3>1. GoodOp(p) /\ p.next = "reorder" /\ p.tree = o.tree
      BY <1>1, <2>1, OpMoves
    <3>2. Regroup(o, o.row) /\ ops' = Rest(o) \cup {p}
      BY <2>1, <2>3
    <3> HIDE DEF p
    <3>3. OpsAreGood' /\ \A j \in Trees : Owed(j) \/ Owes(p, j) => Owed(j)'
      BY <2>2, <3>1, <3>2, GoesOn
    <3>4. o.tree \in Trees /\ Owes(p, o.tree)
      BY <1>1, <3>1 DEF Owes, GoodOp
    <3>5. QED
      BY <2>1, <2>3, <3>2, <3>3, <3>4, Regrouped
  <2>4. CASE ~CanUpdate(o, o.row)
    BY <2>1, <2>2, <2>4, RequestRefused
  <2>5. QED
    BY <2>3, <2>4
<1>3. ASSUME ServeMoveReorder PROVE TreeInv'
  <2>1. PICK o \in ops :
          /\ o.next = "reorder"
          /\ recs' = [recs EXCEPT ![o.tree].order = Reordered(@, o.list)]
          /\ ops' = Rest(o) \cup {[o EXCEPT !.next = "landed"]}
          /\ UNCHANGED <<groups, kept, view, reads, alive>>
    BY <1>3 DEF ServeMoveReorder
  <2> DEFINE p == [o EXCEPT !.next = "landed"]
             k == o.tree
             old == recs[k].order
             member == recs[k].member
             order == Reordered(old, o.list)
  <2>2. GoodOp(p) /\ p.next = "landed" /\ p.tree = k
    BY <1>1, OpMoves
  <2>3. k \in Trees /\ o.list \in Seq(RowsOf(k)) /\ Unique(o.list)
    BY <1>1, <2>1 DEF GoodOp
  <2>4. recs' = [recs EXCEPT ![k] = [recs[k] EXCEPT !.order = order]] /\ ops' = Rest(o) \cup {p}
    BY <2>1
  <2>5. \A j \in Trees : Owes(o, j) => Owes(p, j)
    BY <2>1, <2>2 DEF Owes
  <2> HIDE DEF p
  <2>6. OpsAreGood' /\ \A j \in Trees : Owed(j) \/ Owes(p, j) => Owed(j)'
    BY <2>2, <2>4, <2>5, GoesOn
  <2>7. Owed(k)'
    BY <2>2, <2>3, <2>6 DEF Owes
  <2> HIDE DEF k
  <2>8. /\ recs[k] = [order |-> old, member |-> member] /\ DOMAIN recs = Trees
        /\ old \in Seq(RowsOf(k)) /\ Unique(old)
        /\ DOMAIN member = RowsOf(k) /\ member = [x \in RowsOf(k) |-> member[x]]
        /\ \A x \in RowsOf(k) : member[x] \in ToSet(groups) \cup {Ungrouped}
        /\ ToSet(old) = alive \cap RowsOf(k)
        /\ alive \subseteq Tunnels \cup Consoles \cup Groups
    BY <2>3, RecsAre
  <2> HIDE DEF old, member
  <2>9. order \in Seq(RowsOf(k)) /\ Unique(order) /\ ToSet(order) = ToSet(old)
    BY <2>3, <2>8, ReorderedIs
  <2> HIDE DEF order
  <2>10. recs' = [recs EXCEPT ![k] = [order |-> order, member |-> member]]
    <3>1. [recs[k] EXCEPT !.order = order] = [order |-> order, member |-> member]
      BY <2>8
    <3>2. QED
      BY <2>4, <3>1
  <2>11. UNCHANGED <<groups, kept, view, reads, alive>>
    BY <2>1
  <2>12. QED
    BY <2>3, <2>6, <2>7, <2>8, <2>9, <2>10, <2>11, TreeWritten
<1>4. ASSUME ServeMoveLoad PROVE TreeInv'
  <2>1. PICK o \in ops : /\ o.next = "landed" /\ ops' = ops \ {o} /\ Reload({o.tree})
                         /\ UNCHANGED <<groups, recs, kept, view, alive>>
    BY <1>4 DEF ServeMoveLoad
  <2>2. OpsAreGood' /\ {o.tree} \subseteq Trees
    BY <1>1, <2>1 DEF OpsAreGood, GoodOp
  <2>3. \A j \in Trees \ {o.tree} : Owed(j) => Owed(j)'
    BY <2>1 DEF Owed, Owes
  <2>4. QED
    BY <2>1, <2>2, <2>3, Reloaded
<1>5. QED
  BY <1>2, <1>3, <1>4

LEMMA KeptByServeAssign ==
  ASSUME TreeInv, ServeAssign
  PROVE  TreeInv'
<1>1. PICK o \in ops :
        /\ o.next = "assign"
        /\ IF o.ids = {}
           THEN ops' = ops \ {o} /\ Reload({o.tree}) /\ UNCHANGED recs
           ELSE \E t \in o.ids :
                  /\ IF CanUpdate(o, t) THEN Regroup(o, t) ELSE UNCHANGED recs
                  /\ ops' = Rest(o) \cup {[o EXCEPT !.ids = @ \ {t}]}
                  /\ UNCHANGED reads
        /\ UNCHANGED <<groups, kept, view, alive>>
  BY DEF ServeAssign
<1>2. GoodOp(o) /\ o.tree \in Trees
  BY DEF TreeInv, OpsAreGood, GoodOp
<1>3. CASE o.ids = {}
  <2>1. ops' = ops \ {o} /\ Reload({o.tree}) /\ UNCHANGED recs
    BY <1>1, <1>3
  <2>2. OpsAreGood'
    BY <2>1 DEF TreeInv, OpsAreGood
  <2>3. \A j \in Trees \ {o.tree} : Owed(j) => Owed(j)'
    BY <1>1, <2>1 DEF Owed, Owes
  <2>4. {o.tree} \subseteq Trees
    BY <1>2
  <2>5. QED
    BY <1>1, <2>1, <2>2, <2>3, <2>4, Reloaded
<1>4. CASE o.ids # {}
  <2>1. PICK t \in o.ids :
          /\ IF CanUpdate(o, t) THEN Regroup(o, t) ELSE UNCHANGED recs
          /\ ops' = Rest(o) \cup {[o EXCEPT !.ids = o.ids \ {t}]}
          /\ UNCHANGED reads
    BY <1>1, <1>4
  <2> DEFINE p == [o EXCEPT !.ids = o.ids \ {t}]
  <2>2. GoodOp(p) /\ p.next = o.next /\ p.tree = o.tree
    BY <1>2, OpMoves
  <2>3. ops' = Rest(o) \cup {p}
    BY <2>1
  <2> HIDE DEF p
  <2>4. \A j \in Trees : Owes(o, j) => Owes(p, j)
    BY <2>2 DEF Owes
  <2>5. OpsAreGood' /\ \A j \in Trees : Owed(j) \/ Owes(p, j) => Owed(j)'
    BY <2>2, <2>3, <2>4, GoesOn
  <2>6. Owed(o.tree)'
    BY <1>1, <1>2, <2>2, <2>5 DEF Owes
  <2>7. CASE CanUpdate(o, t)
    <3>1. Regroup(o, t) /\ UNCHANGED <<groups, kept, view, reads, alive>>
      BY <1>1, <2>1, <2>7
    <3>2. QED
      BY <2>5, <2>6, <2>7, <3>1, Regrouped
  <2>8. CASE ~CanUpdate(o, t)
    <3>1. UNCHANGED <<groups, recs, kept, view, reads, alive>>
      BY <1>1, <2>1, <2>8
    <3>2. TreeTypes' /\ AliveIsStored'
      BY <3>1 DEF TreeInv, TreeTypes, AliveIsStored, Stored
    <3>3. NothingMissed'
      BY <2>5, <3>1 DEF TreeInv, NothingMissed, ComingTo, Stored
    <3>4. QED
      BY <2>5, <3>2, <3>3 DEF TreeInv
  <2>9. QED
    BY <2>7, <2>8
<1>5. QED
  BY <1>3, <1>4

(* The groups are written, no record with them. *)
LEMMA GroupsListed ==
  ASSUME TreeInv, NEW gs \in Seq(Groups), Unique(gs), groups' = gs, ToSet(groups) \subseteq ToSet(gs),
         UNCHANGED <<recs, kept, view, reads>>,
         ToSet(gs) = alive' \cap Groups,
         \A k \in Trees : alive' \cap RowsOf(k) = alive \cap RowsOf(k),
         alive' \subseteq Tunnels \cup Consoles \cup Groups,
         OpsAreGood', \A k \in Trees : Owed(k)'
  PROVE  TreeInv'
<1>1. recs = [k \in Trees |-> [order |-> recs[k].order, member |-> recs[k].member]]
  BY DEF TreeInv, TreeTypes
<1>2. \A k \in Trees : /\ DOMAIN recs[k].member = RowsOf(k)
                       /\ recs[k].member = [t \in RowsOf(k) |-> recs[k].member[t]]
                       /\ \A t \in RowsOf(k) : recs[k].member[t] \in ToSet(groups) \cup {Ungrouped}
  BY RecsAre
<1>3. \A k \in Trees : \A t \in RowsOf(k) : recs[k].member[t] \in ToSet(gs) \cup {Ungrouped}
  BY <1>2
<1>4. recs' = [k \in Trees |-> [order |-> recs[k].order, member |-> recs'[k].member]]
  BY <1>1
<1>5. /\ \A k \in Trees : DOMAIN recs'[k].member = RowsOf(k)
      /\ \A k \in Trees : recs'[k].member = [t \in RowsOf(k) |-> recs'[k].member[t]]
      /\ \A k \in Trees : \A t \in RowsOf(k) : recs'[k].member[t] \in ToSet(gs) \cup {Ungrouped}
  BY <1>2, <1>3
<1>6. QED
  BY <1>4, <1>5, GroupsWritten

LEMMA KeptByServeGroups ==
  ASSUME TreeInv, ServeGroups
  PROVE  TreeInv'
<1>1. PICK o \in ops :
        /\ o.next = "groups" /\ groups' = Reordered(groups, o.list)
        /\ ops' = Rest(o) \cup {[o EXCEPT !.next = "announce"]}
        /\ UNCHANGED <<recs, kept, view, reads, alive>>
  BY DEF ServeGroups
<1> DEFINE p == [o EXCEPT !.next = "announce"]
           gs == Reordered(groups, o.list)
<1>2. GoodOp(o)
  BY DEF TreeInv, OpsAreGood
<1>3. GoodOp(p) /\ p.next = "announce"
  BY <1>2, OpMoves
<1>4. ops' = Rest(o) \cup {p}
  BY <1>1
<1> HIDE DEF p
<1>5. OpsAreGood' /\ \A k \in Trees : Owed(k)'
  <2>1. \A j \in Trees : Owes(p, j)
    BY <1>3 DEF Owes
  <2>2. QED
    BY <1>3, <1>4, <2>1, GoesOn
<1>6. /\ groups \in Seq(Groups) /\ Unique(groups) /\ ToSet(groups) = alive \cap Groups
      /\ alive \subseteq Tunnels \cup Consoles \cup Groups
  BY RecsAre DEF Trees
<1>7. o.list \in Seq(Groups) /\ Unique(o.list)
  BY <1>1, <1>2 DEF GoodOp
<1>8. gs \in Seq(Groups) /\ Unique(gs) /\ ToSet(gs) = ToSet(groups)
  BY <1>6, <1>7, ReorderedIs
<1>9. groups' = gs /\ UNCHANGED <<recs, kept, view, reads, alive>>
  BY <1>1
<1> HIDE DEF gs
<1>10. QED
  BY <1>5, <1>6, <1>8, <1>9, GroupsListed

LEMMA KeptByServeDelete ==
  ASSUME TreeInv, ServeDelete
  PROVE  TreeInv'
<1>1. PICK o \in ops :
        /\ o.next = "delete"
        /\ IF o.to \in ToSet(groups)
           THEN /\ groups' = Without(groups, o.to)
                /\ recs' = [k \in Trees |-> [recs[k] EXCEPT !.member =
                     [t \in DOMAIN recs[k].member |->
                        IF recs[k].member[t] = o.to THEN Ungrouped ELSE recs[k].member[t]]]]
                /\ alive' = alive \ {o.to}
                /\ ops' = Rest(o) \cup {[o EXCEPT !.next = "announce"]}
           ELSE ops' = ops \ {o} /\ UNCHANGED <<groups, recs, alive>>
        /\ UNCHANGED <<kept, view, reads>>
  BY DEF ServeDelete
<1>2. GoodOp(o)
  BY DEF TreeInv, OpsAreGood
<1>3. CASE o.to \notin ToSet(groups)
  <2>1. \A j \in Trees : ~Owes(o, j)
    BY <1>1 DEF Owes
  <2>2. ops' = ops \ {o} /\ UNCHANGED <<groups, recs, kept, view, reads, alive>>
    BY <1>1, <1>3
  <2>3. QED
    BY <2>1, <2>2, RequestRefused
<1>4. CASE o.to \in ToSet(groups)
  <2> DEFINE p == [o EXCEPT !.next = "announce"]
             gs == Without(groups, o.to)
             Out(k) == [t \in RowsOf(k) |->
                          IF recs[k].member[t] = o.to THEN Ungrouped ELSE recs[k].member[t]]
  <2>1. GoodOp(p) /\ p.next = "announce"
    BY <1>2, OpMoves
  <2>2. /\ ops' = Rest(o) \cup {p} /\ groups' = gs /\ alive' = alive \ {o.to}
        /\ UNCHANGED <<kept, view, reads>>
    BY <1>1, <1>4
  <2> HIDE DEF p
  <2>3. OpsAreGood' /\ \A k \in Trees : Owed(k)'
    <3>1. \A j \in Trees : Owes(p, j)
      BY <2>1 DEF Owes
    <3>2. QED
      BY <2>1, <2>2, <3>1, GoesOn
  <2>4. /\ groups \in Seq(Groups) /\ Unique(groups) /\ ToSet(groups) = alive \cap Groups
        /\ alive \subseteq Tunnels \cup Consoles \cup Groups
    BY RecsAre DEF Trees
  <2>5. gs \in Seq(Groups) /\ Unique(gs) /\ ToSet(gs) = ToSet(groups) \ {o.to}
    BY <2>4, WithoutIs
  <2> HIDE DEF gs
  <2>6. ToSet(gs) = alive' \cap Groups /\ alive' \subseteq Tunnels \cup Consoles \cup Groups
    BY <2>2, <2>4, <2>5
  <2>7. \A k \in Trees : alive' \cap RowsOf(k) = alive \cap RowsOf(k)
    BY <1>4, <2>2, <2>4, TreeAssumption DEF RowsOf
  <2>8. \A k \in Trees : /\ recs[k] = [order |-> recs[k].order, member |-> recs[k].member]
                         /\ DOMAIN recs[k].member = RowsOf(k)
                         /\ \A t \in RowsOf(k) : recs[k].member[t] \in ToSet(groups) \cup {Ungrouped}
    BY RecsAre
  <2>9. recs' = [k \in Trees |-> [recs[k] EXCEPT !.member = Out(k)]]
    BY <1>1, <1>4, <2>8
  <2>10. ASSUME NEW k \in Trees
         PROVE  /\ recs'[k].member = Out(k)
                /\ recs'[k] = [order |-> recs[k].order, member |-> recs'[k].member]
    <3> DEFINE r == recs[k]
               m == Out(k)
    <3>1. r = [order |-> r.order, member |-> r.member]
      BY <2>8
    <3>2. recs'[k] = [r EXCEPT !.member = m]
      BY <2>9
    <3> HIDE DEF r, m
    <3>3. recs'[k] = [order |-> r.order, member |-> m]
      BY <3>1, <3>2
    <3>4. QED
      BY <3>3 DEF r, m
  <2>11. recs' = [k \in Trees |-> [order |-> recs[k].order, member |-> recs'[k].member]]
    <3>1. recs' = [k \in Trees |-> recs'[k]]
      BY <2>9
    <3>2. QED
      BY <2>10, <3>1
  <2>12. \A k \in Trees : \A t \in RowsOf(k) : Out(k)[t] \in ToSet(gs) \cup {Ungrouped}
    BY <2>5, <2>8
  <2>13. \A k \in Trees : DOMAIN Out(k) = RowsOf(k) /\ Out(k) = [t \in RowsOf(k) |-> Out(k)[t]]
    OBVIOUS
  <2> HIDE DEF Out
  <2>14. /\ \A k \in Trees : DOMAIN recs'[k].member = RowsOf(k)
         /\ \A k \in Trees : recs'[k].member = [t \in RowsOf(k) |-> recs'[k].member[t]]
         /\ \A k \in Trees : \A t \in RowsOf(k) : recs'[k].member[t] \in ToSet(gs) \cup {Ungrouped}
    BY <2>10, <2>12, <2>13
  <2>15. QED
    BY <2>2, <2>3, <2>5, <2>6, <2>7, <2>11, <2>14, GroupsWritten
<1>5. QED
  BY <1>3, <1>4

LEMMA KeptByAnnounce ==
  ASSUME TreeInv, Announce
  PROVE  TreeInv'
<1>1. PICK o \in ops : /\ ops' = ops \ {o} /\ Reload(Trees)
                       /\ UNCHANGED <<groups, recs, kept, view, alive>>
  BY DEF Announce
<1>2. OpsAreGood'
  BY <1>1 DEF TreeInv, OpsAreGood
<1>3. QED
  BY <1>1, <1>2, Reloaded

(* A group that was created names itself. *)
LEMMA OpSaved ==
  ASSUME NEW o, GoodOp(o), NEW g
  PROVE  /\ GoodOp([o EXCEPT !.next = "saved", !.to = g])
         /\ [o EXCEPT !.next = "saved", !.to = g].next = "saved"
<1> DEFINE n == [o EXCEPT !.next = "saved"]
           t == [n EXCEPT !.to = g]
<1>1. DOMAIN n = OpFields /\ n.tree = o.tree /\ n.next = "saved" /\ n.list = o.list
  BY DEF GoodOp, OpFields
<1> HIDE DEF n
<1>2. DOMAIN t = OpFields /\ t.tree = o.tree /\ t.next = "saved" /\ t.list = o.list
  BY <1>1 DEF OpFields
<1> HIDE DEF t
<1>3. GoodOp(t)
  BY <1>1, <1>2 DEF GoodOp
<1>4. QED
  BY <1>2, <1>3 DEF n, t

LEMMA KeptByServeSave ==
  ASSUME TreeInv, ServeSave
  PROVE  TreeInv'
<1>1. PICK o \in ops :
        /\ o.next = "save"
        /\ IF o.to = Ungrouped
           THEN \E g \in Groups \ (alive \cup gone) :
                  /\ groups' = Append(groups, g) /\ alive' = alive \cup {g}
                  /\ ops' = Rest(o) \cup {[o EXCEPT !.next = "saved", !.to = g]}
           ELSE /\ ops' = (ops \ {o}) \cup IF o.to \in ToSet(groups)
                            THEN {[o EXCEPT !.next = "saved"]} ELSE {}
                /\ UNCHANGED <<groups, alive>>
        /\ UNCHANGED <<recs, kept, view, reads>>
  BY DEF ServeSave
<1>2. GoodOp(o) /\ \A j \in Trees : ~Owes(o, j)
  BY <1>1 DEF TreeInv, OpsAreGood, Owes
<1>3. CASE o.to = Ungrouped
  <2>1. PICK g \in Groups \ (alive \cup gone) :
          /\ groups' = Append(groups, g) /\ alive' = alive \cup {g}
          /\ ops' = Rest(o) \cup {[o EXCEPT !.next = "saved", !.to = g]}
    BY <1>1, <1>3
  <2> DEFINE p == [o EXCEPT !.next = "saved", !.to = g]
             gs == Append(groups, g)
  <2>2. GoodOp(p) /\ p.next = "saved"
    BY <1>2, OpSaved
  <2>3. ops' = Rest(o) \cup {p}
    BY <2>1
  <2> HIDE DEF p
  <2>4. OpsAreGood' /\ \A k \in Trees : Owed(k)'
    <3>1. \A j \in Trees : Owes(p, j)
      BY <2>2 DEF Owes
    <3>2. QED
      BY <2>2, <2>3, <3>1, GoesOn
  <2>5. /\ groups \in Seq(Groups) /\ Unique(groups) /\ ToSet(groups) = alive \cap Groups
        /\ alive \subseteq Tunnels \cup Consoles \cup Groups
    BY RecsAre DEF Trees
  <2>6. gs \in Seq(Groups) /\ Unique(gs) /\ ToSet(gs) = ToSet(groups) \cup {g}
    BY <2>5, AppendIs
  <2> HIDE DEF gs
  <2>7. ToSet(gs) = alive' \cap Groups /\ alive' \subseteq Tunnels \cup Consoles \cup Groups
    BY <2>1, <2>5, <2>6
  <2>8. \A k \in Trees : alive' \cap RowsOf(k) = alive \cap RowsOf(k)
    BY <2>1, TreeAssumption DEF RowsOf
  <2>9. groups' = gs /\ ToSet(groups) \subseteq ToSet(gs)
    BY <2>1, <2>6 DEF gs
  <2>10. QED
    BY <1>1, <2>4, <2>6, <2>7, <2>8, <2>9, GroupsListed
<1>4. CASE o.to # Ungrouped /\ o.to \in ToSet(groups)
  <2> DEFINE p == [o EXCEPT !.next = "saved"]
  <2>1. GoodOp(p)
    BY <1>2, OpMoves
  <2>2. ops' = (ops \ {o}) \cup {p} /\ UNCHANGED <<groups, recs, kept, view, reads, alive>>
    BY <1>1, <1>4
  <2> HIDE DEF p
  <2>3. OpsAreGood' /\ \A j \in Trees : Owed(j) => Owed(j)'
    BY <1>2, <2>1, <2>2, GoesOn
  <2>4. TreeTypes' /\ AliveIsStored'
    BY <2>2 DEF TreeInv, TreeTypes, AliveIsStored, Stored
  <2>5. NothingMissed'
    BY <2>2, <2>3 DEF TreeInv, NothingMissed, ComingTo, Stored
  <2>6. QED
    BY <2>3, <2>4, <2>5 DEF TreeInv
<1>5. CASE o.to # Ungrouped /\ o.to \notin ToSet(groups)
  <2>1. ops' = ops \ {o} /\ UNCHANGED <<groups, recs, kept, view, reads, alive>>
    BY <1>1, <1>5
  <2>2. QED
    BY <1>2, <2>1, RequestRefused
<1>6. QED
  BY <1>3, <1>4, <1>5

LEMMA KeptByGroupSaved ==
  ASSUME TreeInv, GroupSaved
  PROVE  TreeInv'
<1>1. PICK o \in ops :
        /\ o.next = "saved"
        /\ ops' = (ops \ {o}) \cup
             IF edit[o.tree].pending = {} THEN {}
             ELSE {[o EXCEPT !.next = "assign",
                             !.ids = edit[o.tree].pending \cap ToSet(view[o.tree].order)]}
        /\ Reload(Trees)
        /\ UNCHANGED <<groups, recs, kept, view, alive>>
  BY DEF GroupSaved
<1> DEFINE S == edit[o.tree].pending \cap ToSet(view[o.tree].order)
           p == [o EXCEPT !.next = "assign", !.ids = S]
<1>2. \A x \in ops : GoodOp(x)
  BY DEF TreeInv, OpsAreGood
<1>3. ops' \subseteq (ops \ {o}) \cup {p}
  BY <1>1
<1> HIDE DEF S
<1>4. GoodOp(p)
  BY <1>2, OpMoves
<1> HIDE DEF p
<1>5. OpsAreGood'
  BY <1>2, <1>3, <1>4 DEF OpsAreGood
<1>6. QED
  BY <1>1, <1>5, Reloaded

LEMMA KeptByNewRow ==
  ASSUME TreeInv, NEW k \in Trees, NewRow(k)
  PROVE  TreeInv'
<1> DEFINE order == recs[k].order
           member == recs[k].member
           p == Op(k, "landed")
<1>1. PICK t \in DOMAIN member \ (alive \cup gone) :
        recs' = [recs EXCEPT ![k] = [recs[k] EXCEPT !.order = Append(order, t)]]
        /\ alive' = alive \cup {t}
  BY DEF NewRow
<1>2. ops' = Dirty(ops) \cup {p} /\ UNCHANGED <<groups, kept, view, reads>>
  BY DEF NewRow
<1>3. /\ recs[k] = [order |-> order, member |-> member] /\ DOMAIN recs = Trees
      /\ order \in Seq(RowsOf(k)) /\ Unique(order)
      /\ DOMAIN member = RowsOf(k) /\ member = [x \in RowsOf(k) |-> member[x]]
      /\ \A x \in RowsOf(k) : member[x] \in ToSet(groups) \cup {Ungrouped}
      /\ ToSet(order) = alive \cap RowsOf(k)
      /\ alive \subseteq Tunnels \cup Consoles \cup Groups
  BY RecsAre
<1>4. GoodOp(p) /\ p.tree = k /\ p.next = "landed"
  BY OpGood, OpIs
<1> HIDE DEF order, member, p
<1>5. OpsAreGood' /\ (\A j \in Trees : Owed(j) => Owed(j)') /\ Owed(k)'
  <2>1. Owes(p, k)
    BY <1>4 DEF Owes
  <2>2. OpsAreGood' /\ \A j \in Trees : Owed(j) \/ Owes(p, j) => Owed(j)'
    BY <1>2, <1>4, Joins
  <2>3. QED
    BY <2>1, <2>2
<1> DEFINE now == Append(order, t)
<1>6. t \in RowsOf(k) /\ t \notin alive
  BY <1>1, <1>3
<1>7. now \in Seq(RowsOf(k)) /\ Unique(now) /\ ToSet(now) = ToSet(order) \cup {t}
  BY <1>3, <1>6, AppendIs
<1>8. recs' = [recs EXCEPT ![k] = [order |-> now, member |-> member]]
  <2>1. recs' = [recs EXCEPT ![k] = [recs[k] EXCEPT !.order = now]]
    BY <1>1
  <2> HIDE DEF now
  <2>2. [recs[k] EXCEPT !.order = now] = [order |-> now, member |-> member]
    BY <1>3
  <2>3. QED
    BY <2>1, <2>2
<1> HIDE DEF now
<1>9. /\ ToSet(now) = alive' \cap RowsOf(k) /\ alive' \cap Groups = alive \cap Groups
      /\ \A j \in Trees \ {k} : alive' \cap RowsOf(j) = alive \cap RowsOf(j)
      /\ alive' \subseteq Tunnels \cup Consoles \cup Groups
  BY <1>1, <1>3, <1>6, <1>7, TreeAssumption DEF RowsOf, Trees
<1>10. QED
  BY <1>2, <1>3, <1>5, <1>7, <1>8, <1>9, TreeWritten

LEMMA KeptByDeleteRow ==
  ASSUME TreeInv, NEW k \in Trees, DeleteRow(k)
  PROVE  TreeInv'
<1> DEFINE order == recs[k].order
           member == recs[k].member
           p == Op(k, "landed")
<1>1. PICK t \in ToSet(view[k].order) \cap ToSet(order) :
        recs' = [recs EXCEPT ![k] = [recs[k] EXCEPT !.order = Without(order, t)]]
        /\ alive' = alive \ {t}
  BY DEF DeleteRow
<1>2. ops' = Dirty(ops) \cup {p} /\ UNCHANGED <<groups, kept, view, reads>>
  BY DEF DeleteRow
<1>3. /\ recs[k] = [order |-> order, member |-> member] /\ DOMAIN recs = Trees
      /\ order \in Seq(RowsOf(k)) /\ Unique(order)
      /\ DOMAIN member = RowsOf(k) /\ member = [x \in RowsOf(k) |-> member[x]]
      /\ \A x \in RowsOf(k) : member[x] \in ToSet(groups) \cup {Ungrouped}
      /\ ToSet(order) = alive \cap RowsOf(k)
      /\ alive \subseteq Tunnels \cup Consoles \cup Groups
  BY RecsAre
<1>4. GoodOp(p) /\ p.tree = k /\ p.next = "landed"
  BY OpGood, OpIs
<1> HIDE DEF order, member, p
<1>5. OpsAreGood' /\ (\A j \in Trees : Owed(j) => Owed(j)') /\ Owed(k)'
  <2>1. Owes(p, k)
    BY <1>4 DEF Owes
  <2>2. OpsAreGood' /\ \A j \in Trees : Owed(j) \/ Owes(p, j) => Owed(j)'
    BY <1>2, <1>4, Joins
  <2>3. QED
    BY <2>1, <2>2
<1> DEFINE now == Without(order, t)
<1>6. t \in RowsOf(k)
  BY <1>1, <1>3
<1>7. now \in Seq(RowsOf(k)) /\ Unique(now) /\ ToSet(now) = ToSet(order) \ {t}
  BY <1>3, WithoutIs
<1>8. recs' = [recs EXCEPT ![k] = [order |-> now, member |-> member]]
  <2>1. recs' = [recs EXCEPT ![k] = [recs[k] EXCEPT !.order = now]]
    BY <1>1
  <2> HIDE DEF now
  <2>2. [recs[k] EXCEPT !.order = now] = [order |-> now, member |-> member]
    BY <1>3
  <2>3. QED
    BY <2>1, <2>2
<1> HIDE DEF now
<1>9. /\ ToSet(now) = alive' \cap RowsOf(k) /\ alive' \cap Groups = alive \cap Groups
      /\ \A j \in Trees \ {k} : alive' \cap RowsOf(j) = alive \cap RowsOf(j)
      /\ alive' \subseteq Tunnels \cup Consoles \cup Groups
  BY <1>1, <1>3, <1>6, <1>7, TreeAssumption DEF RowsOf, Trees
<1>10. QED
  BY <1>2, <1>3, <1>5, <1>7, <1>8, <1>9, TreeWritten

LEMMA TreeSteps == TreeInv /\ [TreeNext]_treeVars => TreeInv'
<1> SUFFICES ASSUME TreeInv, [TreeNext]_treeVars PROVE TreeInv'
  OBVIOUS
<1>1. CASE UNCHANGED treeVars
  BY <1>1, KeptByFrame DEF treeVars
<1>2. ASSUME NEW k \in Trees, DragsOver(k) PROVE TreeInv'
  BY <1>2, KeptByFrame DEF DragsOver, DragStart, RowDragOver, HeaderDragOver
<1>3. ASSUME NEW k \in Trees, GroupActs(k) PROVE TreeInv'
  <2>1. CASE NewGroup(k) \/ EditGroup(k) \/ CancelGroup(k)
    BY <2>1, KeptByFrame DEF NewGroup, EditGroup, CancelGroup
  <2>2. CASE AssignRow(k) \/ SaveGroup(k) \/ DeleteGroup(k)
    BY <2>2, KeptByGroupActs
  <2>3. CASE ToggleCollapse(k)
    BY <2>3, KeptByCollapse
  <2>4. QED
    BY <1>3, <2>1, <2>2, <2>3 DEF GroupActs
<1>4. ASSUME NEW k \in Trees, RowActs(k) PROVE TreeInv'
  BY <1>4, KeptByNewRow, KeptByDeleteRow, KeptByApplyLoad DEF RowActs
<1>5. CASE DragLeave \/ DragEnd
  BY <1>5, KeptByFrame DEF DragLeave, DragEnd
<1>6. CASE TableDrop
  BY <1>6, KeptByGroupActs DEF Trees
<1>7. CASE Serve
  <2>1. CASE ServeMoveUpdate \/ ServeMoveReorder \/ ServeMoveLoad
    BY <2>1, KeptByServeMove
  <2>2. CASE ~(ServeMoveUpdate \/ ServeMoveReorder \/ ServeMoveLoad)
    BY <1>7, <2>2, KeptByServeAssign, KeptByServeGroups, KeptByServeDelete, KeptByAnnounce,
       KeptByServeSave, KeptByGroupSaved DEF Serve
  <2>3. QED
    BY <2>1, <2>2
<1>8. "tunnels" \in Trees /\ "consoles" \in Trees
  BY DEF Trees
<1>9. CASE Drop("tunnels") \/ ConsoleDrop
  BY <1>8, <1>9, KeptByDrop DEF ConsoleDrop
<1>10. CASE DragsOver("tunnels") \/ ConsoleDragsOver
  BY <1>2, <1>8, <1>10 DEF ConsoleDragsOver
<1>11. CASE GroupActs("tunnels") \/ ConsoleGroupActs
  BY <1>3, <1>8, <1>11 DEF ConsoleGroupActs
<1>12. CASE RowActs("tunnels") \/ ConsoleRowActs
  BY <1>4, <1>8, <1>12 DEF ConsoleRowActs
<1>13. QED
  BY <1>1, <1>5, <1>6, <1>7, <1>9, <1>10, <1>11, <1>12 DEF TreeNext

-----------------------------------------------------------------------------
(* A list that names each of its members once is as long as they are many. *)
LEMMA UniqueLength ==
  ASSUME NEW T, NEW seq \in Seq(T), Unique(seq)
  PROVE  Len(seq) = Cardinality(ToSet(seq))
<1> DEFINE n == Len(seq)
           S == ToSet(seq)
           D == 1 .. n
<1>1. n \in Nat /\ DOMAIN seq = D
  OBVIOUS
<1>2. seq \in [D -> S] /\ \A s \in S : \E i \in D : seq[i] = s
  BY <1>1 DEF ToSet
<1>3. seq \in Bijection(D, S)
  BY <1>1, <1>2 DEF Bijection, Injection, Surjection, IsInjective, Unique
<1>4. IsFiniteSet(D) /\ Cardinality(D) = n
  BY <1>1, FS_Interval
<1>5. ExistsBijection(D, S)
  BY <1>3 DEF ExistsBijection
<1> HIDE DEF n, S, D
<1>6. Cardinality(S) = Cardinality(D)
  BY <1>4, <1>5, FS_Bijection
<1>7. QED
  BY <1>4, <1>6 DEF n, S

LEMMA KeepsAll == TreeInv => TreeKeepsAll
<1> SUFFICES ASSUME TreeInv PROVE TreeKeepsAll
  OBVIOUS
<1> DEFINE a == recs["tunnels"].order
           b == recs["consoles"].order
           c == groups
           T == Tunnels \cup Consoles \cup Groups
           ab == a \o b
           all == ab \o c
<1>1. "tunnels" \in Trees /\ "consoles" \in Trees /\ RowsOf("tunnels") = Tunnels
      /\ RowsOf("consoles") = Consoles
  BY DEF Trees, RowsOf
<1>2. /\ a \in Seq(Tunnels) /\ Unique(a) /\ ToSet(a) = alive \cap Tunnels
      /\ b \in Seq(Consoles) /\ Unique(b) /\ ToSet(b) = alive \cap Consoles
      /\ c \in Seq(Groups) /\ Unique(c) /\ ToSet(c) = alive \cap Groups
      /\ alive \subseteq T
  BY <1>1, RecsAre
<1> HIDE DEF a, b, c
<1>3. a \in Seq(T) /\ b \in Seq(T) /\ c \in Seq(T)
  BY <1>2
<1>4. ab \in Seq(T) /\ ToSet(ab) = ToSet(a) \cup ToSet(b) /\ Unique(ab)
  BY <1>2, <1>3, TreeAssumption, ConcatIs
<1> HIDE DEF ab
<1>5. all \in Seq(T) /\ ToSet(all) = ToSet(ab) \cup ToSet(c) /\ Unique(all)
  BY <1>2, <1>3, <1>4, TreeAssumption, ConcatIs
<1> HIDE DEF all
<1>6. ToSet(all) = alive /\ Len(all) = Cardinality(alive)
  BY <1>2, <1>4, <1>5, UniqueLength
<1>7. ASSUME NEW k \in Trees, NEW t \in ToSet(recs[k].order)
      PROVE  recs[k].member[t] \in ToSet(groups) \cup {Ungrouped}
  BY RecsAre
<1>8. QED
  BY <1>6, <1>7 DEF TreeKeepsAll, all, ab, a, b, c

(* A section's menu names the rows the section shows. *)
LEMMA MenuIsRows ==
  ASSUME NEW k, NEW v \in Snapshots(k), NEW s \in Sections
  PROVE  IdsInSection(v, s) = ToSet(RowsIn(v, s))
<1>1. ToSet(RowsIn(v, s)) = {t \in ToSet(v.order) : GroupOf(v, t) = s}
  BY RowsInIs
<1>2. v.order \in Seq(RowsOf(k)) /\ v.groups \in Seq(Groups)
      /\ \A t \in RowsOf(k) : v.member[t] \in ToSet(v.groups) \cup {Ungrouped}
  BY SnapshotsAre
<1>3. Ungrouped \notin ToSet(v.groups)
  BY <1>2, TreeAssumption DEF ToSet
<1>4. ToSet(v.order) \subseteq RowsOf(k)
  BY <1>2 DEF ToSet
<1>5. ASSUME NEW t \in ToSet(v.order)
      PROVE  GroupOf(v, t) = s <=>
               IF s = Ungrouped THEN v.member[t] \notin ToSet(v.groups) ELSE v.member[t] = s
  BY <1>2, <1>3, <1>4 DEF GroupOf
<1>6. QED
  BY <1>1, <1>5 DEF IdsInSection

LEMMA TreeShows == TreeInv => TreeIsSound
<1> SUFFICES ASSUME TreeInv PROVE TreeIsSound
  OBVIOUS
<1>1. \A k \in Trees : Stored(k) \in Snapshots(k) /\ view[k] \in Snapshots(k)
  BY DEF TreeInv, TreeTypes
<1>2. ASSUME NEW k \in Trees, ops = {}, reads[k] = <<>> PROVE ViewIsStored(k)
  <2> DEFINE v == view[k]
             w == Stored(k)
  <2>1. Alike(v, w)
    BY <1>2 DEF TreeInv, NothingMissed, Owed, ComingTo
  <2>2. /\ v = [order |-> v.order, member |-> v.member, groups |-> v.groups, kept |-> v.kept]
        /\ w = [order |-> w.order, member |-> w.member, groups |-> w.groups, kept |-> w.kept]
    <3>1. v \in Snapshots(k) /\ w \in Snapshots(k)
      BY <1>1
    <3> HIDE DEF v, w
    <3>2. QED
      BY <3>1, SnapshotsAre
  <2> HIDE DEF v, w
  <2>3. v = [w EXCEPT !.kept = v.kept]
    BY <2>1, <2>2 DEF Alike
  <2>4. QED
    BY <2>3 DEF ViewIsStored, v, w
<1>3. \A k \in Trees : \A s \in Sections : IdsInSection(view[k], s) = ToSet(RowsIn(view[k], s))
  BY <1>1, MenuIsRows
<1>4. SettledTreeIsStore
  BY <1>2, <1>3 DEF SettledTreeIsStore
<1>5. QED
  BY <1>4, KeepsAll DEF TreeIsSound

(* Both trees' stores hold exactly the ids in use, once each, whatever list *)
(* a reorder was planned from; and every write a tree has not seen is       *)
(* followed by a reload of it that is still to come.                        *)
THEOREM TreeInductive == TreeSpec => []TreeInv
<1>1. TreeInit => TreeInv
  BY TreeStarts
<1>2. TreeInv /\ [TreeNext]_treeVars => TreeInv'
  BY TreeSteps
<1>3. QED
  BY <1>1, <1>2, PTL DEF TreeSpec

(* No drag, reorder, group change or reload loses or doubles a row or a     *)
(* group of the sidebar, and once they are through what both trees show is  *)
(* what the stores hold (tunnel-list.js, tunnels-view.js).                  *)
THEOREM TreeSound == TreeSpec => []TreeIsSound
<1>1. TreeInv => TreeIsSound
  BY TreeShows
<1>2. QED
  BY <1>1, TreeInductive, PTL

-----------------------------------------------------------------------------
(* The rendered list: one part for each section, the header and its rows.  *)

Cells(k) == [section : Sections, row : RowsOf(k) \cup {NoRow}]
ShownOf(v, s) == IF s \in v.kept THEN <<>> ELSE Tag(s, RowsIn(v, s))
PartOf(v, s) == <<[section |-> s, row |-> NoRow]>> \o ShownOf(v, s)
PartsOf(v) == [i \in DOMAIN BuildSections(v) |-> PartOf(v, BuildSections(v)[i])]

LEMMA ElementsAre == ASSUME NEW v PROVE Elements(v) = FlattenSeq(PartsOf(v))
BY DEF Elements, PartsOf, PartOf, ShownOf, Tag

LEMMA PartIs ==
  ASSUME NEW k, NEW v \in Snapshots(k), NEW s \in Sections
  PROVE  /\ ShownOf(v, s) \in Seq(Cells(k)) /\ PartOf(v, s) \in Seq(Cells(k))
         /\ \A x \in ToSet(PartOf(v, s)) : x.section = s
<1> DEFINE R == RowsIn(v, s)
           h == [section |-> s, row |-> NoRow]
           t == Tag(s, R)
           one == <<h>>
           sh == ShownOf(v, s)
<1>1. R \in Seq(RowsOf(k))
  BY RowsInIs
<1>2. h \in Cells(k) /\ h.section = s
  BY DEF Cells
<1> HIDE DEF h, R
<1>3. t \in Seq([section : {s}, row : RowsOf(k)])
  BY <1>1, TagType
<1>4. [section : {s}, row : RowsOf(k)] \subseteq Cells(k) /\ \A x \in [section : {s}, row : RowsOf(k)] : x.section = s
  BY DEF Cells
<1> HIDE DEF t
<1>5. t \in Seq(Cells(k)) /\ \A x \in ToSet(t) : x.section = s
  <2> DEFINE E == [section : {s}, row : RowsOf(k)]
  <2>0. t \in Seq(E) /\ E \subseteq Cells(k) /\ \A x \in E : x.section = s
    BY <1>3, <1>4
  <2> HIDE DEF E
  <2>1. \A i \in DOMAIN t : t[i] \in E
    BY <2>0
  <2>2. t \in Seq(Cells(k))
    BY <2>0
  <2>3. \A x \in ToSet(t) : x.section = s
    BY <2>0, <2>1 DEF ToSet
  <2>4. QED
    BY <2>2, <2>3
<1>6. sh = IF s \in v.kept THEN <<>> ELSE t
  BY DEF ShownOf, t, R
<1> HIDE DEF sh
<1>7. sh \in Seq(Cells(k)) /\ \A x \in ToSet(sh) : x.section = s
  <2>1. <<>> \in Seq(Cells(k)) /\ ToSet(<<>>) = {}
    BY DEF ToSet
  <2>2. QED
    BY <1>5, <1>6, <2>1
<1>8. one \in Seq(Cells(k)) /\ ToSet(one) = {h}
  BY <1>2, OneIs
<1> HIDE DEF one
<1>9. one \o sh \in Seq(Cells(k)) /\ ToSet(one \o sh) = ToSet(one) \cup ToSet(sh)
  BY <1>7, <1>8, ConcatIs
<1>10. PartOf(v, s) = one \o sh
  BY DEF PartOf, one, sh, h
<1>11. QED
  BY <1>2, <1>7, <1>8, <1>9, <1>10 DEF sh

(* A rendered element stands in the part of its section, and that part stands *)
(* whole in the list, with nothing else of the section above or below it.   *)
LEMMA ElementsSplit ==
  ASSUME NEW k, NEW v \in Snapshots(k), NEW e \in DOMAIN Elements(v)
  PROVE  LET s == Elements(v)[e].section
         IN  /\ s \in Sections /\ s \in ToSet(v.groups) \cup {Ungrouped}
             /\ \E P, Q \in Seq(Cells(k)) :
                  /\ Elements(v) = P \o PartOf(v, s) \o Q
                  /\ \A x \in ToSet(P) \cup ToSet(Q) : x.section # s
<1> DEFINE B == BuildSections(v)
           ss == PartsOf(v)
           T == Cells(k)
           L == Len(B)
           el == FlattenSeq(ss)
           x == el[e]
<1>1. B \in Seq(Sections) /\ Unique(B) /\ ToSet(B) \subseteq ToSet(v.groups) \cup {Ungrouped}
  BY SectionsAre
<1>2. /\ L \in Nat /\ DOMAIN B = 1 .. L /\ \A i \in 1 .. L : B[i] \in Sections /\ B[i] \in ToSet(B)
      /\ \A i, j \in 1 .. L : B[i] = B[j] => i = j
  BY <1>1 DEF ToSet, Unique
<1>3. /\ ss \in Seq(Seq(T)) /\ Len(ss) = L
      /\ \A i \in 1 .. L : ss[i] = PartOf(v, B[i])
  <2>1. DOMAIN ss = 1 .. L /\ \A i \in 1 .. L : ss[i] = PartOf(v, B[i])
    BY <1>2 DEF PartsOf
  <2>2. \A i \in 1 .. L : PartOf(v, B[i]) \in Seq(T)
    BY <1>2, PartIs
  <2>3. ss \in [1 .. L -> Seq(T)]
    BY <1>2, <2>1, <2>2 DEF PartsOf
  <2>4. QED
    BY <1>2, <2>1, <2>3
<1>4. \A i \in 1 .. L : \A y \in ToSet(ss[i]) : y.section = B[i]
  BY <1>2, <1>3, PartIs
<1>5. Elements(v) = el
  BY ElementsAre
<1> HIDE DEF B, L, T, ss, el
<1>6. L # 0
  <2>1. ASSUME L = 0 PROVE FALSE
    <3>1. ss = <<>>
      BY <1>3, <2>1
    <3>2. el = <<>>
      BY <2>1, <1>3, <3>1 DEF FlattenSeq, el
    <3>3. QED
      BY <1>5, <3>2
  <2>2. QED
    BY <2>1
<1>7. x \in ToSet(el)
  BY <1>5 DEF ToSet
<1> HIDE DEF x
<1>8. \E i \in 1 .. L : x \in ToSet(ss[i])
  <2>1. ASSUME \A i \in 1 .. L : x \notin ToSet(ss[i]) PROVE FALSE
    <3> DEFINE one == 1
    <3>1. one \in 1 .. Len(ss) /\ OnlyPart(ss, one, {x})
      BY <1>2, <1>3, <1>6, <2>1 DEF OnlyPart
    <3> HIDE DEF one
    <3>0. StandsIn(ss[one], FlattenSeq(ss), T, {x})
      BY <1>3, <3>1, FlattenSplits
    <3>2. PICK P \in Seq(T), Q \in Seq(T) : /\ FlattenSeq(ss) = P \o ss[one] \o Q
                               /\ ToSet(P) \cap {x} = {} /\ ToSet(Q) \cap {x} = {}
      BY <3>0 DEF StandsIn
    <3> DEFINE m == ss[one]
               c == P \o m
    <3>3. m \in Seq(T) /\ x \notin ToSet(m)
      BY <1>3, <2>1, <3>1
    <3> HIDE DEF m
    <3>4. c \in Seq(T) /\ ToSet(c) = ToSet(P) \cup ToSet(m)
      BY <3>3, ConcatIs
    <3> HIDE DEF c
    <3>5. ToSet(c \o Q) = ToSet(c) \cup ToSet(Q)
      BY <3>4, ConcatIs
    <3>6. el = c \o Q
      BY <3>2 DEF el, c, m
    <3>7. QED
      BY <1>7, <3>2, <3>3, <3>4, <3>5, <3>6
  <2>2. QED
    BY <2>1
<1>9. PICK i \in 1 .. L : x \in ToSet(ss[i])
  BY <1>8
<1> DEFINE s == x.section
           N == {y \in T : y.section = s}
<1>10. s = B[i]
  BY <1>4, <1>9
<1>11. \A j \in 1 .. L : j # i => ToSet(ss[j]) \cap N = {}
  BY <1>2, <1>4, <1>10
<1> HIDE DEF s, N
<1>12. StandsIn(ss[i], FlattenSeq(ss), T, N)
  <2>1. i \in 1 .. Len(ss) /\ OnlyPart(ss, i, N)
    BY <1>3, <1>11 DEF OnlyPart
  <2>2. QED
    BY <1>3, <2>1, FlattenSplits
<1>13. PICK P \in Seq(T), Q \in Seq(T) : FlattenSeq(ss) = P \o ss[i] \o Q /\ ToSet(P) \cap N = {} /\ ToSet(Q) \cap N = {}
  BY <1>12 DEF StandsIn
<1>14. \A y \in ToSet(P) \cup ToSet(Q) : y.section # s
  <2>1. ToSet(P) \subseteq T /\ ToSet(Q) \subseteq T
    BY DEF ToSet
  <2>2. QED
    BY <1>13, <2>1 DEF N
<1>15. s \in Sections /\ s \in ToSet(v.groups) \cup {Ungrouped} /\ ss[i] = PartOf(v, s)
  BY <1>1, <1>2, <1>3, <1>10
<1>16. Elements(v) = P \o PartOf(v, s) \o Q /\ s = Elements(v)[e].section
  BY <1>5, <1>13, <1>15 DEF s, x, el
<1>17. QED
  BY <1>14, <1>15, <1>16 DEF T

-----------------------------------------------------------------------------
(* The rendered list cut at the gap under a dragged row.                   *)

CutOf(e, after) == IF after THEN e ELSE e - 1
RestOf(seq, id) == Only(seq, {x \in ToSet(seq) : x.row # id})
OwnOf(seq, s) == Only(seq, {x \in ToSet(seq) : x.section = s /\ x.row # NoRow})
AboveGap(v, id, e, after) == RestOf(SubSeq(Elements(v), 1, CutOf(e, after)), id)
BelowGap(v, id, e, after) ==
  RestOf(SubSeq(Elements(v), CutOf(e, after) + 1, Len(Elements(v))), id)

(* What GapAt says, in these terms. *)
GapReads(g, v, id, e, after) ==
  LET s == Elements(v)[e].section
      below == BelowGap(v, id, e, after)
  IN  /\ g.kind = "gap" /\ g.fresh = TRUE /\ g.group = s /\ g.shown = (s \notin v.kept)
      /\ g.before = IF below # <<>> /\ Head(below).section = s THEN Head(below).row ELSE NoRow
      /\ g.want = Untag(OwnOf(AboveGap(v, id, e, after), s)) \o <<id>> \o Untag(OwnOf(below, s))

LEMMA GapIs ==
  ASSUME NEW v, NEW id, NEW e, NEW after
  PROVE  GapReads(GapAt(v, id, e, after), v, id, e, after)
BY DEF GapReads, GapAt, AboveGap, BelowGap, CutOf, RestOf, OwnOf, Untag

LEMMA JoinIs ==
  ASSUME NEW T, NEW a \in Seq(T), NEW b \in Seq(T)
  PROVE  /\ SubSeq(a \o b, 1, Len(a)) = a
         /\ SubSeq(a \o b, Len(a) + 1, Len(a \o b)) = b
<1> DEFINE c == a \o b
           x == SubSeq(c, 1, Len(a))
           y == SubSeq(c, Len(a) + 1, Len(c))
<1>1. /\ c \in Seq(T) /\ Len(c) = Len(a) + Len(b) /\ Len(a) \in Nat /\ Len(b) \in Nat
      /\ \A i \in 1 .. Len(a) : c[i] = a[i]
      /\ \A i \in 1 .. Len(b) : c[Len(a) + i] = b[i]
  OBVIOUS
<1> HIDE DEF c
<1>2. x \in Seq(T) /\ Len(x) = Len(a) /\ \A i \in 1 .. Len(a) : x[i] = c[i]
  BY <1>1
<1>3. y \in Seq(T) /\ Len(y) = Len(b) /\ \A i \in 1 .. Len(b) : y[i] = c[Len(a) + i]
  BY <1>1
<1> HIDE DEF x, y
<1>4. x = a
  BY <1>1, <1>2, SeqEqual
<1>5. y = b
  BY <1>1, <1>3, SeqEqual
<1>6. QED
  BY <1>4, <1>5 DEF x, y, c

IsJoin(c, a, b) == c = a \o b

LEMMA JoinsAt ==
  ASSUME NEW T, NEW a \in Seq(T), NEW b \in Seq(T), NEW c, IsJoin(c, a, b)
  PROVE  /\ c \in Seq(T) /\ Len(c) = Len(a) + Len(b) /\ Len(a) \in Nat /\ Len(b) \in Nat
         /\ \A i \in 1 .. Len(a) : c[i] = a[i]
         /\ \A i \in 1 .. Len(b) : c[Len(a) + i] = b[i]
<1> DEFINE d == a \o b
<1>1. /\ d \in Seq(T) /\ Len(d) = Len(a) + Len(b) /\ Len(a) \in Nat /\ Len(b) \in Nat
      /\ \A i \in 1 .. Len(a) : d[i] = a[i]
      /\ \A i \in 1 .. Len(b) : d[Len(a) + i] = b[i]
  OBVIOUS
<1>2. c = d
  BY DEF IsJoin
<1> HIDE DEF d
<1>3. QED
  BY <1>1, <1>2

LEMMA ConcatAssoc ==
  ASSUME NEW T, NEW a \in Seq(T), NEW b \in Seq(T), NEW c \in Seq(T)
  PROVE  a \o (b \o c) = (a \o b) \o c
OBVIOUS

(* A list cut in two. *)
LEMMA SplitIs ==
  ASSUME NEW U, NEW R \in Seq(U), NEW i \in 0 .. Len(R)
  PROVE  LET R1 == SubSeq(R, 1, i)
             R2 == SubSeq(R, i + 1, Len(R))
         IN  R1 \in Seq(U) /\ R2 \in Seq(U) /\ Len(R1) = i /\ R = R1 \o R2
<1> DEFINE R1 == SubSeq(R, 1, i)
           R2 == SubSeq(R, i + 1, Len(R))
           c == R1 \o R2
           n == Len(R)
<1>0. n \in Nat /\ i \in 0 .. n
  OBVIOUS
<1>1. R1 \in Seq(U) /\ Len(R1) = i /\ \A j \in 1 .. i : R1[j] = R[j]
  BY <1>0
<1>2. R2 \in Seq(U) /\ Len(R2) = n - i /\ \A j \in 1 .. n - i : R2[j] = R[i + j]
  BY <1>0
<1> HIDE DEF R1, R2, n
<1>3. IsJoin(c, R1, R2)
  BY DEF IsJoin
<1> HIDE DEF c
<1>4. /\ c \in Seq(U) /\ Len(c) = n
      /\ \A j \in 1 .. i : c[j] = R1[j]
      /\ \A j \in 1 .. n - i : c[i + j] = R2[j]
  <2>1. /\ c \in Seq(U) /\ Len(c) = Len(R1) + Len(R2)
        /\ \A j \in 1 .. Len(R1) : c[j] = R1[j]
        /\ \A j \in 1 .. Len(R2) : c[Len(R1) + j] = R2[j]
    <3>1. R1 \in Seq(U) /\ R2 \in Seq(U)
      BY <1>1, <1>2
    <3>2. QED
      BY <3>1, <1>3, JoinsAt
  <2>2. QED
    BY <1>0, <1>1, <1>2, <2>1
<1>5. ASSUME NEW j \in 1 .. n PROVE c[j] = R[j]
  <2>1. CASE j <= i
    <3>1. j \in 1 .. i
      BY <1>0, <2>1
    <3>2. QED
      BY <1>1, <1>4, <3>1
  <2>2. CASE j > i
    <3>1. j - i \in 1 .. n - i /\ i + (j - i) = j
      BY <1>0, <2>2
    <3>2. QED
      BY <1>2, <1>4, <3>1
  <2>3. QED
    BY <1>0, <2>1, <2>2
<1>6. c = R
  BY <1>4, <1>5, SeqEqual DEF n
<1>7. R1 \in Seq(U) /\ R2 \in Seq(U) /\ Len(R1) = i /\ R = R1 \o R2
  BY <1>1, <1>2, <1>6 DEF c
<1>8. QED
  BY <1>7 DEF R1, R2

LEMMA ConcatType ==
  ASSUME NEW T, NEW a \in Seq(T), NEW b \in Seq(T)
  PROVE  a \o b \in Seq(T) /\ Len(a \o b) = Len(a) + Len(b) /\ Len(a) \in Nat /\ Len(b) \in Nat
OBVIOUS

(* No element of either list is of the section. *)
Clear(P, Q, s) == \A x \in ToSet(P) \cup ToSet(Q) : x.section # s

(* Where an element of the middle part stands. *)
LEMMA MiddleAt ==
  ASSUME NEW T, NEW P \in Seq(T), NEW M \in Seq(T), NEW Q \in Seq(T), NEW els, NEW s, NEW c,
         IsJoin(c, P, M), IsJoin(els, c, Q), Clear(P, Q, s),
         NEW e \in DOMAIN els, els[e].section = s
  PROVE  e \in Len(P) + 1 .. Len(P) + Len(M) /\ (Len(M) >= 1 => els[Len(P) + 1] = M[1])
<1>1. /\ c \in Seq(T) /\ Len(c) = Len(P) + Len(M) /\ Len(P) \in Nat /\ Len(M) \in Nat
      /\ \A i \in 1 .. Len(P) : c[i] = P[i]
      /\ \A i \in 1 .. Len(M) : c[Len(P) + i] = M[i]
  BY JoinsAt
<1>c. c \in Seq(T)
  BY <1>1
<1>2. /\ els \in Seq(T) /\ Len(els) = Len(c) + Len(Q) /\ Len(Q) \in Nat
      /\ \A i \in 1 .. Len(c) : els[i] = c[i]
      /\ \A i \in 1 .. Len(Q) : els[Len(c) + i] = Q[i]
  BY <1>c, JoinsAt
<1>3. e \in 1 .. Len(els)
  BY <1>2
<1>4. (\A i \in 1 .. Len(P) : P[i] \in ToSet(P)) /\ \A i \in 1 .. Len(Q) : Q[i] \in ToSet(Q)
  BY DEF ToSet
<1>5. ASSUME e <= Len(P) PROVE FALSE
  <2>1. e \in 1 .. Len(P) /\ e \in 1 .. Len(c)
    BY <1>1, <1>3, <1>5
  <2>2. els[e] = P[e]
    BY <1>1, <1>2, <2>1
  <2>3. QED
    BY <1>4, <2>1, <2>2 DEF Clear
<1>6. ASSUME e > Len(c) PROVE FALSE
  <2> DEFINE j == e - Len(c)
  <2>1. j \in 1 .. Len(Q) /\ Len(c) + j = e
    <3>1. Len(c) \in Nat /\ Len(els) = Len(c) + Len(Q) /\ Len(Q) \in Nat
      BY <1>2
    <3>2. QED
      BY <1>3, <1>6, <3>1
  <2> HIDE DEF j
  <2>2. els[e] = Q[j]
    BY <1>2, <2>1
  <2>3. QED
    BY <1>4, <2>1, <2>2 DEF Clear
<1>7. Len(M) >= 1 => els[Len(P) + 1] = M[1]
  <2> SUFFICES ASSUME Len(M) >= 1 PROVE els[Len(P) + 1] = M[1]
    OBVIOUS
  <2>1. 1 \in 1 .. Len(M) /\ Len(P) + 1 \in 1 .. Len(c)
    BY <1>1
  <2>2. QED
    BY <1>1, <1>2, <2>1
<1>8. QED
  BY <1>1, <1>3, <1>5, <1>6, <1>7

Five(els, a, b, c, d, f) == els = a \o (b \o (c \o d)) \o f
CutsFive(els, a, b, c, d, f) ==
  LET n == Len(a) + Len(b) + Len(c)
  IN  SubSeq(els, 1, n) = a \o b \o c /\ SubSeq(els, n + 1, Len(els)) = d \o f

(* The header and the upper rows go with what is above, the lower rows with *)
(* what is below.                                                           *)
LEMMA FiveCut ==
  ASSUME NEW T, NEW a \in Seq(T), NEW b \in Seq(T), NEW c \in Seq(T), NEW d \in Seq(T), NEW f \in Seq(T),
         NEW els, Five(els, a, b, c, d, f)
  PROVE  CutsFive(els, a, b, c, d, f)
<1> DEFINE cd == c \o d
           ab == a \o b
           df == d \o f
           abc == ab \o c
<1>1. cd \in Seq(T) /\ ab \in Seq(T) /\ df \in Seq(T)
  OBVIOUS
<1>2. a \o (b \o cd) = ab \o cd
  <2> HIDE DEF cd
  <2>1. QED
    BY <1>1, ConcatAssoc
<1> HIDE DEF ab
<1>3. ab \o (c \o d) = abc \o d
  BY <1>1, ConcatAssoc, SMTT(30)
<1>4. abc \in Seq(T)
  BY <1>1
<1> HIDE DEF abc
<1>5. abc \o (d \o f) = (abc \o d) \o f
  BY <1>4, ConcatAssoc, SMTT(30)
<1>6. els = abc \o df
  BY <1>2, <1>3, <1>5 DEF Five
<1>7. df \in Seq(T)
  BY <1>1
<1>8. Len(ab) = Len(a) + Len(b) /\ ab \in Seq(T)
  BY ConcatType DEF ab
<1>9. Len(abc) = Len(ab) + Len(c)
  <2> HIDE DEF ab
  <2>1. QED
    BY <1>8, ConcatType DEF abc
<1> HIDE DEF df
<1>10. SubSeq(abc \o df, 1, Len(abc)) = abc /\ SubSeq(abc \o df, Len(abc) + 1, Len(abc \o df)) = df
  BY <1>4, <1>7, JoinIs
<1>11. Len(a) + Len(b) + Len(c) = Len(abc)
  BY <1>8, <1>9
<1>12. QED
  BY <1>6, <1>10, <1>11 DEF CutsFive, abc, ab, df

(* The list is three parts, the middle one a header and a section's rows. *)
Frames(els, P, h, s, R, Q) == els = P \o (h \o Tag(s, R)) \o Q

(* The cut parts the rows in two. *)
CutsRows(els, cut, P, h, s, R, Q, U) ==
  \E R1, R2 \in Seq(U) :
     /\ R = R1 \o R2 /\ SubSeq(els, 1, cut) = P \o h \o Tag(s, R1)
     /\ SubSeq(els, cut + 1, Len(els)) = Tag(s, R2) \o Q

(* A list cut inside its middle part. *)
LEMMA CutMiddle ==
  ASSUME NEW T, NEW P \in Seq(T), NEW Q \in Seq(T), NEW h \in Seq(T), Len(h) = 1, NEW U, NEW R \in Seq(U),
         NEW s, [section : {s}, row : U] \subseteq T, NEW i \in 0 .. Len(R), NEW els,
         Frames(els, P, h, s, R, Q)
  PROVE  CutsRows(els, Len(P) + 1 + i, P, h, s, R, Q, U)
<1> DEFINE R1 == SubSeq(R, 1, i)
           R2 == SubSeq(R, i + 1, Len(R))
           t1 == Tag(s, R1)
           t2 == Tag(s, R2)
<1>1. R1 \in Seq(U) /\ R2 \in Seq(U) /\ Len(R1) = i /\ R = R1 \o R2
  BY SplitIs
<1> HIDE DEF R1, R2
<1>2. Tag(s, R) = t1 \o t2
  BY <1>1, TagConcat
<1>3. t1 \in Seq(T) /\ t2 \in Seq(T) /\ Len(t1) = i
  <2> DEFINE E == [section : {s}, row : U]
  <2>1. t1 \in Seq(E) /\ t2 \in Seq(E) /\ Len(t1) = i
    BY <1>1, TagType
  <2>2. E \subseteq T
    OBVIOUS
  <2> HIDE DEF E, t1, t2
  <2>3. QED
    BY <2>1, <2>2
<1> HIDE DEF t1, t2
<1>t. t1 \in Seq(T) /\ t2 \in Seq(T)
  BY <1>3
<1> DEFINE n == Len(P) + 1 + i
<1>4. Five(els, P, h, t1, t2, Q)
  BY <1>2 DEF Frames, Five
<1>5. n = Len(P) + Len(h) + Len(t1)
  BY <1>3
<1> HIDE DEF n
<1>6. SubSeq(els, 1, n) = P \o h \o t1 /\ SubSeq(els, n + 1, Len(els)) = t2 \o Q
  <2>1. CutsFive(els, P, h, t1, t2, Q)
    BY <1>t, <1>4, FiveCut
  <2>2. QED
    BY <2>1, <1>5 DEF CutsFive
<1>r. R1 \in Seq(U) /\ R2 \in Seq(U) /\ R = R1 \o R2
  BY <1>1
<1>7. CutsRows(els, n, P, h, s, R, Q, U)
  BY <1>r, <1>6 DEF CutsRows, t1, t2
<1>8. QED
  BY <1>7 DEF n

(* The rows of the section are parted by the cut, with its header above. *)
CutShows(v, s, cut, P, Q, R1, R2) ==
  /\ Clear(P, Q, s)
  /\ RowsIn(v, s) = R1 \o R2
  /\ SubSeq(Elements(v), 1, cut) = P \o <<[section |-> s, row |-> NoRow]>> \o Tag(s, R1)
  /\ SubSeq(Elements(v), cut + 1, Len(Elements(v))) = Tag(s, R2) \o Q

(* The rendered list cut inside the part of an open section, right after its *)
(* header or one of its rows, or right before one.                          *)
LEMMA ElementsCut ==
  ASSUME NEW k, NEW v \in Snapshots(k), NEW e \in DOMAIN Elements(v), NEW after \in BOOLEAN,
         Elements(v)[e].row = NoRow => after, Elements(v)[e].section \notin v.kept
  PROVE  \E P, Q \in Seq(Cells(k)), R1, R2 \in Seq(RowsOf(k)) :
            CutShows(v, Elements(v)[e].section, CutOf(e, after), P, Q, R1, R2)
<1> DEFINE els == Elements(v)
           s == els[e].section
           cut == CutOf(e, after)
           R == RowsIn(v, s)
           h == [section |-> s, row |-> NoRow]
           T == Cells(k)
           one == <<h>>
           M == one \o Tag(s, R)
<1>1. s \in Sections
  BY ElementsSplit
<1>2. PICK P \in Seq(T), Q \in Seq(T) : els = P \o PartOf(v, s) \o Q /\ \A x \in ToSet(P) \cup ToSet(Q) : x.section # s
  BY ElementsSplit, ZenonT(30)
<1>3. PartOf(v, s) = M
  BY DEF PartOf, ShownOf
<1>4. R \in Seq(RowsOf(k)) /\ h \in T /\ h.row = NoRow
  BY <1>1, RowsInIs DEF Cells
<1>5. M \in Seq(T)
  <2>1. PartOf(v, s) \in Seq(Cells(k))
    <3> HIDE DEF s
    <3>1. QED
      BY <1>1, PartIs
  <2>2. QED
    BY <1>3, <2>1
<1>6. [section : {s}, row : RowsOf(k)] \subseteq T
  BY <1>1 DEF Cells
<1> HIDE DEF s, h, R, els, T
<1>7. one \in Seq(T) /\ Len(one) = 1 /\ one[1] = h
  BY <1>4
<1> HIDE DEF one
<1>8. Len(M) = 1 + Len(R) /\ M[1] = h /\ Len(R) \in Nat
  <2> DEFINE t == Tag(s, R)
             E == [section : {s}, row : RowsOf(k)]
  <2>1. t \in Seq(E) /\ Len(t) = Len(R)
    BY <1>4, TagType
  <2>2. E \subseteq T
    BY <1>6
  <2> HIDE DEF E, t
  <2>3. t \in Seq(T)
    BY <2>1, <2>2
  <2>4. IsJoin(M, one, t)
    BY DEF IsJoin, t
  <2> HIDE DEF M
  <2>5. Len(M) = Len(one) + Len(t) /\ (\A i \in 1 .. Len(one) : M[i] = one[i]) /\ Len(t) \in Nat
    <3>1. one \in Seq(T)
      BY <1>7
    <3>2. QED
      BY <3>1, <2>3, <2>4, JoinsAt
  <2>6. 1 \in 1 .. Len(one)
    BY <1>7
  <2>7. QED
    BY <1>7, <2>1, <2>5, <2>6
<1>9. e \in Len(P) + 1 .. Len(P) + 1 + Len(R) /\ els[Len(P) + 1] = h /\ Len(P) \in Nat
  <2> DEFINE c == P \o M
  <2> HIDE DEF M
  <2>1. IsJoin(c, P, M) /\ IsJoin(els, c, Q)
    BY <1>2, <1>3 DEF IsJoin
  <2>2. e \in DOMAIN els /\ els[e].section = s
    BY DEF els, s
  <2> HIDE DEF c
  <2>3. e \in Len(P) + 1 .. Len(P) + Len(M) /\ (Len(M) >= 1 => els[Len(P) + 1] = M[1])
    <3>1. IsJoin(c, P, M)
      BY <2>1
    <3>2. IsJoin(els, c, Q)
      BY <2>1
    <3>3. e \in DOMAIN els
      BY <2>2
    <3>4. els[e].section = s
      BY <2>2
    <3>5. Clear(P, Q, s)
      BY <1>2 DEF Clear
    <3> HIDE DEF els, s
    <3>6. QED
      BY <1>5, <3>1, <3>2, <3>3, <3>4, <3>5, MiddleAt
  <2>4. Len(P) \in Nat
    OBVIOUS
  <2>5. QED
    BY <1>8, <2>3, <2>4
<1>10. cut \in Len(P) + 1 .. Len(P) + 1 + Len(R)
  <2>1. CASE e = Len(P) + 1
    <3>1. els[e].row = NoRow
      BY <1>4, <1>9, <2>1
    <3>2. after
      BY <3>1 DEF els
    <3>3. QED
      BY <1>9, <3>2 DEF CutOf
  <2>2. CASE e # Len(P) + 1
    BY <1>8, <1>9, <2>2 DEF CutOf
  <2>3. QED
    BY <2>1, <2>2
<1> DEFINE i == cut - Len(P) - 1
<1>11. i \in 0 .. Len(R) /\ cut = Len(P) + 1 + i
  BY <1>8, <1>9, <1>10
<1> HIDE DEF i, cut
<1>12. Frames(els, P, one, s, R, Q)
  BY <1>2, <1>3 DEF Frames
<1>13. CutsRows(els, Len(P) + 1 + i, P, one, s, R, Q, RowsOf(k))
  <2> DEFINE U == RowsOf(k)
  <2>1. [section : {s}, row : U] \subseteq T
    BY <1>6
  <2>2. R \in Seq(U)
    BY <1>4
  <2>3. one \in Seq(T) /\ Len(one) = 1
    BY <1>7
  <2>4. i \in 0 .. Len(R)
    BY <1>11
  <2> HIDE DEF U
  <2>5. CutsRows(els, Len(P) + 1 + i, P, one, s, R, Q, U)
    BY <2>1, <2>2, <2>3, <2>4, <1>12, CutMiddle
  <2>6. QED
    BY <2>5 DEF U
<1>14. PICK R1 \in Seq(RowsOf(k)), R2 \in Seq(RowsOf(k)) :
               /\ R = R1 \o R2 /\ SubSeq(els, 1, cut) = P \o one \o Tag(s, R1)
               /\ SubSeq(els, cut + 1, Len(els)) = Tag(s, R2) \o Q
  BY <1>11, <1>13 DEF CutsRows
<1>15. QED
  BY <1>2, <1>14 DEF CutShows, Clear, els, s, R, cut, one, h, T

-----------------------------------------------------------------------------
(* What GapAt reads off the two halves.                                    *)

(* What the filters of a gap keep of a rendered list: the section's other rows. *)
OtherRows(k, s, id) == {x \in Cells(k) : x.section = s /\ x.row # NoRow /\ x.row # id}

LEMMA OwnRest ==
  ASSUME NEW k, NEW s, NEW id, NEW A \in Seq(Cells(k))
  PROVE  OwnOf(RestOf(A, id), s) = Only(A, OtherRows(k, s, id))
<1> DEFINE T == Cells(k)
           S1 == {x \in ToSet(A) : x.row # id}
           r == Only(A, S1)
           S2 == {x \in ToSet(r) : x.section = s /\ x.row # NoRow}
<1>1. r \in Seq(T) /\ ToSet(r) = ToSet(A) \cap S1
  <2> HIDE DEF S1, T
  <2>1. A \in Seq(T)
    BY DEF T
  <2>2. QED
    BY <2>1, OnlyIs, OnlyType
<1>2. OwnOf(RestOf(A, id), s) = Only(r, S2)
  BY DEF OwnOf, RestOf
<1>3. Only(r, S2) = Only(A, S1 \cap S2)
  <2> HIDE DEF S1, S2
  <2>1. QED
    BY OnlyTwice
<1>4. ToSet(A) \cap (S1 \cap S2) = ToSet(A) \cap OtherRows(k, s, id)
  <2>1. ToSet(A) \subseteq T
    BY DEF ToSet
  <2> HIDE DEF r
  <2>2. QED
    BY <1>1, <2>1 DEF OtherRows
<1>5. Only(A, S1 \cap S2) = Only(A, OtherRows(k, s, id))
  <2> HIDE DEF S1, S2
  <2>1. QED
    BY <1>4, OnlySame
<1>6. QED
  BY <1>2, <1>3, <1>5

LEMMA RowsAreRows == ASSUME NEW k PROVE NoRow \notin RowsOf(k)
BY TreeAssumption DEF RowsOf

LEMMA WithoutAs ==
  ASSUME NEW T, NEW a \in Seq(T), NEW x
  PROVE  Without(a, x) = Only(a, T \ {x})
<1> DEFINE S == T \ {x}
<1>1. \A t \in ToSet(a) : t \in S <=> t # x
  BY DEF ToSet
<1> HIDE DEF S
<1>2. Without(a, x) = Only(a, S)
  BY <1>1, WithoutOnly
<1>3. QED
  BY <1>2 DEF S

LEMMA TagWithout ==
  ASSUME NEW T, NEW a \in Seq(T), NEW s, NEW id, NEW X,
         \A t \in T : [section |-> s, row |-> t] \in X <=> t # id
  PROVE  Only(Tag(s, a), X) = Tag(s, Without(a, id))
<1> DEFINE R == T \ {id}
<1>1. \A t \in T : [section |-> s, row |-> t] \in X <=> t \in R
  OBVIOUS
<1> HIDE DEF R
<1>2. Only(Tag(s, a), X) = Tag(s, Only(a, R))
  BY <1>1, OnlyTag
<1>3. QED
  BY <1>2, WithoutAs DEF R

LEMMA TagIs ==
  ASSUME NEW k, NEW s \in Sections, NEW c \in Seq(RowsOf(k))
  PROVE  Tag(s, c) \in Seq(Cells(k))
<1> DEFINE E == [section : {s}, row : RowsOf(k)]
           t == Tag(s, c)
<1>1. t \in Seq(E)
  BY TagType
<1>2. E \subseteq Cells(k)
  BY DEF Cells
<1> HIDE DEF E, t
<1>3. t \in Seq(Cells(k))
  BY <1>1, <1>2
<1>4. QED
  BY <1>3 DEF t

LEMMA EmptyJoin == ASSUME NEW T, NEW c \in Seq(T) PROVE <<>> \o c = c /\ c \o <<>> = c
OBVIOUS

IsAbove(A, P, s, R1) == A = P \o <<[section |-> s, row |-> NoRow]>> \o Tag(s, R1)
IsBelow(B, s, R2, Q) == B = Tag(s, R2) \o Q

(* Of what is above the gap, the rows of its section. *)
LEMMA AboveRows ==
  ASSUME NEW k, NEW s \in Sections, NEW id, NEW P \in Seq(Cells(k)), NEW R1 \in Seq(RowsOf(k)),
         \A x \in ToSet(P) : x.section # s, NEW A, IsAbove(A, P, s, R1)
  PROVE  A \in Seq(Cells(k)) /\ Only(A, OtherRows(k, s, id)) = Tag(s, Without(R1, id))
<1> DEFINE T == Cells(k)
           h == [section |-> s, row |-> NoRow]
           one == <<h>>
           t == Tag(s, R1)
           c == P \o one
           Z == OtherRows(k, s, id)
<1>1. h \in T /\ h.row = NoRow
  BY DEF Cells
<1> HIDE DEF h
<1>2. one \in Seq(T) /\ ToSet(one) = {h}
  BY <1>1, OneIs
<1>3. t \in Seq(T)
  BY TagIs
<1>4. Only(t, Z) = Tag(s, Without(R1, id))
  <2>1. \A u \in RowsOf(k) : [section |-> s, row |-> u] \in Z <=> u # id
    BY RowsAreRows DEF OtherRows, Cells
  <2> HIDE DEF Z
  <2>2. QED
    BY <2>1, TagWithout
<1> HIDE DEF one, T
<1>5. c \in Seq(T) /\ ToSet(c) = ToSet(P) \cup ToSet(one)
  <2>1. P \in Seq(T) /\ one \in Seq(T)
    BY <1>2 DEF T
  <2>2. QED
    BY <2>1, ConcatIs
<1>6. ToSet(c) \cap Z = {}
  BY <1>1, <1>2, <1>5 DEF OtherRows
<1> HIDE DEF c, t, Z
<1>7. Only(c, Z) = <<>>
  BY <1>5, <1>6, OnlyNone
<1>8. Only(c \o t, Z) = Only(c, Z) \o Only(t, Z)
  BY <1>3, <1>5, OnlyConcat
<1>9. Only(t, Z) \in Seq(T)
  BY <1>3, OnlyType
<1>10. c \o t \in Seq(T) /\ Only(c \o t, Z) = Only(t, Z)
  <2>1. <<>> \o Only(t, Z) = Only(t, Z)
    BY <1>9, EmptyJoin
  <2>2. c \o t \in Seq(T)
    BY <1>3, <1>5, ConcatType
  <2>3. QED
    BY <1>7, <1>8, <2>1, <2>2
<1>11. QED
  BY <1>4, <1>10 DEF IsAbove, c, t, one, h, T, Z

(* Of what is below it, the same. *)
LEMMA BelowRows ==
  ASSUME NEW k, NEW s \in Sections, NEW id, NEW Q \in Seq(Cells(k)), NEW R2 \in Seq(RowsOf(k)),
         \A x \in ToSet(Q) : x.section # s, NEW B, IsBelow(B, s, R2, Q)
  PROVE  B \in Seq(Cells(k)) /\ Only(B, OtherRows(k, s, id)) = Tag(s, Without(R2, id))
<1> DEFINE T == Cells(k)
           t == Tag(s, R2)
           Z == OtherRows(k, s, id)
<1>3. t \in Seq(T)
  BY TagIs
<1>4. Only(t, Z) = Tag(s, Without(R2, id))
  <2>1. \A u \in RowsOf(k) : [section |-> s, row |-> u] \in Z <=> u # id
    BY RowsAreRows DEF OtherRows, Cells
  <2> HIDE DEF Z
  <2>2. QED
    BY <2>1, TagWithout
<1>6. ToSet(Q) \cap Z = {}
  BY DEF OtherRows
<1> HIDE DEF t, Z
<1>5. Q \in Seq(T)
  OBVIOUS
<1> HIDE DEF T
<1>7. Only(Q, Z) = <<>>
  BY <1>5, <1>6, OnlyNone
<1>8. Only(t \o Q, Z) = Only(t, Z) \o Only(Q, Z)
  BY <1>3, <1>5, OnlyConcat
<1>9. Only(t, Z) \in Seq(T)
  BY <1>3, OnlyType
<1>10. t \o Q \in Seq(T) /\ Only(t \o Q, Z) = Only(t, Z)
  <2>1. Only(t, Z) \o <<>> = Only(t, Z)
    BY <1>9, EmptyJoin
  <2>2. t \o Q \in Seq(T)
    BY <1>3, <1>5, ConcatType
  <2>3. QED
    BY <1>7, <1>8, <2>1, <2>2
<1>11. QED
  BY <1>4, <1>10 DEF IsBelow, t, T, Z

(* The row the gap comes before: the section's first below it, if any. *)
NextRow(c, id) == IF Without(c, id) # <<>> THEN Head(Without(c, id)) ELSE NoRow

LEMMA HeadJoin ==
  ASSUME NEW T, NEW a \in Seq(T), NEW b \in Seq(T), a # <<>>
  PROVE  a \o b # <<>> /\ Head(a \o b) = Head(a)
<1>1. /\ Len(a \o b) = Len(a) + Len(b) /\ Len(a) \in Nat /\ Len(b) \in Nat /\ a \o b \in Seq(T)
      /\ \A i \in 1 .. Len(a) : (a \o b)[i] = a[i]
  OBVIOUS
<1>2. Len(a) # 0
  OBVIOUS
<1>3. 1 \in 1 .. Len(a)
  BY <1>1, <1>2
<1>4. (a \o b)[1] = a[1] /\ Len(a \o b) # 0
  BY <1>1, <1>2, <1>3
<1> DEFINE c == a \o b
<1>5. c \in Seq(T) /\ Len(c) # 0 /\ c[1] = a[1]
  BY <1>1, <1>4
<1> HIDE DEF c
<1>6. c # <<>> /\ Head(c) = c[1] /\ Head(a) = a[1]
  BY <1>5
<1>7. QED
  BY <1>5, <1>6 DEF c

LEMMA HeadTag ==
  ASSUME NEW T, NEW c \in Seq(T), NEW s
  PROVE  IF c # <<>> THEN Tag(s, c) # <<>> /\ Head(Tag(s, c)) = [section |-> s, row |-> Head(c)]
         ELSE Tag(s, c) = <<>>
<1> DEFINE t == Tag(s, c)
           E == [section : {s}, row : T]
<1>1. t \in Seq(E) /\ Len(t) = Len(c) /\ \A i \in 1 .. Len(c) : t[i] = [section |-> s, row |-> c[i]]
  BY TagType, ZenonT(30)
<1> HIDE DEF t, E
<1>2. CASE c = <<>>
  BY <1>1, <1>2 DEF t
<1>3. CASE c # <<>>
  <2>1. Len(c) # 0 /\ Len(c) \in Nat
    BY <1>3
  <2>2. 1 \in 1 .. Len(c)
    BY <2>1
  <2>3. t # <<>> /\ Head(t) = t[1] /\ Head(c) = c[1]
    BY <1>1, <2>1
  <2>4. t[1] = [section |-> s, row |-> c[1]]
    BY <1>1, <2>2
  <2>5. QED
    BY <1>3, <2>3, <2>4 DEF t
<1>4. QED
  BY <1>2, <1>3

LEMMA GapBefore ==
  ASSUME NEW k, NEW s \in Sections, NEW id, NEW Q \in Seq(Cells(k)), NEW R2 \in Seq(RowsOf(k)),
         \A x \in ToSet(Q) : x.section # s
  PROVE  LET below == RestOf(Tag(s, R2) \o Q, id)
         IN  (IF below # <<>> /\ Head(below).section = s THEN Head(below).row ELSE NoRow)
               = NextRow(R2, id)
<1> DEFINE T == Cells(k)
           t == Tag(s, R2)
           B == t \o Q
           S1 == {x \in ToSet(B) : x.row # id}
           S == {x \in T : x.row # id}
           below == RestOf(B, id)
           Y == Without(R2, id)
           y == Tag(s, Y)
           q == Only(Q, S)
<1>1. t \in Seq(T)
  BY TagIs
<1>2. B \in Seq(T)
  <2> HIDE DEF t, T
  <2>1. Q \in Seq(T)
    BY DEF T
  <2>2. QED
    BY <1>1, <2>1, ConcatType
<1>3. ToSet(B) \cap S1 = ToSet(B) \cap S
  <2> HIDE DEF B, T
  <2>1. ToSet(B) \subseteq T
    BY <1>2 DEF ToSet
  <2>2. QED
    BY <2>1
<1>4. below = Only(B, S)
  <2>1. below = Only(B, S1)
    BY DEF RestOf
  <2> HIDE DEF B, S1, S, below, T
  <2>2. QED
    BY <1>2, <1>3, <2>1, OnlySame
<1>5. Only(t, S) = y
  <2>1. \A u \in RowsOf(k) : [section |-> s, row |-> u] \in S <=> u # id
    BY DEF Cells
  <2> HIDE DEF S
  <2>2. QED
    BY <2>1, TagWithout
<1>6. Only(B, S) = Only(t, S) \o q
  <2> HIDE DEF t, S, T
  <2>1. Q \in Seq(T)
    BY DEF T
  <2>2. QED
    BY <1>1, <2>1, OnlyConcat
<1>7. q \in Seq(T) /\ ToSet(q) \subseteq ToSet(Q)
  <2> HIDE DEF S
  <2>1. q \in Seq(T)
    BY OnlyType
  <2>2. ToSet(q) = ToSet(Q) \cap S
    BY OnlyIs
  <2>3. QED
    BY <2>1, <2>2
<1>8. Y \in Seq(RowsOf(k))
  BY WithoutIs
<1>9. y \in Seq(T)
  <2> HIDE DEF Y
  <2>1. QED
    BY <1>8, TagIs
<1>10. IF Y # <<>> THEN y # <<>> /\ Head(y) = [section |-> s, row |-> Head(Y)] ELSE y = <<>>
  <2> HIDE DEF Y
  <2>1. QED
    BY <1>8, HeadTag
<1>11. below = y \o q
  BY <1>4, <1>5, <1>6
<1> HIDE DEF below, y, q, Y, T, B
<1>12. CASE Y # <<>>
  <2>1. y # <<>> /\ Head(y) = [section |-> s, row |-> Head(Y)]
    BY <1>10, <1>12
  <2>2. q \in Seq(T)
    BY <1>7
  <2>3. y \o q # <<>> /\ Head(y \o q) = Head(y)
    BY <1>9, <2>1, <2>2, HeadJoin
  <2>4. below # <<>> /\ Head(below) = [section |-> s, row |-> Head(Y)]
    BY <1>11, <2>1, <2>3
  <2>5. Head(below).section = s /\ Head(below).row = Head(Y)
    BY <2>4
  <2>6. QED
    BY <1>12, <2>4, <2>5 DEF NextRow, below, Y, B, t
<1>13. CASE Y = <<>>
  <2>1. y = <<>>
    BY <1>10, <1>13
  <2>2. q \in Seq(T)
    BY <1>7
  <2>3. below = q
    BY <1>11, <2>1, <2>2, EmptyJoin
  <2>4. q # <<>> => Head(q).section # s
    <3> SUFFICES ASSUME q # <<>> PROVE Head(q).section # s
      OBVIOUS
    <3>1. 1 \in DOMAIN q /\ Head(q) = q[1]
      BY <2>2
    <3>2. Head(q) \in ToSet(q)
      BY <3>1 DEF ToSet
    <3>3. QED
      BY <1>7, <3>2
  <2>5. ~(below # <<>> /\ Head(below).section = s)
    BY <2>3, <2>4
  <2>6. QED
    BY <1>13, <2>5 DEF NextRow, below, Y, B, t
<1>14. QED
  BY <1>12, <1>13

(* The gap's section shows R1 above it and R2 below it. *)
GapParts(g, v, id, R1, R2) ==
  /\ RowsIn(v, g.group) = R1 \o R2
  /\ g.want = Without(R1, id) \o <<id>> \o Without(R2, id)
  /\ g.before = NextRow(R2, id)

GapFits(g, v, id, k) == \E R1, R2 \in Seq(RowsOf(k)) : GapParts(g, v, id, R1, R2)

LEMMA GapSays ==
  ASSUME NEW k, NEW v \in Snapshots(k), NEW id \in RowsOf(k), NEW e \in DOMAIN Elements(v), NEW after \in BOOLEAN,
         Elements(v)[e].row = NoRow => after
  PROVE  LET g == GapAt(v, id, e, after)
         IN  /\ g.kind = "gap" /\ g.fresh = TRUE /\ g.group \in ToSet(v.groups) \cup {Ungrouped}
             /\ g.shown => GapFits(g, v, id, k)
<1> DEFINE g == GapAt(v, id, e, after)
           s == Elements(v)[e].section
           above == AboveGap(v, id, e, after)
           below == BelowGap(v, id, e, after)
           cut == CutOf(e, after)
<1>1. /\ g.kind = "gap" /\ g.fresh = TRUE /\ g.group = s /\ g.shown = (s \notin v.kept)
      /\ g.before = IF below # <<>> /\ Head(below).section = s THEN Head(below).row ELSE NoRow
      /\ g.want = Untag(OwnOf(above, s)) \o <<id>> \o Untag(OwnOf(below, s))
  <2>1. GapReads(g, v, id, e, after)
    <3> HIDE DEF s, above, below
    <3>1. QED
      BY GapIs
  <2> HIDE DEF g
  <2>2. QED
    BY <2>1 DEF GapReads
<1>2. s \in Sections /\ s \in ToSet(v.groups) \cup {Ungrouped}
  BY ElementsSplit
<1> SUFFICES ASSUME g.shown PROVE GapFits(g, v, id, k)
  BY <1>1, <1>2
<1>3. s \notin v.kept
  BY <1>1
<1>4. PICK P \in Seq(Cells(k)), Q \in Seq(Cells(k)), R1 \in Seq(RowsOf(k)), R2 \in Seq(RowsOf(k)) :
        CutShows(v, s, cut, P, Q, R1, R2)
  BY <1>3, ElementsCut
<1> DEFINE A == SubSeq(Elements(v), 1, cut)
           B == SubSeq(Elements(v), cut + 1, Len(Elements(v)))
           Z == OtherRows(k, s, id)
<1>5. above = RestOf(A, id) /\ below = RestOf(B, id)
  BY DEF AboveGap, BelowGap
<1>c. Clear(P, Q, s) /\ RowsIn(v, s) = R1 \o R2 /\ IsAbove(A, P, s, R1) /\ IsBelow(B, s, R2, Q)
  BY <1>4 DEF CutShows, IsAbove, IsBelow
<1> HIDE DEF cut, above, below, g, s, A, B
<1>6. (\A x \in ToSet(P) : x.section # s) /\ \A x \in ToSet(Q) : x.section # s
  BY <1>c DEF Clear
<1>7. A \in Seq(Cells(k)) /\ Only(A, Z) = Tag(s, Without(R1, id))
  <2>1. \A x \in ToSet(P) : x.section # s
    BY <1>6
  <2>2. IsAbove(A, P, s, R1)
    BY <1>c
  <2>3. s \in Sections
    BY <1>2
  <2> HIDE DEF Z
  <2>4. A \in Seq(Cells(k)) /\ Only(A, OtherRows(k, s, id)) = Tag(s, Without(R1, id))
    BY <2>1, <2>2, <2>3, AboveRows
  <2>5. QED
    BY <2>4 DEF Z
<1>8. B \in Seq(Cells(k)) /\ Only(B, Z) = Tag(s, Without(R2, id))
  <2>1. \A x \in ToSet(Q) : x.section # s
    BY <1>6
  <2>2. IsBelow(B, s, R2, Q)
    BY <1>c
  <2>3. s \in Sections
    BY <1>2
  <2> HIDE DEF Z
  <2>4. B \in Seq(Cells(k)) /\ Only(B, OtherRows(k, s, id)) = Tag(s, Without(R2, id))
    BY <2>1, <2>2, <2>3, BelowRows
  <2>5. QED
    BY <2>4 DEF Z
<1>9. Without(R1, id) \in Seq(RowsOf(k)) /\ Without(R2, id) \in Seq(RowsOf(k))
  BY WithoutIs
<1>10. Untag(OwnOf(above, s)) = Without(R1, id)
  <2>1. OwnOf(RestOf(A, id), s) = Only(A, Z)
    BY <1>7, OwnRest
  <2>2. Untag(Tag(s, Without(R1, id))) = Without(R1, id)
    BY <1>9, TagMembers
  <2>3. QED
    BY <1>5, <1>7, <2>1, <2>2
<1>11. Untag(OwnOf(below, s)) = Without(R2, id)
  <2>1. OwnOf(RestOf(B, id), s) = Only(B, Z)
    BY <1>8, OwnRest
  <2>2. Untag(Tag(s, Without(R2, id))) = Without(R2, id)
    BY <1>9, TagMembers
  <2>3. QED
    BY <1>5, <1>8, <2>1, <2>2
<1>12. g.before = NextRow(R2, id)
  <2> DEFINE b == RestOf(Tag(s, R2) \o Q, id)
  <2>1. (IF b # <<>> /\ Head(b).section = s THEN Head(b).row ELSE NoRow) = NextRow(R2, id)
    BY <1>2, <1>6, GapBefore
  <2> HIDE DEF b
  <2>2. below = b
    BY <1>5, <1>c DEF b, IsBelow
  <2>3. QED
    BY <1>1, <2>1, <2>2
<1>13. GapParts(g, v, id, R1, R2)
  BY <1>1, <1>c, <1>10, <1>11, <1>12 DEF GapParts
<1>14. QED
  BY <1>13 DEF GapFits

-----------------------------------------------------------------------------
LEMMA JoinedTail ==
  ASSUME NEW T, NEW a \in Seq(T), NEW b \in Seq(T), NEW c \in Seq(T), a \o b = a \o c
  PROVE  b = c
<1>1. SubSeq(a \o b, Len(a) + 1, Len(a \o b)) = b
  BY JoinIs
<1>2. SubSeq(a \o c, Len(a) + 1, Len(a \o c)) = c
  BY JoinIs
<1>3. QED
  BY <1>1, <1>2

LEMMA FirstAndTail ==
  ASSUME NEW T, NEW c \in Seq(T), c # <<>>
  PROVE  Head(c) \in T /\ Tail(c) \in Seq(T) /\ c = <<Head(c)>> \o Tail(c)
OBVIOUS

LEMMA FrontAndLast ==
  ASSUME NEW T, NEW c \in Seq(T), c # <<>>
  PROVE  LET f == SubSeq(c, 1, Len(c) - 1)
         IN  f \in Seq(T) /\ Last(c) \in T /\ c = f \o <<Last(c)>>
<1> DEFINE n == Len(c) - 1
           f == SubSeq(c, 1, n)
           b == SubSeq(c, n + 1, Len(c))
<1>1. Len(c) \in Nat /\ Len(c) # 0
  OBVIOUS
<1>2. n \in 0 .. Len(c)
  BY <1>1
<1>3. f \in Seq(T) /\ b \in Seq(T) /\ Len(f) = n /\ c = f \o b
  <2> HIDE DEF n
  <2>1. QED
    BY <1>2, SplitIs
<1>4. Len(c) \in DOMAIN c
  BY <1>1
<1>5. c[Len(c)] \in T
  BY <1>4
<1>6. b = <<c[Len(c)]>>
  <2> DEFINE x == c[Len(c)]
             o == <<x>>
  <2>1. Len(b) = 1 /\ b[1] = x
    BY <1>1
  <2> HIDE DEF b, x
  <2>2. o \in Seq(T) /\ Len(o) = 1 /\ o[1] = x
    BY <1>5 DEF x
  <2> HIDE DEF o
  <2>3. b = o
    BY <1>3, <2>1, <2>2, SeqEqual
  <2>4. QED
    BY <2>3 DEF o, x
<1>7. QED
  BY <1>3, <1>5, <1>6 DEF Last

(* Put in between, the new element parts what was kept around it. *)
Puts(r, W, at, X, Y) ==
  /\ at \in 1 .. Len(r) + 1
  /\ Only(SubSeq(r, 1, at - 1), W) = X
  /\ Only(SubSeq(r, at, Len(r)), W) = Y

LEMMA PutsIn ==
  ASSUME NEW T, NEW r \in Seq(T), NEW W, NEW X, NEW Y, NEW at, NEW id \in W, id \in T, Puts(r, W, at, X, Y)
  PROVE  Only(InsertAt(r, at, id), W) = X \o <<id>> \o Y
<1> DEFINE a == SubSeq(r, 1, at - 1)
           b == SubSeq(r, at, Len(r))
           m == <<id>>
<1>1. at \in 1 .. Len(r) + 1 /\ Only(a, W) = X /\ Only(b, W) = Y
  BY DEF Puts
<1>2. a \in Seq(T) /\ b \in Seq(T)
  BY <1>1
<1>3. m \in Seq(T) /\ ToSet(m) \subseteq W
  BY OneIs
<1>4. InsertAt(r, at, id) = a \o m \o b
  BY DEF InsertAt
<1> HIDE DEF a, b, m
<1>5. Only(a \o m \o b, W) = Only(a, W) \o m \o Only(b, W)
  BY <1>2, <1>3, OnlyAround, SMTT(30)
<1>6. QED
  BY <1>1, <1>4, <1>5 DEF m

(* The place of the row below the gap. *)
LEMMA PutsBefore ==
  ASSUME NEW T, NEW r \in Seq(T), Unique(r), NEW W, NEW X \in Seq(T), NEW Y \in Seq(T), Y # <<>>,
         IsJoin(Only(r, W), X, Y)
  PROVE  Head(Y) \in ToSet(r) /\ Puts(r, W, Place(r, Head(Y)), X, Y)
<1> DEFINE z == Head(Y)
           y == Tail(Y)
           i == Place(r, z)
           a == SubSeq(r, 1, i - 1)
           b == SubSeq(r, i, Len(r))
<1>1. z \in T /\ y \in Seq(T) /\ Y = <<z>> \o y
  BY FirstAndTail
<1> HIDE DEF z, y
<1>2. Parted(Only(r, W), X, z, y)
  <2> DEFINE m == <<z>>
  <2>1. m \in Seq(T)
    BY <1>1
  <2> HIDE DEF m
  <2>2. X \o (m \o y) = (X \o m) \o y
    BY <1>1, <2>1, ConcatAssoc
  <2>3. QED
    BY <1>1, <2>2 DEF IsJoin, Parted, m
<1>3. i \in 1 .. Len(r) /\ z \in ToSet(r) /\ a \in Seq(T) /\ Only(a, W) = X
  BY <1>1, <1>2, CutAt
<1> HIDE DEF i
<1>4. Len(r) \in Nat /\ i \in Nat
  BY <1>3
<1>5. a \o b = r /\ b \in Seq(T)
  <2> DEFINE j == i - 1
  <2>1. j \in 0 .. Len(r) /\ j + 1 = i
    BY <1>3, <1>4
  <2> HIDE DEF j
  <2>2. SubSeq(r, j + 1, Len(r)) \in Seq(T) /\ r = SubSeq(r, 1, j) \o SubSeq(r, j + 1, Len(r))
    BY <2>1, SplitIs
  <2>3. QED
    BY <2>1, <2>2 DEF j
<1> HIDE DEF a, b
<1>c. a \in Seq(T) /\ b \in Seq(T)
  BY <1>3, <1>5
<1>6. Only(a \o b, W) = Only(a, W) \o Only(b, W)
  BY <1>c, OnlyConcat, SMTT(30)
<1>7. Only(b, W) \in Seq(T)
  BY <1>5, OnlyType
<1>8. X \o Only(b, W) = X \o Y
  BY <1>3, <1>5, <1>6 DEF IsJoin
<1>9. Only(b, W) = Y
  <2> DEFINE o == Only(b, W)
  <2>1. o \in Seq(T) /\ X \o o = X \o Y
    BY <1>7, <1>8
  <2> HIDE DEF o
  <2>2. o = Y
    BY <2>1, JoinedTail
  <2>3. QED
    BY <2>2 DEF o
<1>10. QED
  BY <1>3, <1>4, <1>9 DEF Puts, z, i, a, b

(* The place after the last row of the section. *)
LEMMA PutsAfter ==
  ASSUME NEW T, NEW r \in Seq(T), Unique(r), NEW W, NEW X \in Seq(T), X # <<>>, IsJoin(Only(r, W), X, <<>>)
  PROVE  Puts(r, W, Place(r, Last(X)) + 1, X, <<>>)
<1> DEFINE z == Last(X)
           f == SubSeq(X, 1, Len(X) - 1)
           i == Place(r, z)
           a == SubSeq(r, 1, i)
           b == SubSeq(r, i + 1, Len(r))
           e == <<>>
<1>1. f \in Seq(T) /\ z \in T /\ X = f \o <<z>>
  BY FrontAndLast
<1> HIDE DEF z, f
<1>e. e \in Seq(T) /\ X \o <<>> = X /\ X \o e = X
  BY EmptyJoin
<1>2. Parted(Only(r, W), f, z, e)
  BY <1>1, <1>e DEF IsJoin, Parted
<1> HIDE DEF e
<1>3. i \in 1 .. Len(r) /\ b \in Seq(T) /\ Only(b, W) = e
  BY <1>1, <1>2, <1>e, CutAt
<1> HIDE DEF i
<1>4. Len(r) \in Nat /\ i \in 0 .. Len(r)
  BY <1>3
<1>5. a \in Seq(T) /\ r = a \o b
  BY <1>4, SplitIs
<1> HIDE DEF a, b
<1>c. a \in Seq(T) /\ b \in Seq(T)
  BY <1>3, <1>5
<1>6. Only(a \o b, W) = Only(a, W) \o Only(b, W)
  BY <1>c, OnlyConcat
<1>7. Only(a, W) \in Seq(T)
  BY <1>5, OnlyType
<1>8. Only(a, W) \o <<>> = Only(a, W)
  BY <1>7, EmptyJoin
<1>9. Only(a, W) = X
  BY <1>3, <1>5, <1>6, <1>8, <1>e DEF IsJoin, e
<1>10. i + 1 \in 1 .. Len(r) + 1 /\ (i + 1) - 1 = i
  BY <1>3, <1>4
<1>11. QED
  BY <1>3, <1>9, <1>10 DEF Puts, z, i, a, b, e

(* The end of the list, for a section that shows no row. *)
LEMMA PutsLast ==
  ASSUME NEW T, NEW r \in Seq(T), NEW W, Only(r, W) = <<>>
  PROVE  Puts(r, W, Len(r) + 1, <<>>, <<>>)
<1>1. Len(r) \in Nat /\ (Len(r) + 1) - 1 = Len(r) /\ Len(r) + 1 \in 1 .. Len(r) + 1
  OBVIOUS
<1>2. SubSeq(r, 1, Len(r)) = r /\ SubSeq(r, Len(r) + 1, Len(r)) = <<>>
  OBVIOUS
<1>3. QED
  BY <1>1, <1>2, OnlyEmpty DEF Puts

-----------------------------------------------------------------------------
(* The drop's plan.                                                        *)

(* The rows section s shows once id is in it. *)
With(v, s, id) == {t \in ToSet(v.order) : GroupOf(v, t) = s} \cup {id}

LEMMA MembersAre ==
  ASSUME NEW k, NEW v \in Snapshots(k), NEW id \in RowsOf(k), NEW s,
         NEW R1 \in Seq(RowsOf(k)), NEW R2 \in Seq(RowsOf(k)), IsJoin(RowsIn(v, s), R1, R2)
  PROVE  /\ IsJoin(Without(RowsIn(v, s), id), Without(R1, id), Without(R2, id))
         /\ IsJoin(Only(Without(v.order, id), With(v, s, id)), Without(R1, id), Without(R2, id))
<1> DEFINE T == RowsOf(k)
           D == T \ {id}
           V == {t \in ToSet(v.order) : GroupOf(v, t) = s}
           W == With(v, s, id)
           R == RowsIn(v, s)
           o == v.order
           X == Without(R1, id)
           Y == Without(R2, id)
<1>1. o \in Seq(T) /\ R \in Seq(T) /\ R = Only(o, V)
  <2>1. o \in Seq(T)
    BY SnapshotsAre
  <2>2. R \in Seq(T)
    BY RowsInIs
  <2>3. R = Only(o, V)
    BY DEF RowsIn
  <2>4. QED
    BY <2>1, <2>2, <2>3
<1>2. D \cap W = V \cap D
  BY DEF With
<1>3. IsJoin(R, R1, R2)
  OBVIOUS
<1> HIDE DEF o, V, R, W, T, D
<1>o. o \in Seq(T) /\ R \in Seq(T) /\ R1 \in Seq(T) /\ R2 \in Seq(T)
  BY <1>1 DEF T
<1>4. Without(R, id) = Only(R, D) /\ Without(o, id) = Only(o, D) /\ X = Only(R1, D) /\ Y = Only(R2, D)
  BY <1>o, WithoutAs DEF D
<1>5. Only(R1 \o R2, D) = Only(R1, D) \o Only(R2, D)
  BY <1>o, OnlyConcat
<1>6. Only(R, D) = X \o Y
  <2> HIDE DEF X, Y
  <2>1. QED
    BY <1>3, <1>4, <1>5 DEF IsJoin
<1>7. Only(Only(o, V), D) = Only(o, V \cap D)
  BY <1>o, OnlyTwice
<1>8. Only(Only(o, D), W) = Only(o, D \cap W)
  BY <1>o, OnlyTwice
<1>9. Only(Without(o, id), W) = X \o Y
  <2> HIDE DEF X, Y
  <2>1. QED
    BY <1>1, <1>2, <1>4, <1>6, <1>7, <1>8
<1> HIDE DEF X, Y
<1>10. Without(R, id) = X \o Y
  BY <1>4, <1>6
<1>11. QED
  BY <1>9, <1>10 DEF IsJoin, X, Y, W, o, R

PlanPuts(v, id, group, before, X, Y) ==
  LET plan == MovePlan(v, id, group, before)
  IN  plan.to = group /\ Only(plan.order, With(v, group, id)) = X \o <<id>> \o Y

(* The drop's plan puts the row exactly in the gap. *)
LEMMA PlanLands ==
  ASSUME NEW k, NEW v \in Snapshots(k), NEW id \in RowsOf(k), NEW group \in ToSet(v.groups) \cup {Ungrouped},
         NEW R1 \in Seq(RowsOf(k)), NEW R2 \in Seq(RowsOf(k)), IsJoin(RowsIn(v, group), R1, R2)
  PROVE  PlanPuts(v, id, group, NextRow(R2, id), Without(R1, id), Without(R2, id))
<1> DEFINE T == RowsOf(k)
           before == NextRow(R2, id)
           to == IF group \in ToSet(v.groups) THEN group ELSE Ungrouped
           rest == Without(v.order, id)
           members == Without(RowsIn(v, group), id)
           at == IF before \in ToSet(rest) THEN Place(rest, before)
                 ELSE IF members # <<>> THEN Place(rest, Last(members)) + 1
                      ELSE Len(rest) + 1
           W == With(v, group, id)
           X == Without(R1, id)
           Y == Without(R2, id)
<1>1. to = group
  OBVIOUS
<1>2. MovePlan(v, id, group, before) = [to |-> to, order |-> InsertAt(rest, at, id)]
  BY <1>1 DEF MovePlan
<1>3. rest \in Seq(T) /\ Unique(rest)
  <2>1. v.order \in Seq(T) /\ Unique(v.order)
    BY SnapshotsAre
  <2> HIDE DEF T
  <2>2. QED
    BY <2>1, WithoutIs
<1>4. IsJoin(members, X, Y) /\ IsJoin(Only(rest, W), X, Y)
  BY MembersAre
<1>5. X \in Seq(T) /\ Y \in Seq(T)
  BY WithoutIs
<1>6. id \in W /\ id \in T
  BY DEF With
<1>7. NoRow \notin ToSet(rest)
  <2>1. NoRow \notin T
    BY RowsAreRows
  <2> HIDE DEF T, rest
  <2>2. ToSet(rest) \subseteq T
    BY <1>3 DEF ToSet
  <2>3. QED
    BY <2>1, <2>2
<1>8. before = IF Y # <<>> THEN Head(Y) ELSE NoRow
  BY DEF NextRow
<1> HIDE DEF before, to, rest, members, W, X, Y, T
<1>9. Puts(rest, W, at, X, Y)
  <2>1. CASE Y # <<>>
    <3>1. Head(Y) \in ToSet(rest) /\ Puts(rest, W, Place(rest, Head(Y)), X, Y)
      <4>1. rest \in Seq(T) /\ Unique(rest) /\ X \in Seq(T) /\ Y \in Seq(T) /\ IsJoin(Only(rest, W), X, Y)
        BY <1>3, <1>4, <1>5
      <4>2. QED
        BY <4>1, <2>1, PutsBefore
    <3>2. before = Head(Y)
      BY <1>8, <2>1
    <3>3. at = Place(rest, Head(Y))
      BY <3>1, <3>2
    <3>4. QED
      BY <3>1, <3>3
  <2>2. CASE Y = <<>>
    <3>1. before \notin ToSet(rest)
      BY <1>7, <1>8, <2>2
    <3>2. members = X /\ IsJoin(Only(rest, W), X, <<>>) /\ Only(rest, W) = X
      <4>1. X \o Y = X
        BY <1>5, <2>2, EmptyJoin
      <4>2. QED
        BY <1>4, <2>2, <4>1 DEF IsJoin
    <3>3. CASE X # <<>>
      <4>1. Puts(rest, W, Place(rest, Last(X)) + 1, X, <<>>)
        <5>1. rest \in Seq(T) /\ Unique(rest) /\ X \in Seq(T) /\ IsJoin(Only(rest, W), X, <<>>)
          BY <1>3, <1>5, <3>2
        <5>2. QED
          BY <5>1, <3>3, PutsAfter
      <4>2. at = Place(rest, Last(X)) + 1
        BY <3>1, <3>2, <3>3
      <4>3. QED
        BY <4>1, <4>2, <2>2
    <3>4. CASE X = <<>>
      <4>1. Only(rest, W) = <<>>
        BY <3>2, <3>4
      <4>2. Puts(rest, W, Len(rest) + 1, <<>>, <<>>)
        BY <4>1, <1>3, PutsLast
      <4>3. at = Len(rest) + 1
        BY <3>1, <3>2, <3>4
      <4>4. QED
        BY <4>2, <4>3, <2>2, <3>4
    <3>5. QED
      BY <3>3, <3>4
  <2>3. QED
    BY <2>1, <2>2
<1> HIDE DEF at
<1>10. Only(InsertAt(rest, at, id), W) = X \o <<id>> \o Y
  <2>1. rest \in Seq(T) /\ id \in W /\ id \in T
    BY <1>3, <1>6
  <2>2. QED
    BY <2>1, <1>9, PutsIn
<1> DEFINE plan == MovePlan(v, id, group, before)
<1>11. plan.to = group /\ plan.order = InsertAt(rest, at, id)
  BY <1>1, <1>2
<1> HIDE DEF plan
<1>12. plan.to = group /\ Only(plan.order, W) = X \o <<id>> \o Y
  BY <1>10, <1>11
<1>13. QED
  BY <1>12 DEF PlanPuts, plan, before, W, X, Y

(* ... and a drop that asks for nothing is one onto the row's own place. *)
LEMMA GapPlaced ==
  ASSUME NEW k, NEW v \in Snapshots(k), NEW id \in RowsOf(k), NEW g, g.group \in ToSet(v.groups) \cup {Ungrouped},
         GapFits(g, v, id, k)
  PROVE  LET plan == MovePlan(v, id, g.group, g.before)
         IN  /\ plan.to = g.group /\ Only(plan.order, With(v, g.group, id)) = g.want
             /\ PlanIsIdle(v, id, plan) => g.want = RowsIn(v, g.group)
<1> DEFINE plan == MovePlan(v, id, g.group, g.before)
           s == g.group
<1>1. PICK R1 \in Seq(RowsOf(k)), R2 \in Seq(RowsOf(k)) : GapParts(g, v, id, R1, R2)
  BY DEF GapFits
<1>2. IsJoin(RowsIn(v, s), R1, R2) /\ g.before = NextRow(R2, id) /\ g.want = Without(R1, id) \o <<id>> \o Without(R2, id)
  BY <1>1 DEF GapParts, IsJoin
<1>3. PlanPuts(v, id, s, NextRow(R2, id), Without(R1, id), Without(R2, id))
  <2>1. IsJoin(RowsIn(v, s), R1, R2) /\ s \in ToSet(v.groups) \cup {Ungrouped}
    BY <1>2
  <2> HIDE DEF s
  <2>2. QED
    BY <2>1, PlanLands
<1>4. plan.to = s /\ Only(plan.order, With(v, s, id)) = g.want
  BY <1>2, <1>3 DEF PlanPuts
<1>5. ToSet(plan.order) = ToSet(v.order) \cup {id}
  BY PlanMoves
<1> HIDE DEF plan, s
<1>6. PlanIsIdle(v, id, plan) => g.want = RowsIn(v, s)
  <2> SUFFICES ASSUME PlanIsIdle(v, id, plan) PROVE g.want = RowsIn(v, s)
    OBVIOUS
  <2>1. GroupOf(v, id) = s /\ plan.order = v.order
    BY <1>4 DEF PlanIsIdle
  <2>2. With(v, s, id) = {t \in ToSet(v.order) : GroupOf(v, t) = s}
    BY <1>5, <2>1 DEF With
  <2>3. QED
    BY <1>4, <2>1, <2>2 DEF RowsIn
<1>7. QED
  BY <1>4, <1>6 DEF plan, s

-----------------------------------------------------------------------------
(* What holds of the gap and of the moves at every step.                   *)

OverGap == spot # NoSpot /\ spot.kind = "gap"

(* The gap names the section it is in and, if its rows are on screen, where in *)
(* it the row would go.                                                     *)
GapIsRight(g, v, id, k) ==
  g.group \in ToSet(v.groups) \cup {Ungrouped} /\ (g.shown => GapFits(g, v, id, k))

(* A gap is that of a row being dragged, and right as long as it is fresh. *)
SpotIsRight ==
  /\ drag = NoDrag => spot = NoSpot
  /\ drag.kind = "row" => drag.tree \in Trees /\ drag.id \in RowsOf(drag.tree)
  /\ OverGap => drag.kind = "row" /\ {"kind", "fresh"} \subseteq DOMAIN spot
  /\ OverGap /\ spot.fresh => GapIsRight(spot, view[drag.tree], drag.id, drag.tree)

(* The rows o's section shows once its row is in it, as o was planned. *)
Landing(o) == {t \in ToSet(o.list) : t = o.row \/ o.was.member[t] = o.to}

(* A move's plan: what was stored with its row in the gap. *)
PlanIsRight(o) ==
  /\ o.row \in ToSet(o.was.order) /\ ToSet(o.list) = ToSet(o.was.order)
  /\ Without(o.list, o.row) = Without(o.was.order, o.row)
  /\ o.shown => Only(o.list, Landing(o)) = o.want

(* What is stored is what the move's requests so far made of it. *)
MoveIsRight(o) ==
  /\ o.next \in {"update", "reorder", "landed"} /\ PlanIsRight(o)
  /\ o.to \in ToSet(groups) \cup {Ungrouped}
  /\ recs[o.tree].order = IF o.next = "landed" THEN o.list ELSE o.was.order
  /\ recs[o.tree].member = IF o.next = "update" THEN o.was.member
                           ELSE [o.was.member EXCEPT ![o.row] = o.to]

MovesAreRight == \A o \in ops : o.clean => MoveIsRight(o)

DropInv == TreeInv /\ SpotIsRight /\ MovesAreRight

-----------------------------------------------------------------------------
LEMMA ElementType ==
  ASSUME NEW k, NEW v \in Snapshots(k), NEW x \in ToSet(Elements(v))
  PROVE  x.row \in RowsOf(k) \cup {NoRow}
<1>1. PICK e \in DOMAIN Elements(v) : x = Elements(v)[e]
  BY DEF ToSet
<1> DEFINE s == Elements(v)[e].section
           M == PartOf(v, s)
           T == Cells(k)
<1>2. s \in Sections
  BY ElementsSplit
<1>3. PICK P \in Seq(T), Q \in Seq(T) :
        Elements(v) = P \o M \o Q /\ \A y \in ToSet(P) \cup ToSet(Q) : y.section # s
  BY ElementsSplit, ZenonT(30)
<1> HIDE DEF s
<1>4. M \in Seq(T)
  BY <1>2, PartIs
<1> HIDE DEF M, T
<1>5. P \o M \in Seq(T)
  BY <1>4, ConcatType
<1>6. (P \o M) \o Q \in Seq(T)
  <2> DEFINE c == P \o M
  <2> HIDE DEF c
  <2>1. c \in Seq(T)
    BY <1>5 DEF c
  <2>2. c \o Q \in Seq(T)
    BY <2>1, ConcatType
  <2>3. QED
    BY <2>2 DEF c
<1>7. Elements(v) \in Seq(T)
  BY <1>3, <1>6
<1>8. x \in T
  BY <1>1, <1>7
<1>9. QED
  BY <1>8 DEF T, Cells

LEMMA GapHas ==
  ASSUME NEW v, NEW id, NEW e, NEW after
  PROVE  {"kind", "fresh"} \subseteq DOMAIN GapAt(v, id, e, after)
BY DEF GapAt

LEMMA SpotSteps ==
  ASSUME TreeInv, SpotIsRight, [TreeNext]_treeVars
  PROVE  SpotIsRight'
<1>0. \A k \in Trees : view[k] \in Snapshots(k)
  BY DEF TreeInv, TreeTypes
<1>1. ASSUME UNCHANGED <<view, drag, spot>> PROVE SpotIsRight'
  BY <1>1 DEF SpotIsRight, OverGap
<1>2. ASSUME drag' = NoDrag, spot' = NoSpot PROVE SpotIsRight'
  BY <1>2 DEF SpotIsRight, OverGap, NoDrag
<1>3. ASSUME DragLeave PROVE SpotIsRight'
  BY <1>3 DEF DragLeave, SpotIsRight, OverGap
<1>4. ASSUME NEW k \in Trees, DragStart(k) PROVE SpotIsRight'
  <2>1. PICK e \in ToSet(Elements(view[k])) :
          drag' = IF e.row = NoRow THEN [tree |-> k, kind |-> "group", id |-> e.section]
                  ELSE [tree |-> k, kind |-> "row", id |-> e.row]
    BY <1>4 DEF DragStart
  <2>2. e.row \in RowsOf(k) \cup {NoRow}
    BY <1>0, ElementType
  <2>3. spot' = NoSpot
    BY <1>4 DEF DragStart
  <2>4. drag'.kind = "row" => drag'.tree = k /\ drag'.id \in RowsOf(k)
    BY <2>1, <2>2
  <2>5. QED
    BY <2>3, <2>4 DEF SpotIsRight, OverGap
<1>5. ASSUME NEW k \in Trees, RowDragOver(k) PROVE SpotIsRight'
  <2> DEFINE v == view[k]
             id == drag.id
  <2>1. PICK e \in DOMAIN Elements(v), after \in BOOLEAN :
          (Elements(v)[e].row = NoRow => after) /\ spot' = GapAt(v, id, e, after)
    BY <1>5 DEF RowDragOver
  <2>2. drag.tree = k /\ drag.kind = "row" /\ UNCHANGED <<view, drag>>
    BY <1>5 DEF RowDragOver
  <2>3. id \in RowsOf(k) /\ v \in Snapshots(k)
    BY <1>0, <2>2 DEF SpotIsRight
  <2> DEFINE g == GapAt(v, id, e, after)
  <2>4. g.group \in ToSet(v.groups) \cup {Ungrouped} /\ (g.shown => GapFits(g, v, id, k))
    <3> HIDE DEF v, id
    <3>1. Elements(v)[e].row = NoRow => after
      BY <2>1
    <3>2. QED
      BY <2>3, <3>1, GapSays
  <2>5. {"kind", "fresh"} \subseteq DOMAIN g
    BY GapHas
  <2> HIDE DEF g
  <2>6. spot' = g
    BY <2>1 DEF g
  <2>7. GapIsRight(spot', view[k], drag.id, k)
    BY <2>4, <2>6 DEF GapIsRight
  <2>8. drag # NoDrag
    BY <2>2 DEF NoDrag
  <2>9. QED
    BY <2>2, <2>3, <2>5, <2>6, <2>7, <2>8 DEF SpotIsRight, OverGap
<1>6. ASSUME NEW k \in Trees, HeaderDragOver(k) PROVE SpotIsRight'
  <2>1. drag.kind = "group" /\ UNCHANGED <<view, drag>>
    BY <1>6 DEF HeaderDragOver
  <2>2. PICK s : spot' = [kind |-> "header", group |-> s]
    BY <1>6 DEF HeaderDragOver
  <2>3. spot'.kind = "header" /\ drag # NoDrag
    BY <2>1, <2>2 DEF NoDrag
  <2>4. QED
    BY <2>1, <2>3 DEF SpotIsRight, OverGap
<1>7. ASSUME NEW k \in Trees, ToggleCollapse(k) PROVE SpotIsRight'
  <2>1. drag = NoDrag /\ UNCHANGED <<drag, spot>>
    BY <1>7 DEF ToggleCollapse, Calm
  <2>2. spot = NoSpot
    BY <2>1 DEF SpotIsRight
  <2>3. QED
    BY <1>2, <2>1, <2>2
<1>8. ASSUME NEW k \in Trees, ApplyLoad(k) PROVE SpotIsRight'
  <2>1. /\ view' = [view EXCEPT ![k] = Head(reads[k])] /\ UNCHANGED drag
        /\ spot' = IF drag.tree = k /\ spot.kind = "gap" THEN [spot EXCEPT !.fresh = FALSE] ELSE spot
    BY <1>8 DEF ApplyLoad
  <2>2. CASE drag.tree = k /\ spot.kind = "gap"
    <3>1. OverGap
      BY <2>2 DEF OverGap, NoSpot
    <3>2. drag.kind = "row" /\ {"kind", "fresh"} \subseteq DOMAIN spot
      BY <3>1 DEF SpotIsRight
    <3>3. spot' = [spot EXCEPT !.fresh = FALSE]
      BY <2>1, <2>2
    <3>4. DOMAIN spot' = DOMAIN spot /\ spot'.fresh = FALSE
      BY <3>2, <3>3
    <3>5. drag # NoDrag
      BY <3>2 DEF NoDrag
    <3>6. QED
      BY <2>1, <3>2, <3>4, <3>5 DEF SpotIsRight, OverGap
  <2>3. CASE ~(drag.tree = k /\ spot.kind = "gap")
    <3>1. UNCHANGED <<drag, spot>>
      BY <2>1, <2>3
    <3>2. OverGap => drag.tree # k /\ drag.tree \in Trees
      BY <2>3 DEF SpotIsRight, OverGap
    <3>3. DOMAIN view = Trees
      BY DEF TreeInv, TreeTypes
    <3>4. OverGap => view'[drag.tree] = view[drag.tree]
      BY <2>1, <3>2, <3>3
    <3>5. QED
      BY <3>1, <3>4 DEF SpotIsRight, OverGap
  <2>4. QED
    BY <2>2, <2>3
<1>9. CASE UNCHANGED treeVars
  BY <1>1, <1>9 DEF treeVars
<1>10. ASSUME NEW k \in Trees, DragsOver(k) PROVE SpotIsRight'
  BY <1>4, <1>5, <1>6, <1>10 DEF DragsOver
<1>11. ASSUME NEW k, Drop(k) PROVE SpotIsRight'
  BY <1>2, <1>11 DEF Drop
<1>12. ASSUME NEW k \in Trees, GroupActs(k) PROVE SpotIsRight'
  <2>1. CASE ToggleCollapse(k)
    BY <1>7, <2>1
  <2>2. CASE AssignRow(k) \/ NewGroup(k) \/ EditGroup(k) \/ CancelGroup(k) \/ SaveGroup(k) \/ DeleteGroup(k)
    BY <1>1, <2>2 DEF AssignRow, NewGroup, EditGroup, CancelGroup, SaveGroup, DeleteGroup
  <2>3. QED
    BY <1>12, <2>1, <2>2 DEF GroupActs
<1>13. ASSUME NEW k \in Trees, RowActs(k) PROVE SpotIsRight'
  <2>1. CASE NewRow(k) \/ DeleteRow(k)
    BY <1>1, <2>1 DEF NewRow, DeleteRow
  <2>2. QED
    BY <1>8, <1>13, <2>1 DEF RowActs
<1>14. CASE TableDrop \/ Serve
  BY <1>1, <1>14 DEF TableDrop, Serve, ServeMoveUpdate, ServeMoveReorder, ServeMoveLoad, ServeAssign,
     ServeGroups, ServeDelete, Announce, ServeSave, GroupSaved
<1>15. CASE DragEnd
  BY <1>2, <1>15 DEF DragEnd
<1>16. "tunnels" \in Trees /\ "consoles" \in Trees
  BY DEF Trees
<1>17. CASE DragsOver("tunnels") \/ ConsoleDragsOver
  BY <1>10, <1>16, <1>17 DEF ConsoleDragsOver
<1>18. CASE Drop("tunnels") \/ ConsoleDrop
  BY <1>11, <1>18 DEF ConsoleDrop
<1>19. CASE GroupActs("tunnels") \/ ConsoleGroupActs
  BY <1>12, <1>16, <1>19 DEF ConsoleGroupActs
<1>20. CASE RowActs("tunnels") \/ ConsoleRowActs
  BY <1>13, <1>16, <1>20 DEF ConsoleRowActs
<1>21. QED
  BY <1>3, <1>9, <1>14, <1>15, <1>17, <1>18, <1>19, <1>20 DEF TreeNext

(* What serving a request changes of it is what it does next. *)
LEMMA OpKeeps ==
  ASSUME NEW o, GoodOp(o), NEW x, NEW S, NEW g
  PROVE  /\ LET p == [o EXCEPT !.next = x]
            IN  /\ p.next = x /\ p.tree = o.tree /\ p.row = o.row /\ p.to = o.to /\ p.list = o.list
                /\ p.clean = o.clean /\ p.shown = o.shown /\ p.want = o.want /\ p.was = o.was
         /\ [o EXCEPT !.ids = S].clean = o.clean
         /\ [o EXCEPT !.next = x, !.ids = S].clean = o.clean
         /\ [o EXCEPT !.next = x, !.to = g].clean = o.clean
         /\ [o EXCEPT !.clean = FALSE].clean = FALSE
<1> DEFINE p == [o EXCEPT !.next = x]
           i == [o EXCEPT !.ids = S]
           pi == [p EXCEPT !.ids = S]
           pt == [p EXCEPT !.to = g]
           c == [o EXCEPT !.clean = FALSE]
<1>1. DOMAIN o = OpFields
  BY DEF GoodOp
<1>2. /\ p.next = x /\ p.tree = o.tree /\ p.row = o.row /\ p.to = o.to /\ p.list = o.list
      /\ p.clean = o.clean /\ p.shown = o.shown /\ p.want = o.want /\ p.was = o.was /\ DOMAIN p = OpFields
  BY <1>1 DEF OpFields
<1>3. i.clean = o.clean /\ c.clean = FALSE
  BY <1>1 DEF OpFields
<1> HIDE DEF p, i, c
<1>4. pi.clean = o.clean /\ pt.clean = o.clean
  BY <1>2 DEF OpFields
<1>5. QED
  BY <1>2, <1>3, <1>4 DEF p, i, c, pi, pt

(* A request is no clean move, unless a drop made it one. *)
LEMMA OpUnclean ==
  ASSUME NEW k \in Trees, NEW next, NEW ids, NEW to
  PROVE  /\ Op(k, next).clean = FALSE
         /\ [Op(k, next) EXCEPT !.to = to].clean = FALSE
         /\ [Op(k, next) EXCEPT !.list = to].clean = FALSE
         /\ [Op(k, next) EXCEPT !.ids = ids, !.to = to].clean = FALSE
<1> DEFINE o == Op(k, next)
           i == [o EXCEPT !.ids = ids]
<1>1. DOMAIN o = OpFields /\ o.clean = FALSE
  BY OpIs DEF Op
<1> HIDE DEF o
<1>2. [o EXCEPT !.to = to].clean = FALSE /\ [o EXCEPT !.list = to].clean = FALSE
  BY <1>1 DEF OpFields
<1>3. DOMAIN i = OpFields /\ i.clean = FALSE
  BY <1>1 DEF OpFields
<1> HIDE DEF i
<1>4. [i EXCEPT !.to = to].clean = FALSE
  BY <1>3 DEF OpFields
<1>5. QED
  BY <1>1, <1>2, <1>4 DEF o, i

LEMMA DirtyUnclean ==
  ASSUME TreeInv
  PROVE  /\ \A x \in Dirty(ops) : x.clean = FALSE
         /\ \A o : \A x \in Rest(o) : x.clean = FALSE
<1>1. \A o \in ops : [o EXCEPT !.clean = FALSE].clean = FALSE
  BY OpKeeps DEF TreeInv, OpsAreGood
<1>2. QED
  BY <1>1 DEF Dirty, Rest

(* Nothing is written, and what comes in is no clean move. *)
LEMMA MovesStay ==
  ASSUME MovesAreRight, UNCHANGED <<groups, recs>>, \A o \in ops' : o \in ops \/ o.clean = FALSE
  PROVE  MovesAreRight'
BY DEF MovesAreRight, MoveIsRight

LEMMA MovesGone ==
  ASSUME \A o \in ops' : o.clean = FALSE
  PROVE  MovesAreRight'
BY DEF MovesAreRight

(* Only a move is clean. *)
LEMMA CleanMoves ==
  ASSUME MovesAreRight, NEW o \in ops, o.next \notin {"update", "reorder", "landed"}
  PROVE  ~o.clean
BY DEF MovesAreRight, MoveIsRight

LEMMA PlanGoesOn ==
  ASSUME NEW o, GoodOp(o), NEW x, PlanIsRight(o)
  PROVE  PlanIsRight([o EXCEPT !.next = x])
<1> DEFINE p == [o EXCEPT !.next = x]
<1>1. /\ p.row = o.row /\ p.to = o.to /\ p.list = o.list
      /\ p.shown = o.shown /\ p.want = o.want /\ p.was = o.was
  BY OpKeeps
<1> HIDE DEF p
<1>2. PlanIsRight(p)
  BY <1>1 DEF PlanIsRight, Landing
<1>3. QED
  BY <1>2 DEF p

-----------------------------------------------------------------------------
(* A move's first request puts its row in the group. *)
LEMMA MoveUpdated ==
  ASSUME TreeInv, MovesAreRight, ServeMoveUpdate
  PROVE  MovesAreRight'
<1>1. PICK o \in ops :
        /\ o.next = "update"
        /\ \/ /\ CanUpdate(o, o.row) /\ Regroup(o, o.row)
              /\ ops' = Rest(o) \cup {[o EXCEPT !.next = "reorder"]}
           \/ /\ ~CanUpdate(o, o.row) /\ ops' = ops \ {o} /\ UNCHANGED recs
        /\ UNCHANGED groups
  BY DEF ServeMoveUpdate
<1>2. GoodOp(o) /\ o.tree \in Trees
  BY DEF TreeInv, OpsAreGood, GoodOp
<1>3. CASE ~CanUpdate(o, o.row)
  BY <1>1, <1>3, MovesStay
<1>4. CASE CanUpdate(o, o.row)
  <2> DEFINE p == [o EXCEPT !.next = "reorder"]
             k == o.tree
  <2>1. /\ p.next = "reorder" /\ p.tree = k /\ p.row = o.row /\ p.to = o.to
        /\ p.list = o.list /\ p.clean = o.clean /\ p.was = o.was
    BY <1>2, OpKeeps
  <2>2. PlanIsRight(o) => PlanIsRight(p)
    BY <1>2, PlanGoesOn
  <2>3. ops' = Rest(o) \cup {p} /\ Regroup(o, o.row) /\ UNCHANGED groups
    BY <1>1, <1>4
  <2> HIDE DEF p
  <2>4. /\ recs[k] = [order |-> recs[k].order, member |-> recs[k].member] /\ DOMAIN recs = Trees
        /\ DOMAIN recs[k].member = RowsOf(k)
    BY <1>2, RecsAre
  <2>5. recs'[k].order = recs[k].order /\ recs'[k].member = [recs[k].member EXCEPT ![o.row] = o.to]
    <3> DEFINE r == recs[k]
               m == [r.member EXCEPT ![o.row] = o.to]
    <3>1. recs' = [recs EXCEPT ![k] = [r EXCEPT !.member = m]]
      BY <2>3 DEF Regroup
    <3>2. r = [order |-> r.order, member |-> r.member]
      BY <2>4
    <3> HIDE DEF r, m
    <3>3. recs'[k] = [r EXCEPT !.member = m]
      BY <1>2, <2>4, <3>1
    <3>4. recs'[k].order = r.order /\ recs'[k].member = m
      BY <3>2, <3>3
    <3>5. QED
      BY <3>4 DEF r, m
  <2>6. ASSUME p.clean PROVE MoveIsRight(p)'
    <3>1. MoveIsRight(o)
      BY <2>1, <2>6 DEF MovesAreRight
    <3>2. /\ PlanIsRight(p) /\ o.to \in ToSet(groups) \cup {Ungrouped}
          /\ recs[k].order = o.was.order /\ recs[k].member = o.was.member
      BY <1>1, <2>2, <3>1 DEF MoveIsRight
    <3>3. recs'[p.tree].order = p.was.order /\ recs'[p.tree].member = [p.was.member EXCEPT ![p.row] = p.to]
      BY <2>1, <2>5, <3>2
    <3>4. QED
      BY <2>1, <2>3, <3>2, <3>3 DEF MoveIsRight, PlanIsRight, Landing
  <2>7. \A x \in Rest(o) : x.clean = FALSE
    BY DirtyUnclean
  <2>8. QED
    BY <2>3, <2>6, <2>7 DEF MovesAreRight
<1>5. QED
  BY <1>3, <1>4

(* A list reordered by all its ids is that list. *)
LEMMA ReorderedAll ==
  ASSUME NEW T, NEW old \in Seq(T), NEW ids \in Seq(T), ToSet(ids) = ToSet(old)
  PROVE  Reordered(old, ids) = ids
<1> DEFINE N == ToSet(old) \ ToSet(ids)
           O == ToSet(old)
<1>1. ToSet(ids) \subseteq O /\ ToSet(old) \cap N = {}
  OBVIOUS
<1> HIDE DEF N, O
<1>2. Only(ids, O) = ids
  BY <1>1, OnlyAll
<1>3. Only(old, N) = <<>>
  BY <1>1, OnlyNone
<1>4. ids \o <<>> = ids
  BY EmptyJoin
<1>5. QED
  BY <1>2, <1>3, <1>4 DEF Reordered, N, O

(* Its second puts it in its place. *)
LEMMA MoveReordered ==
  ASSUME TreeInv, MovesAreRight, ServeMoveReorder
  PROVE  MovesAreRight'
<1>1. PICK o \in ops :
        /\ o.next = "reorder"
        /\ recs' = [recs EXCEPT ![o.tree].order = Reordered(@, o.list)]
        /\ ops' = Rest(o) \cup {[o EXCEPT !.next = "landed"]}
        /\ UNCHANGED groups
  BY DEF ServeMoveReorder
<1>2. GoodOp(o) /\ o.tree \in Trees
  BY DEF TreeInv, OpsAreGood, GoodOp
<1> DEFINE p == [o EXCEPT !.next = "landed"]
           k == o.tree
<1>3. /\ p.next = "landed" /\ p.tree = k /\ p.row = o.row /\ p.to = o.to
      /\ p.list = o.list /\ p.clean = o.clean /\ p.was = o.was
  BY <1>2, OpKeeps
<1>4. PlanIsRight(o) => PlanIsRight(p)
  BY <1>2, PlanGoesOn
<1>5. ops' = Rest(o) \cup {p} /\ UNCHANGED groups
  BY <1>1
<1> HIDE DEF p
<1>6. /\ recs[k] = [order |-> recs[k].order, member |-> recs[k].member] /\ DOMAIN recs = Trees
      /\ recs[k].order \in Seq(RowsOf(k))
  BY <1>2, RecsAre
<1>7. recs'[k].member = recs[k].member /\ recs'[k].order = Reordered(recs[k].order, o.list)
  <2> DEFINE r == recs[k]
             n == Reordered(r.order, o.list)
  <2>1. recs' = [recs EXCEPT ![k] = [r EXCEPT !.order = n]]
    BY <1>1
  <2>2. r = [order |-> r.order, member |-> r.member]
    BY <1>6
  <2> HIDE DEF r, n
  <2>3. recs'[k] = [r EXCEPT !.order = n]
    BY <1>2, <1>6, <2>1
  <2>4. recs'[k].member = r.member /\ recs'[k].order = n
    BY <2>2, <2>3
  <2>5. QED
    BY <2>4 DEF r, n
<1>8. ASSUME p.clean PROVE MoveIsRight(p)'
  <2>1. MoveIsRight(o)
    BY <1>3, <1>8 DEF MovesAreRight
  <2>2. /\ PlanIsRight(p) /\ o.to \in ToSet(groups) \cup {Ungrouped}
        /\ recs[k].order = o.was.order /\ recs[k].member = [o.was.member EXCEPT ![o.row] = o.to]
        /\ ToSet(o.list) = ToSet(o.was.order)
    BY <1>1, <1>4, <2>1 DEF MoveIsRight, PlanIsRight
  <2>3. Reordered(recs[k].order, o.list) = o.list
    <3> DEFINE old == recs[k].order
               T == RowsOf(k)
    <3>1. old \in Seq(T) /\ o.list \in Seq(T) /\ ToSet(o.list) = ToSet(old)
      BY <1>1, <1>2, <1>6, <2>2 DEF GoodOp
    <3> HIDE DEF old, T
    <3>2. Reordered(old, o.list) = o.list
      BY <3>1, ReorderedAll
    <3>3. QED
      BY <3>2 DEF old
  <2>4. recs'[p.tree].order = p.list /\ recs'[p.tree].member = [p.was.member EXCEPT ![p.row] = p.to]
    BY <1>3, <1>7, <2>2, <2>3
  <2>5. QED
    BY <1>3, <1>5, <2>2, <2>4 DEF MoveIsRight, PlanIsRight, Landing
<1>9. \A x \in Rest(o) : x.clean = FALSE
  BY DirtyUnclean
<1>10. QED
  BY <1>5, <1>8, <1>9 DEF MovesAreRight

(* In a snapshot the group a row is shown in is the one stored for it. *)
LEMMA GroupIsMember ==
  ASSUME NEW k, NEW v \in Snapshots(k), NEW t \in RowsOf(k)
  PROVE  GroupOf(v, t) = v.member[t]
<1>1. v.member[t] \in ToSet(v.groups) \cup {Ungrouped}
  BY SnapshotsAre
<1>2. QED
  BY <1>1 DEF GroupOf

(* The move a drop into a fresh gap asks for, from a view that is stored. *)
LEMMA PlanIsMade ==
  ASSUME NEW k, NEW v \in Snapshots(k), NEW id \in ToSet(v.order), NEW g, GapIsRight(g, v, id, k),
         NEW o, o.row = id, o.to = MovePlan(v, id, g.group, g.before).to,
         o.list = MovePlan(v, id, g.group, g.before).order, o.shown = g.shown, o.want = g.want,
         o.was.order = v.order, o.was.member = v.member
  PROVE  PlanIsRight(o) /\ o.to \in ToSet(v.groups) \cup {Ungrouped}
<1> DEFINE s == g.group
           plan == MovePlan(v, id, s, g.before)
<1>1. v.order \in Seq(RowsOf(k)) /\ ToSet(v.order) \subseteq RowsOf(k)
  BY SnapshotsAre DEF ToSet
<1>2. id \in RowsOf(k)
  BY <1>1
<1>3. s \in ToSet(v.groups) \cup {Ungrouped} /\ (g.shown => GapFits(g, v, id, k))
  BY DEF GapIsRight
<1>4. /\ ToSet(plan.order) = ToSet(v.order) \cup {id}
      /\ Without(plan.order, id) = Without(v.order, id)
      /\ plan.to = IF s \in ToSet(v.groups) THEN s ELSE Ungrouped
  <2> DEFINE b == g.before
  <2> HIDE DEF s, b
  <2>1. LET p == MovePlan(v, id, s, b)
        IN  /\ ToSet(p.order) = ToSet(v.order) \cup {id}
            /\ Without(p.order, id) = Without(v.order, id)
            /\ p.to = IF s \in ToSet(v.groups) THEN s ELSE Ungrouped
    BY <1>2, PlanMoves
  <2>2. QED
    BY <2>1 DEF b
<1>5. plan.to = s
  BY <1>3, <1>4
<1>6. g.shown => Only(plan.order, With(v, s, id)) = g.want
  <2> SUFFICES ASSUME g.shown PROVE Only(plan.order, With(v, s, id)) = g.want
    OBVIOUS
  <2>1. g.group \in ToSet(v.groups) \cup {Ungrouped} /\ GapFits(g, v, id, k)
    BY <1>3
  <2>2. QED
    BY <1>2, <2>1, GapPlaced
<1>7. o.list = plan.order /\ o.to = s
  BY <1>5
<1> HIDE DEF plan, s
<1>8. ToSet(o.list) = ToSet(v.order)
  BY <1>4, <1>7
<1>9. Landing(o) = With(v, s, id)
  <2>1. \A t \in ToSet(v.order) : GroupOf(v, t) = v.member[t]
    BY <1>1, GroupIsMember
  <2>2. QED
    BY <1>7, <1>8, <2>1 DEF Landing, With
<1>10. PlanIsRight(o)
  BY <1>4, <1>6, <1>7, <1>8, <1>9 DEF PlanIsRight
<1>11. QED
  BY <1>3, <1>7, <1>10 DEF s

LEMMA AssignUnclean ==
  ASSUME NEW k \in Trees, NEW ids, NEW to
  PROVE  [Op(k, "assign") EXCEPT !.ids = ids, !.to = to].clean = FALSE
<1> DEFINE o == Op(k, "assign")
           i == [o EXCEPT !.ids = ids]
<1>1. DOMAIN o = OpFields /\ o.clean = FALSE
  BY OpIs DEF Op
<1> HIDE DEF o
<1>2. DOMAIN i = OpFields /\ i.clean = FALSE
  BY <1>1 DEF OpFields
<1> HIDE DEF i
<1>3. [i EXCEPT !.to = to].clean = FALSE
  BY <1>2 DEF OpFields
<1>4. QED
  BY <1>3 DEF o, i

(* A drop asks for a right move, and for a clean one only when nothing else is *)
(* under way and the view is what is stored.                                *)
LEMMA MoveDropped ==
  ASSUME TreeInv, SpotIsRight, MovesAreRight, NEW k \in Trees, Drop(k)
  PROVE  MovesAreRight'
<1> DEFINE v == view[k]
           id == drag.id
<1>1. /\ drag.tree = k /\ spot # NoSpot /\ UNCHANGED <<groups, recs>>
      /\ IF spot.kind = "gap" THEN MoveRow(k, id, spot) ELSE MoveGroup(k, id, spot.group)
  BY DEF Drop
<1>2. CASE spot.kind # "gap"
  <2> DEFINE to == spot.group
             rest == Without(v.groups, id)
             at == IF to \in ToSet(rest) THEN Place(rest, to) ELSE Len(rest) + 1
             list == InsertAt(rest, at, id)
             p == [Op(k, "groups") EXCEPT !.list = list]
  <2>1. ops' = IF id \notin ToSet(v.groups) \/ id = to THEN ops ELSE ops \cup {p}
    BY <1>1, <1>2 DEF MoveGroup
  <2> HIDE DEF list
  <2>2. p.clean = FALSE
    BY OpUnclean
  <2> HIDE DEF p
  <2>3. \A o \in ops' : o \in ops \/ o.clean = FALSE
    BY <2>1, <2>2
  <2>4. QED
    BY <1>1, <2>3, MovesStay
<1>3. CASE spot.kind = "gap"
  <2> DEFINE plan == MovePlan(v, id, spot.group, spot.before)
             next == IF GroupOf(v, id) # plan.to THEN "update" ELSE "reorder"
             clean == spot.fresh /\ ops = {} /\ reads[k] = <<>> /\ ViewIsStored(k)
             o0 == Op(k, next)
             o1 == [o0 EXCEPT !.row = id]
             o2 == [o1 EXCEPT !.to = plan.to]
             o3 == [o2 EXCEPT !.list = plan.order]
             o4 == [o3 EXCEPT !.clean = clean]
             o5 == [o4 EXCEPT !.shown = spot.shown]
             p == [o5 EXCEPT !.want = spot.want]
  <2>1. ops' = IF id \notin ToSet(v.order) \/ PlanIsIdle(v, id, plan) THEN ops ELSE ops \cup {p}
    BY <1>1, <1>3 DEF MoveRow
  <2>2. OverGap
    BY <1>1, <1>3 DEF OverGap
  <2>3. spot.fresh => GapIsRight(spot, v, id, k)
    BY <1>1, <2>2 DEF SpotIsRight
  <2>4. v \in Snapshots(k)
    BY DEF TreeInv, TreeTypes
  <2>5. next = "update" \/ (next = "reorder" /\ GroupOf(v, id) = plan.to)
    <3> HIDE DEF plan, v, id
    <3>1. CASE GroupOf(v, id) # plan.to
      BY <3>1
    <3>2. CASE GroupOf(v, id) = plan.to
      BY <3>2
    <3>3. QED
      BY <3>1, <3>2
  <2>6. clean => spot.fresh /\ ViewIsStored(k)
    BY ZenonT(30)
  <2> HIDE DEF plan, v, id, next, clean
  <2>7. DOMAIN o0 = OpFields /\ o0.tree = k /\ o0.next = next /\ o0.was = recs[k]
    BY OpIs DEF Op
  <2> HIDE DEF o0
  <2>8. DOMAIN o1 = OpFields /\ o1.tree = k /\ o1.next = next /\ o1.was = recs[k] /\ o1.row = id
    BY <2>7 DEF OpFields
  <2> HIDE DEF o1
  <2>9. DOMAIN o2 = OpFields /\ o2.tree = k /\ o2.next = next /\ o2.was = recs[k] /\ o2.row = id /\ o2.to = plan.to
    BY <2>8 DEF OpFields
  <2> HIDE DEF o2
  <2>10. /\ DOMAIN o3 = OpFields /\ o3.tree = k /\ o3.next = next /\ o3.was = recs[k] /\ o3.row = id
         /\ o3.to = plan.to /\ o3.list = plan.order
    BY <2>9 DEF OpFields
  <2> HIDE DEF o3
  <2>11. /\ DOMAIN o4 = OpFields /\ o4.tree = k /\ o4.next = next /\ o4.was = recs[k] /\ o4.row = id
         /\ o4.to = plan.to /\ o4.list = plan.order /\ o4.clean = clean
    BY <2>10 DEF OpFields
  <2> HIDE DEF o4
  <2>12. /\ DOMAIN o5 = OpFields /\ o5.tree = k /\ o5.next = next /\ o5.was = recs[k] /\ o5.row = id
         /\ o5.to = plan.to /\ o5.list = plan.order /\ o5.clean = clean /\ o5.shown = spot.shown
    BY <2>11 DEF OpFields
  <2> HIDE DEF o5
  <2>13. /\ p.tree = k /\ p.next = next /\ p.was = recs[k] /\ p.row = id
         /\ p.to = plan.to /\ p.list = plan.order /\ p.clean = clean /\ p.shown = spot.shown /\ p.want = spot.want
    BY <2>12 DEF OpFields
  <2> HIDE DEF p
  <2>14. ASSUME id \in ToSet(v.order), p.clean PROVE MoveIsRight(p)
    <3>1. spot.fresh /\ ViewIsStored(k)
      BY <2>6, <2>13, <2>14
    <3>2. v.order = recs[k].order /\ v.member = recs[k].member /\ v.groups = groups
      BY <3>1 DEF ViewIsStored, Stored, v
    <3>3. GapIsRight(spot, v, id, k)
      BY <2>3, <3>1
    <3>4. /\ p.row = id /\ p.to = MovePlan(v, id, spot.group, spot.before).to
          /\ p.list = MovePlan(v, id, spot.group, spot.before).order
          /\ p.shown = spot.shown /\ p.want = spot.want
      BY <2>13 DEF plan
    <3>5. p.was.order = v.order /\ p.was.member = v.member
      BY <2>13, <3>2
    <3>6. id \in ToSet(v.order)
      BY <2>14
    <3>7. PlanIsRight(p) /\ p.to \in ToSet(v.groups) \cup {Ungrouped}
      BY <2>4, <3>3, <3>4, <3>5, <3>6, PlanIsMade
    <3>8. recs[p.tree].order = p.was.order /\ recs[p.tree].member = p.was.member
      BY <2>13
    <3>9. p.next = "reorder" => p.was.member = [p.was.member EXCEPT ![p.row] = p.to]
      <4> SUFFICES ASSUME p.next = "reorder" PROVE p.was.member = [p.was.member EXCEPT ![p.row] = p.to]
        OBVIOUS
      <4>1. GroupOf(v, id) = plan.to
        BY <2>5, <2>13
      <4>2. v.order \in Seq(RowsOf(k)) /\ v.member \in [RowsOf(k) -> Sections]
        BY <2>4, SnapshotsAre
      <4>3. id \in RowsOf(k)
        BY <3>6, <4>2 DEF ToSet
      <4>4. v.member[id] = plan.to
        BY <2>4, <4>1, <4>3, GroupIsMember
      <4>5. v.member = [v.member EXCEPT ![id] = plan.to]
        BY <4>2, <4>3, <4>4
      <4>6. QED
        BY <2>13, <3>5, <4>5
    <3>10. p.next \in {"update", "reorder"}
      BY <2>5, <2>13
    <3>11. QED
      BY <3>2, <3>7, <3>8, <3>9, <3>10 DEF MoveIsRight
  <2>15. ASSUME NEW o \in ops', o.clean PROVE MoveIsRight(o)
    BY <2>1, <2>14, <2>15 DEF MovesAreRight
  <2>16. QED
    BY <1>1, <2>15 DEF MovesAreRight, MoveIsRight
<1>4. QED
  BY <1>2, <1>3

(* Gestures that ask for anything else. *)
LEMMA MovesAsked ==
  ASSUME TreeInv, MovesAreRight, NEW k \in Trees
  PROVE  /\ AssignRow(k) \/ SaveGroup(k) \/ DeleteGroup(k) => MovesAreRight'
         /\ TableDrop => MovesAreRight'
<1>1. ASSUME AssignRow(k) PROVE MovesAreRight'
  <2>1. PICK t \in ToSet(view[k].order), to \in ToSet(view[k].groups) \cup {Ungrouped} :
          AssignMany(k, {t}, to)
    BY <1>1 DEF AssignRow
  <2> DEFINE S == {t} \cap ToSet(view[k].order)
             q == Op(k, "assign")
             p == [q EXCEPT !.ids = S, !.to = to]
  <2>2. ops' = ops \cup {p}
    BY <2>1 DEF AssignMany
  <2> HIDE DEF S
  <2>3. p.clean = FALSE
    BY AssignUnclean
  <2> HIDE DEF p
  <2>4. UNCHANGED <<groups, recs>>
    BY <1>1 DEF AssignRow
  <2>5. QED
    BY <2>2, <2>3, <2>4, MovesStay
<1>2. ASSUME TableDrop PROVE MovesAreRight'
  <2>1. PICK t, s : AssignMany("tunnels", {t}, s)
    BY <1>2 DEF TableDrop
  <2> DEFINE S == {t} \cap ToSet(view["tunnels"].order)
             p == [Op("tunnels", "assign") EXCEPT !.ids = S, !.to = s]
  <2>2. ops' = ops \cup {p}
    BY <2>1 DEF AssignMany
  <2> HIDE DEF S
  <2>3. p.clean = FALSE
    <3>1. "tunnels" \in Trees
      BY DEF Trees
    <3>2. QED
      BY <3>1, AssignUnclean
  <2> HIDE DEF p
  <2>4. UNCHANGED <<groups, recs>>
    BY <1>2 DEF TableDrop
  <2>5. QED
    BY <2>2, <2>3, <2>4, MovesStay
<1>3. ASSUME SaveGroup(k) PROVE MovesAreRight'
  <2> DEFINE to == IF edit[k].open = "new" THEN Ungrouped ELSE edit[k].open
             p == [Op(k, "save") EXCEPT !.to = to]
  <2>1. ops' = ops \cup {p} /\ UNCHANGED <<groups, recs>>
    BY <1>3 DEF SaveGroup
  <2> HIDE DEF to
  <2>2. p.clean = FALSE
    BY OpUnclean
  <2> HIDE DEF p
  <2>3. QED
    BY <2>1, <2>2, MovesStay
<1>4. ASSUME DeleteGroup(k) PROVE MovesAreRight'
  <2>1. PICK g : ops' = ops \cup {[Op(k, "delete") EXCEPT !.to = g]}
    BY <1>4 DEF DeleteGroup
  <2> DEFINE p == [Op(k, "delete") EXCEPT !.to = g]
  <2>2. p.clean = FALSE
    BY OpUnclean
  <2> HIDE DEF p
  <2>3. ops' = ops \cup {p} /\ UNCHANGED <<groups, recs>>
    BY <1>4, <2>1 DEF DeleteGroup, p
  <2>4. QED
    BY <2>2, <2>3, MovesStay
<1>5. QED
  BY <1>1, <1>2, <1>3, <1>4

LEMMA MovesAmong ==
  ASSUME MovesAreRight, UNCHANGED <<groups, recs>>, \A o \in ops' : o \in ops \/ ~o.clean
  PROVE  MovesAreRight'
BY DEF MovesAreRight, MoveIsRight

(* A write that goes on to no move leaves no move clean. *)
LEMMA MovesWritten ==
  ASSUME TreeInv, MovesAreRight, NEW o \in ops, o.next \notin {"update", "reorder", "landed"},
         NEW p, p.clean = o.clean, ops' = Rest(o) \cup {p}
  PROVE  MovesAreRight'
<1>1. ~p.clean
  BY CleanMoves
<1>2. \A x \in Rest(o) : x.clean = FALSE
  BY DirtyUnclean
<1>3. \A x \in ops' : ~x.clean
  BY <1>1, <1>2
<1>4. QED
  BY <1>3 DEF MovesAreRight

(* Requests that are no part of a move. *)
LEMMA MovesServed ==
  ASSUME TreeInv, MovesAreRight
  PROVE  ServeAssign \/ ServeGroups \/ ServeDelete \/ ServeSave \/ GroupSaved => MovesAreRight'
<1>0. \A o \in ops : GoodOp(o)
  BY DEF TreeInv, OpsAreGood
<1>1. ASSUME ServeAssign PROVE MovesAreRight'
  <2>1. PICK o \in ops : o.next = "assign" /\ UNCHANGED groups /\
          \/ ops' = ops \ {o} /\ UNCHANGED recs
          \/ \E t \in o.ids : ops' = Rest(o) \cup {[o EXCEPT !.ids = @ \ {t}]}
    BY <1>1 DEF ServeAssign
  <2>2. CASE ops' = ops \ {o} /\ UNCHANGED recs
    BY <2>1, <2>2, MovesAmong
  <2>3. ASSUME NEW t \in o.ids, ops' = Rest(o) \cup {[o EXCEPT !.ids = @ \ {t}]} PROVE MovesAreRight'
    <3> DEFINE S == o.ids \ {t}
               p == [o EXCEPT !.ids = S]
    <3>1. GoodOp(o)
      BY <1>0
    <3>2. ops' = Rest(o) \cup {p}
      BY <2>3
    <3> HIDE DEF S
    <3>3. p.clean = o.clean
      BY <3>1, OpKeeps
    <3> HIDE DEF p
    <3>4. o.next \notin {"update", "reorder", "landed"}
      BY <2>1
    <3>5. QED
      BY <3>2, <3>3, <3>4, MovesWritten
  <2>4. QED
    BY <2>1, <2>2, <2>3
<1>2. ASSUME ServeGroups PROVE MovesAreRight'
  <2>1. PICK o \in ops : o.next = "groups" /\ ops' = Rest(o) \cup {[o EXCEPT !.next = "announce"]}
    BY <1>2 DEF ServeGroups
  <2> DEFINE p == [o EXCEPT !.next = "announce"]
  <2>2. p.clean = o.clean
    BY <1>0, OpKeeps
  <2>3. ops' = Rest(o) \cup {p}
    BY <2>1
  <2> HIDE DEF p
  <2>4. o.next \notin {"update", "reorder", "landed"}
    BY <2>1
  <2>5. QED
    BY <2>2, <2>3, <2>4, MovesWritten
<1>3. ASSUME ServeDelete PROVE MovesAreRight'
  <2>1. PICK o \in ops : o.next = "delete" /\
          \/ ops' = Rest(o) \cup {[o EXCEPT !.next = "announce"]}
          \/ ops' = ops \ {o} /\ UNCHANGED <<groups, recs>>
    BY <1>3 DEF ServeDelete
  <2>2. CASE ops' = ops \ {o} /\ UNCHANGED <<groups, recs>>
    BY <2>2, MovesAmong
  <2>3. CASE ops' = Rest(o) \cup {[o EXCEPT !.next = "announce"]}
    <3> DEFINE p == [o EXCEPT !.next = "announce"]
    <3>1. p.clean = o.clean
      BY <1>0, OpKeeps
    <3>2. ops' = Rest(o) \cup {p}
      BY <2>3
    <3> HIDE DEF p
    <3>3. o.next \notin {"update", "reorder", "landed"}
      BY <2>1
    <3>4. QED
      BY <3>1, <3>2, <3>3, MovesWritten
  <2>4. QED
    BY <2>1, <2>2, <2>3
<1>4. ASSUME ServeSave PROVE MovesAreRight'
  <2>1. PICK o \in ops : o.next = "save" /\ UNCHANGED recs /\
          \/ \E g \in Groups : ops' = Rest(o) \cup {[o EXCEPT !.next = "saved", !.to = g]}
          \/ UNCHANGED groups /\ ops' = (ops \ {o}) \cup IF o.to \in ToSet(groups)
                        THEN {[o EXCEPT !.next = "saved"]} ELSE {}
    BY <1>4 DEF ServeSave
  <2>2. o.next \notin {"update", "reorder", "landed"}
    BY <2>1
  <2>3. ASSUME NEW g \in Groups, ops' = Rest(o) \cup {[o EXCEPT !.next = "saved", !.to = g]}
        PROVE  MovesAreRight'
    <3> DEFINE p == [o EXCEPT !.next = "saved", !.to = g]
    <3>1. p.clean = o.clean
      BY <1>0, OpKeeps
    <3>2. ops' = Rest(o) \cup {p}
      BY <2>3
    <3> HIDE DEF p
    <3>3. QED
      BY <2>2, <3>1, <3>2, MovesWritten
  <2>4. CASE UNCHANGED groups /\ ops' = (ops \ {o}) \cup IF o.to \in ToSet(groups)
                        THEN {[o EXCEPT !.next = "saved"]} ELSE {}
    <3> DEFINE p == [o EXCEPT !.next = "saved"]
    <3>1. p.clean = o.clean
      BY <1>0, OpKeeps
    <3>2. \A x \in ops' : x \in ops \/ x = p
      BY <2>4
    <3> HIDE DEF p
    <3>3. ~p.clean
      BY <2>2, <3>1, CleanMoves
    <3>4. \A x \in ops' : x \in ops \/ ~x.clean
      BY <3>2, <3>3
    <3>5. UNCHANGED <<groups, recs>>
      BY <2>1, <2>4
    <3>6. QED
      BY <3>4, <3>5, MovesAmong
  <2>5. QED
    BY <2>1, <2>3, <2>4
<1>5. ASSUME GroupSaved PROVE MovesAreRight'
  <2>1. PICK o \in ops : o.next = "saved" /\ UNCHANGED <<groups, recs>> /\
          ops' = (ops \ {o}) \cup
            IF edit[o.tree].pending = {} THEN {}
            ELSE {[o EXCEPT !.next = "assign",
                         !.ids = edit[o.tree].pending \cap ToSet(view[o.tree].order)]}
    BY <1>5 DEF GroupSaved
  <2> DEFINE S == edit[o.tree].pending \cap ToSet(view[o.tree].order)
             p == [o EXCEPT !.next = "assign", !.ids = S]
  <2>2. \A x \in ops' : x \in ops \/ x = p
    BY <2>1
  <2> HIDE DEF S
  <2>3. p.clean = o.clean
    BY <1>0, OpKeeps
  <2> HIDE DEF p
  <2>4. o.next \notin {"update", "reorder", "landed"}
    BY <2>1
  <2>5. ~p.clean
    BY <2>3, <2>4, CleanMoves
  <2>6. \A x \in ops' : x \in ops \/ ~x.clean
    BY <2>2, <2>5
  <2>7. QED
    BY <2>1, <2>6, MovesAmong
<1>6. QED
  BY <1>1, <1>2, <1>3, <1>4, <1>5

LEMMA MovesSteps ==
  ASSUME TreeInv, SpotIsRight, MovesAreRight, [TreeNext]_treeVars
  PROVE  MovesAreRight'
<1>1. ASSUME UNCHANGED <<groups, recs, ops>> PROVE MovesAreRight'
  BY <1>1, MovesAmong
<1>2. CASE UNCHANGED treeVars
  BY <1>1, <1>2 DEF treeVars
<1>3. ASSUME NEW k \in Trees, DragsOver(k) PROVE MovesAreRight'
  BY <1>1, <1>3 DEF DragsOver, DragStart, RowDragOver, HeaderDragOver
<1>4. ASSUME NEW k \in Trees, GroupActs(k) PROVE MovesAreRight'
  <2>1. CASE NewGroup(k) \/ EditGroup(k) \/ CancelGroup(k) \/ ToggleCollapse(k)
    BY <1>1, <2>1 DEF NewGroup, EditGroup, CancelGroup, ToggleCollapse
  <2>2. CASE AssignRow(k) \/ SaveGroup(k) \/ DeleteGroup(k)
    BY <2>2, MovesAsked
  <2>3. QED
    BY <1>4, <2>1, <2>2 DEF GroupActs
<1>5. ASSUME NEW k \in Trees, RowActs(k) PROVE MovesAreRight'
  <2>1. CASE ApplyLoad(k)
    BY <1>1, <2>1 DEF ApplyLoad
  <2>2. CASE NewRow(k) \/ DeleteRow(k)
    <3> DEFINE p == Op(k, "landed")
    <3>1. ops' = Dirty(ops) \cup {p}
      BY <2>2 DEF NewRow, DeleteRow
    <3>2. p.clean = FALSE
      BY OpUnclean
    <3> HIDE DEF p
    <3>3. \A o \in ops' : o.clean = FALSE
      BY <3>1, <3>2, DirtyUnclean
    <3>4. QED
      BY <3>3, MovesGone
  <2>3. QED
    BY <1>5, <2>1, <2>2 DEF RowActs
<1>6. CASE DragLeave \/ DragEnd
  BY <1>1, <1>6 DEF DragLeave, DragEnd
<1>7. CASE Serve
  <2>1. CASE ServeMoveUpdate
    BY <2>1, MoveUpdated
  <2>2. CASE ServeMoveReorder
    BY <2>2, MoveReordered
  <2>3. CASE ServeMoveLoad \/ Announce
    <3>1. UNCHANGED <<groups, recs>> /\ ops' \subseteq ops
      BY <2>3 DEF ServeMoveLoad, Announce
    <3>2. QED
      BY <3>1, MovesAmong
  <2>4. CASE ServeAssign \/ ServeGroups \/ ServeDelete \/ ServeSave \/ GroupSaved
    BY <2>4, MovesServed
  <2>5. QED
    BY <1>7, <2>1, <2>2, <2>3, <2>4 DEF Serve
<1>8. "tunnels" \in Trees /\ "consoles" \in Trees
  BY DEF Trees
<1>9. CASE TableDrop
  BY <1>8, <1>9, MovesAsked
<1>10. CASE Drop("tunnels") \/ ConsoleDrop
  BY <1>8, <1>10, MoveDropped DEF ConsoleDrop
<1>11. CASE DragsOver("tunnels") \/ ConsoleDragsOver
  BY <1>3, <1>8, <1>11 DEF ConsoleDragsOver
<1>12. CASE GroupActs("tunnels") \/ ConsoleGroupActs
  BY <1>4, <1>8, <1>12 DEF ConsoleGroupActs
<1>13. CASE RowActs("tunnels") \/ ConsoleRowActs
  BY <1>5, <1>8, <1>13 DEF ConsoleRowActs
<1>14. QED
  BY <1>2, <1>6, <1>7, <1>9, <1>10, <1>11, <1>12, <1>13 DEF TreeNext

LEMMA DropStarts == TreeInit => DropInv
<1> SUFFICES ASSUME TreeInit PROVE DropInv
  OBVIOUS
<1>1. drag = NoDrag /\ spot = NoSpot /\ ops = {}
  BY DEF TreeInit
<1>2. SpotIsRight /\ MovesAreRight
  BY <1>1 DEF SpotIsRight, MovesAreRight, OverGap, NoDrag
<1>3. QED
  BY <1>2, TreeStarts DEF DropInv

LEMMA DropSteps == DropInv /\ [TreeNext]_treeVars => DropInv'
<1> SUFFICES ASSUME DropInv, [TreeNext]_treeVars PROVE DropInv'
  OBVIOUS
<1>1. TreeInv /\ SpotIsRight /\ MovesAreRight
  BY DEF DropInv
<1>2. TreeInv'
  BY <1>1, TreeSteps
<1>3. SpotIsRight'
  BY <1>1, SpotSteps
<1>4. MovesAreRight'
  BY <1>1, MovesSteps
<1>5. QED
  BY <1>2, <1>3, <1>4 DEF DropInv

(* A clean move that has landed put its row where it was dropped. *)
LEMMA MoveLanded ==
  ASSUME TreeInv, NEW o \in ops, MoveIsRight(o), o.next = "landed"
  PROVE  LET now == Stored(o.tree)
         IN /\ GroupOf(now, o.row) = o.to
            /\ o.shown => RowsIn(now, o.to) = o.want
            /\ Without(now.order, o.row) = Without(o.was.order, o.row)
            /\ \A t \in DOMAIN now.member \ {o.row} : now.member[t] = o.was.member[t]
<1> DEFINE k == o.tree
           now == Stored(k)
           was == o.was
           R == RowsOf(k)
<1>1. k \in Trees /\ now \in Snapshots(k)
  BY DEF TreeInv, TreeTypes, OpsAreGood, GoodOp
<1>2. now.order = recs[k].order /\ now.member = recs[k].member
  BY StoredIs
<1>3. /\ now.order = o.list /\ now.member = [was.member EXCEPT ![o.row] = o.to] /\ PlanIsRight(o)
  BY <1>2 DEF MoveIsRight
<1> HIDE DEF now
<1>4. now.order \in Seq(R) /\ now.member \in [R -> Sections]
  BY <1>1, SnapshotsAre
<1>5. ToSet(o.list) \subseteq R /\ o.row \in ToSet(o.list)
  <2>1. o.row \in ToSet(o.list)
    BY <1>3 DEF PlanIsRight
  <2>2. ToSet(now.order) \subseteq R
    BY <1>4 DEF ToSet
  <2>3. QED
    BY <1>3, <2>1, <2>2
<1> HIDE DEF R
<1>6. DOMAIN was.member = R
  <2> DEFINE m == was.member
  <2> HIDE DEF m
  <2>1. now.member = [m EXCEPT ![o.row] = o.to]
    BY <1>3 DEF m
  <2>2. DOMAIN now.member = DOMAIN m
    BY <2>1
  <2>3. QED
    BY <1>4, <2>2 DEF m
<1>7. /\ now.member[o.row] = o.to
      /\ \A t \in R \ {o.row} : now.member[t] = was.member[t]
  BY <1>3, <1>5, <1>6
<1>8. \A t \in ToSet(o.list) : GroupOf(now, t) = now.member[t]
  BY <1>1, <1>5, GroupIsMember DEF R
<1>9. {t \in ToSet(now.order) : GroupOf(now, t) = o.to} = Landing(o)
  BY <1>3, <1>5, <1>7, <1>8 DEF Landing
<1>10. o.shown => RowsIn(now, o.to) = o.want
  BY <1>3, <1>9 DEF RowsIn, PlanIsRight
<1>11. Without(now.order, o.row) = Without(was.order, o.row)
  BY <1>3 DEF PlanIsRight
<1>12. QED
  BY <1>4, <1>5, <1>7, <1>8, <1>10, <1>11 DEF now

LEMMA DropShows == DropInv => DropLandsAtGap
<1> SUFFICES ASSUME DropInv PROVE DropLandsAtGap
  OBVIOUS
<1>1. TreeInv /\ SpotIsRight /\ MovesAreRight
  BY DEF DropInv
<1>2. ASSUME NEW o \in ops, o.next = "landed", o.clean
      PROVE  LET now == Stored(o.tree)
             IN /\ GroupOf(now, o.row) = o.to
                /\ o.shown => RowsIn(now, o.to) = o.want
                /\ Without(now.order, o.row) = Without(o.was.order, o.row)
                /\ \A t \in DOMAIN now.member \ {o.row} : now.member[t] = o.was.member[t]
  <2>1. MoveIsRight(o)
    BY <1>1, <1>2 DEF MovesAreRight
  <2>2. QED
    BY <1>1, <1>2, <2>1, MoveLanded
<1>3. ASSUME drag.kind = "row", spot # NoSpot, spot.kind = "gap", spot.fresh, spot.shown,
             PlanIsIdle(view[drag.tree], drag.id, MovePlan(view[drag.tree], drag.id, spot.group, spot.before))
      PROVE  spot.want = RowsIn(view[drag.tree], spot.group)
  <2> DEFINE k == drag.tree
             v == view[k]
             id == drag.id
             g == spot
  <2>1. OverGap
    BY <1>3 DEF OverGap
  <2>2. k \in Trees /\ id \in RowsOf(k) /\ GapIsRight(g, v, id, k)
    BY <1>1, <1>3, <2>1 DEF SpotIsRight
  <2>3. v \in Snapshots(k)
    BY <1>1, <2>2 DEF TreeInv, TreeTypes
  <2>4. PlanIsIdle(v, id, MovePlan(v, id, g.group, g.before)) /\ g.shown
    BY <1>3
  <2> HIDE DEF k, v, id, g
  <2>5. g.group \in ToSet(v.groups) \cup {Ungrouped} /\ GapFits(g, v, id, k)
    BY <2>2, <2>4 DEF GapIsRight
  <2>6. id \in RowsOf(k)
    BY <2>2
  <2>7. LET plan == MovePlan(v, id, g.group, g.before)
        IN  /\ plan.to = g.group /\ Only(plan.order, With(v, g.group, id)) = g.want
            /\ PlanIsIdle(v, id, plan) => g.want = RowsIn(v, g.group)
    BY <2>3, <2>5, <2>6, GapPlaced
  <2>8. g.want = RowsIn(v, g.group)
    BY <2>4, <2>7
  <2>9. QED
    BY <2>8 DEF k, v, id, g
<1>4. QED
  BY <1>2, <1>3 DEF DropLandsAtGap

(* The gap a drag shows is the place its row would have among the rows on   *)
(* screen; a move whose plan nothing has overtaken is, request by request,  *)
(* what the stores hold.                                                    *)
THEOREM DropInductive == TreeSpec => []DropInv
<1>1. TreeInit => DropInv
  BY DropStarts
<1>2. DropInv /\ [TreeNext]_treeVars => DropInv'
  BY DropSteps
<1>3. QED
  BY <1>1, <1>2, PTL DEF TreeSpec

(* A row of the sidebar dropped into an open section ends exactly where its *)
(* gap was, in that section, and no other row changes its order or its      *)
(* group, as long as nothing else was written since it was picked up; a     *)
(* drop that asks the stores for nothing is one onto the row's own place    *)
(* (#onListDrop and #moveTunnel, tunnel-list.js, tunnels-view.js).          *)
THEOREM DropsLand == TreeSpec => []DropLandsAtGap
<1>1. DropInv => DropLandsAtGap
  BY DropShows
<1>2. QED
  BY <1>1, DropInductive, PTL
====
