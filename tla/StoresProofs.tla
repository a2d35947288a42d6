---------------------------- MODULE StoresProofs ----------------------------
(***************************************************************************)
(* References of the definitions document: for every set of ids, bundles   *)
(* and proposals, no sequence of saves, deletes and imports leaves a       *)
(* tunnel or a jump host that refers to nothing, a backup is restored as   *)
(* it was, and a merge of any bundle clobbers no secret and no reference.  *)
(*                                                                         *)
(* And about Transfer.tla, an import from the dialog to the list: however  *)
(* many rows and packs there are, what was imported is shown and runs once *)
(* all is at rest.  The invariant says who still owes what: a list that is *)
(* behind has an import still to be announced or a read under way, and a   *)
(* tunnel that does not run as it is stored is ahead of a sweep.           *)
(*                                                                         *)
(* And about Pickers.tla, the pickers of a form over the two stores of     *)
(* what it refers to: for every set of records, and however clicks and     *)
(* answers cross, a choice is shown or on its way, and a save keeps the    *)
(* secret it does not replace.                                             *)
(***************************************************************************)
EXTENDS Stores, Transfer, Pickers, FiniteSetTheorems, SequenceTheorems,
        WellFoundedInduction, TLAPS

\* A document is a record of its five lists.
IsDoc(d) ==
  d = [creds |-> d.creds, jumps |-> d.jumps, groups |-> d.groups,
       tunnels |-> d.tunnels, consoles |-> d.consoles]

\* What the writers check: no reference of a document is dangling.
Closed(d) ==
  /\ \A j \in DOMAIN d.jumps : d.jumps[j].cred \in DOMAIN d.creds
  /\ \A t \in DOMAIN d.tunnels :
       /\ d.tunnels[t].cred \in DOMAIN d.creds
       /\ d.tunnels[t].jumps \subseteq DOMAIN d.jumps

Inv == IsDoc(doc) /\ Closed(doc)

\* A placement sends every record of the bundle to one that is there after the
\* merge.
LEMMA PlacedInside ==
  ASSUME NEW old, NEW new, NEW r \in Placements(old, new), NEW x \in DOMAIN new
  PROVE  x \in DOMAIN r /\ r[x] \in DOMAIN old \cup Kept(r)
BY DEF Placements, Placed, Meets, Kept

\* The initial document refers to nothing.
LEMMA InitInv == Init => Inv
BY DEF Init, Inv, IsDoc, Closed, NewDoc, Empty

-----------------------------------------------------------------------------
\* Saves and deletes keep the document closed: one list gains a record whose
\* references were checked, or loses one that nothing lists.
LEMMA SaveCredInv ==
  ASSUME Inv, NEW c, NEW l, NEW a, NEW i, SaveCred(c, l, a, i) PROVE Inv'
<1> DEFINE v == [label |-> l, auth |-> a,
                 secret |-> Sealed(IF c \in DOMAIN doc.creds THEN doc.creds[c] ELSE None, a, i)]
<1>1. doc' = [doc EXCEPT !.creds = With(doc.creds, c, v)]
  BY DEF SaveCred
<1>2. /\ doc'.creds = With(doc.creds, c, v)
      /\ doc'.jumps = doc.jumps /\ doc'.tunnels = doc.tunnels
      /\ IsDoc(doc')
  BY <1>1 DEF Inv, IsDoc
<1>3. DOMAIN doc.creds \subseteq DOMAIN doc'.creds
  BY <1>2 DEF With
<1> QED
  BY <1>2, <1>3 DEF Inv, Closed

LEMMA DeleteCredInv ==
  ASSUME Inv, NEW c, DeleteCred(c) PROVE Inv'
<1>1. /\ doc'.creds = WithoutKey(doc.creds, c)
      /\ doc'.jumps = doc.jumps /\ doc'.tunnels = doc.tunnels
      /\ IsDoc(doc')
  BY DEF Inv, IsDoc, DeleteCred
<1>2. DOMAIN doc'.creds = DOMAIN doc.creds \ {c}
  BY <1>1 DEF WithoutKey
<1> QED
  BY <1>1, <1>2 DEF Inv, Closed, DeleteCred, CredInUse

LEMMA SaveJumpInv ==
  ASSUME Inv, NEW j, NEW l, NEW c, SaveJump(j, l, c) PROVE Inv'
<1> DEFINE v == [label |-> l, cred |-> c]
<1>1. /\ doc'.jumps = With(doc.jumps, j, v)
      /\ doc'.creds = doc.creds /\ doc'.tunnels = doc.tunnels
      /\ IsDoc(doc')
  BY DEF Inv, IsDoc, SaveJump
<1>2. /\ DOMAIN doc'.jumps = DOMAIN doc.jumps \cup {j}
      /\ \A x \in DOMAIN doc'.jumps :
           doc'.jumps[x] = IF x = j THEN v ELSE doc.jumps[x]
  BY <1>1 DEF With
<1>3. c \in DOMAIN doc.creds
  BY DEF SaveJump
<1> QED
  BY <1>1, <1>2, <1>3 DEF Inv, Closed

LEMMA DeleteJumpInv ==
  ASSUME Inv, NEW j, DeleteJump(j) PROVE Inv'
<1>1. /\ doc'.jumps = WithoutKey(doc.jumps, j)
      /\ doc'.creds = doc.creds /\ doc'.tunnels = doc.tunnels
      /\ IsDoc(doc')
  BY DEF Inv, IsDoc, DeleteJump
<1>2. /\ DOMAIN doc'.jumps = DOMAIN doc.jumps \ {j}
      /\ \A x \in DOMAIN doc'.jumps : doc'.jumps[x] = doc.jumps[x]
  BY <1>1 DEF WithoutKey
<1> QED
  BY <1>1, <1>2 DEF Inv, Closed, DeleteJump, JumpInUse

LEMMA DeleteGroupInv ==
  ASSUME Inv, NEW g, DeleteGroup(g) PROVE Inv'
<1>1. /\ doc'.tunnels = Ungrouped(doc.tunnels, g)
      /\ doc'.creds = doc.creds /\ doc'.jumps = doc.jumps
      /\ IsDoc(doc')
  BY DEF Inv, IsDoc, DeleteGroup
<1>2. DOMAIN doc'.tunnels = DOMAIN doc.tunnels
  BY <1>1 DEF Ungrouped
<1>3. ASSUME NEW t \in DOMAIN doc.tunnels
      PROVE  /\ doc'.tunnels[t].cred = doc.tunnels[t].cred
             /\ doc'.tunnels[t].jumps = doc.tunnels[t].jumps
  BY <1>1 DEF Ungrouped
<1> QED
  BY <1>1, <1>2, <1>3 DEF Inv, Closed

LEMMA SaveTunnelInv ==
  ASSUME Inv, NEW t, NEW r, SaveTunnel(t, r) PROVE Inv'
<1>1. /\ doc'.tunnels = With(doc.tunnels, t, r)
      /\ doc'.creds = doc.creds /\ doc'.jumps = doc.jumps
      /\ IsDoc(doc')
  BY DEF Inv, IsDoc, SaveTunnel
<1>2. /\ DOMAIN doc'.tunnels = DOMAIN doc.tunnels \cup {t}
      /\ \A x \in DOMAIN doc'.tunnels :
           doc'.tunnels[x] = IF x = t THEN r ELSE doc.tunnels[x]
  BY <1>1 DEF With
<1>3. r.cred \in DOMAIN doc.creds /\ r.jumps \subseteq DOMAIN doc.jumps
  BY DEF SaveTunnel, RefsExist
<1> QED
  BY <1>1, <1>2, <1>3 DEF Inv, Closed

LEMMA DeleteTunnelInv ==
  ASSUME Inv, NEW t, DeleteTunnel(t) PROVE Inv'
<1>1. /\ doc'.tunnels = WithoutKey(doc.tunnels, t)
      /\ doc'.creds = doc.creds /\ doc'.jumps = doc.jumps
      /\ IsDoc(doc')
  BY DEF Inv, IsDoc, DeleteTunnel
<1>2. /\ DOMAIN doc'.tunnels = DOMAIN doc.tunnels \ {t}
      /\ \A x \in DOMAIN doc'.tunnels : doc'.tunnels[x] = doc.tunnels[x]
  BY <1>1 DEF WithoutKey
<1> QED
  BY <1>1, <1>2 DEF Inv, Closed

\* The steps that change none of the three lists.
LEMMA OtherListsInv ==
  ASSUME Inv, NEW g, NEW s, NEW r, NEW l,
         SaveGroup(g) \/ SaveConsole(s, r) \/ DeleteConsole(s) \/ SetLock(l)
  PROVE  Inv'
<1>1. /\ doc'.creds = doc.creds /\ doc'.jumps = doc.jumps
      /\ doc'.tunnels = doc.tunnels /\ IsDoc(doc')
  BY DEF Inv, IsDoc, SaveGroup, SaveConsole, DeleteConsole, SetLock
<1> QED
  BY <1>1 DEF Inv, Closed

-----------------------------------------------------------------------------
\* Replacing takes over a valid bundle whole.
LEMMA ReplaceInv ==
  ASSUME Inv, NEW b, Replace(b) PROVE Inv'
<1> DEFINE rc == [c \in DOMAIN b.creds |-> c]
           rj == [j \in DOMAIN b.jumps |-> j]
<1>1. /\ doc'.creds = [c \in DOMAIN b.creds |-> Imported(b.creds[c], None)]
      /\ doc'.jumps = b.jumps
      /\ doc'.tunnels = [t \in DOMAIN b.tunnels |-> RouteOf(b.tunnels[t], rc, rj)]
      /\ IsDoc(doc')
  BY DEF Inv, IsDoc, Replace, Replaced
<1>2. Valid(b)
  BY DEF Replace
<1>3. ASSUME NEW t \in DOMAIN b.tunnels
      PROVE  /\ doc'.tunnels[t].cred \in DOMAIN b.creds
             /\ doc'.tunnels[t].jumps \subseteq DOMAIN b.jumps
  <2>1. doc'.tunnels[t] = RouteOf(b.tunnels[t], rc, rj)
    BY <1>1
  <2>2. doc'.tunnels[t].cred = b.tunnels[t].cred
    BY <2>1, <1>2 DEF RouteOf, Remap, Valid
  <2>3. doc'.tunnels[t].jumps = {Remap(rj, j) : j \in b.tunnels[t].jumps}
    BY <2>1 DEF RouteOf
  <2>4. \A j \in b.tunnels[t].jumps : j \in DOMAIN b.jumps /\ Remap(rj, j) = j
    BY <1>2 DEF Remap, Valid
  <2> QED
    BY <1>2, <2>2, <2>3, <2>4 DEF Valid
<1>4. DOMAIN doc'.creds = DOMAIN b.creds /\ DOMAIN doc'.tunnels = DOMAIN b.tunnels
  BY <1>1
<1> QED
  BY <1>1, <1>2, <1>3, <1>4 DEF Inv, Closed, Valid

\* Merging: what the bundle refers to is sent to a record that is there, and
\* what was there stays.
LEMMA MergeInv ==
  ASSUME Inv, NEW b, Merge(b) PROVE Inv'
<1>1. PICK rc \in Placements(doc.creds, b.creds), rj \in Placements(doc.jumps, b.jumps) :
        doc' = Merged(doc, b, rc, rj)
  BY DEF Merge
<1>2. Valid(b)
  BY DEF Merge
<1> DEFINE cs == DOMAIN doc.creds \cup Kept(rc)
           js == DOMAIN doc.jumps \cup Kept(rj)
<1>3. /\ DOMAIN doc'.creds = cs /\ DOMAIN doc'.jumps = js
      /\ DOMAIN doc'.tunnels = DOMAIN doc.tunnels \cup DOMAIN b.tunnels
      /\ IsDoc(doc')
  BY <1>1 DEF Inv, IsDoc, Merged, Over
<1>4. \A c \in DOMAIN b.creds : Remap(rc, c) \in cs
  BY PlacedInside DEF Remap
<1>5. \A j \in DOMAIN b.jumps : Remap(rj, j) \in js
  BY PlacedInside DEF Remap
<1>6. ASSUME NEW j \in js PROVE doc'.jumps[j].cred \in cs
  <2>1. CASE j \in Kept(rj)
    <3>1. j \in DOMAIN b.jumps
      BY <2>1 DEF Kept, Placements
    <3>2. doc'.jumps[j].cred = Remap(rc, b.jumps[j].cred)
      BY <1>1, <2>1 DEF Inv, IsDoc, Merged, Over
    <3> QED
      BY <3>1, <3>2, <1>2, <1>4 DEF Valid
  <2>2. CASE j \notin Kept(rj)
    <3>1. doc'.jumps[j] = doc.jumps[j]
      BY <1>1, <2>2 DEF Inv, IsDoc, Merged, Over
    <3> QED
      BY <3>1, <2>2 DEF Inv, Closed
  <2> QED
    BY <2>1, <2>2
<1>7. ASSUME NEW t \in DOMAIN doc.tunnels \cup DOMAIN b.tunnels
      PROVE  doc'.tunnels[t].cred \in cs /\ doc'.tunnels[t].jumps \subseteq js
  <2>1. CASE t \in DOMAIN b.tunnels
    <3>1. doc'.tunnels[t] = RouteOf(b.tunnels[t], rc, rj)
      BY <1>1, <2>1 DEF Inv, IsDoc, Merged
    <3>2. /\ doc'.tunnels[t].cred = Remap(rc, b.tunnels[t].cred)
          /\ doc'.tunnels[t].jumps = {Remap(rj, j) : j \in b.tunnels[t].jumps}
      BY <3>1 DEF RouteOf
    <3> QED
      BY <2>1, <3>2, <1>2, <1>4, <1>5 DEF Valid
  <2>2. CASE t \notin DOMAIN b.tunnels
    <3>1. doc'.tunnels[t] = doc.tunnels[t]
      BY <1>1, <2>2 DEF Inv, IsDoc, Merged
    <3> QED
      BY <3>1, <2>2 DEF Inv, Closed
  <2> QED
    BY <2>1, <2>2
<1> QED
  BY <1>3, <1>6, <1>7 DEF Inv, Closed

-----------------------------------------------------------------------------
\* The credential a label resolves to is there once it is ensured.
LEMMA Ensured ==
  ASSUME NEW f, NEW c, NEW l
  PROVE  DOMAIN Ensure(f, c, l) = DOMAIN f \cup {c}
BY DEF Ensure, With

\* What an SSH import writes is closed: its one tunnel refers to a credential and
\* a jump host it ensures, and it takes no credential or jump host away.
LEMMA SshImportedClosed ==
  ASSUME Inv, NEW cs, NEW js, NEW t, NEW c, NEW via,
         doc' = SshImported(doc, cs, js, t, c, via),
         DOMAIN doc.creds \subseteq DOMAIN cs, c \in DOMAIN cs,
         DOMAIN doc.jumps \subseteq DOMAIN js, via \subseteq DOMAIN js,
         \A j \in DOMAIN js : js[j].cred \in DOMAIN cs
  PROVE  Inv'
<1> DEFINE r == [cred |-> c, jumps |-> via, group |-> None]
<1>1. /\ doc'.creds = cs /\ doc'.jumps = js
      /\ doc'.tunnels = With(doc.tunnels, t, r)
      /\ IsDoc(doc')
  BY DEF SshImported, IsDoc
<1>2. /\ DOMAIN doc'.tunnels = DOMAIN doc.tunnels \cup {t}
      /\ \A x \in DOMAIN doc'.tunnels :
           doc'.tunnels[x] = IF x = t THEN r ELSE doc.tunnels[x]
  BY <1>1 DEF With
<1> QED
  BY <1>1, <1>2 DEF Inv, Closed

LEMMA ImportSshInv ==
  ASSUME Inv, NEW p, ImportSsh(p) PROVE Inv'
<1>1. PICK t \in TunnelIds \ DOMAIN doc.tunnels, c \in Target(doc.creds, CredIds, p.label) :
        LET cs == Ensure(doc.creds, c, p.label)
        IN \/ doc' = SshImported(doc, cs, doc.jumps, t, c, {})
           \/ \E j \in ByLabel(doc.jumps, p.jump), k \in Target(cs, CredIds, p.jumpCred) :
                doc' = SshImported(doc, Ensure(cs, k, p.jumpCred), doc.jumps, t, c, {j})
           \/ \E j \in JumpIds \ DOMAIN doc.jumps, k \in Target(cs, CredIds, p.jumpCred) :
                doc' = SshImported(doc, Ensure(cs, k, p.jumpCred),
                         With(doc.jumps, j, [label |-> p.jump, cred |-> k]), t, c, {j})
  BY DEF ImportSsh
<1> DEFINE cs == Ensure(doc.creds, c, p.label)
<1>2. DOMAIN cs = DOMAIN doc.creds \cup {c}
  BY Ensured
<1>6. \A k : DOMAIN Ensure(cs, k, p.jumpCred) = DOMAIN doc.creds \cup {c, k}
  <2> HIDE DEF cs
  <2> QED
    BY <1>2 DEF Ensure, With
<1>3. CASE doc' = SshImported(doc, cs, doc.jumps, t, c, {})
  BY <1>2, <1>3, SshImportedClosed DEF Inv, Closed
<1>4. ASSUME NEW j \in ByLabel(doc.jumps, p.jump), NEW k,
             doc' = SshImported(doc, Ensure(cs, k, p.jumpCred), doc.jumps, t, c, {j})
      PROVE  Inv'
  <2> DEFINE ks == Ensure(cs, k, p.jumpCred)
  <2>1. DOMAIN ks = DOMAIN doc.creds \cup {c, k}
    BY <1>6
  <2>2. j \in DOMAIN doc.jumps
    BY DEF ByLabel
  <2>3. doc' = SshImported(doc, ks, doc.jumps, t, c, {j})
    BY <1>4
  <2>4. \A x \in DOMAIN doc.jumps : doc.jumps[x].cred \in DOMAIN ks
    BY <2>1 DEF Inv, Closed
  <2> HIDE DEF ks
  <2> QED
    BY <2>1, <2>2, <2>3, <2>4, SshImportedClosed
<1>5. ASSUME NEW j, NEW k,
             doc' = SshImported(doc, Ensure(cs, k, p.jumpCred),
                      With(doc.jumps, j, [label |-> p.jump, cred |-> k]), t, c, {j})
      PROVE  Inv'
  <2> DEFINE v == [label |-> p.jump, cred |-> k]
             js == With(doc.jumps, j, v)
             ks == Ensure(cs, k, p.jumpCred)
  <2>1. DOMAIN ks = DOMAIN doc.creds \cup {c, k}
    BY <1>6
  <2>2. /\ DOMAIN js = DOMAIN doc.jumps \cup {j}
        /\ \A x \in DOMAIN js : js[x] = IF x = j THEN v ELSE doc.jumps[x]
    BY DEF With
  <2>3. \A x \in DOMAIN js : js[x].cred \in DOMAIN ks
    BY <2>1, <2>2 DEF Inv, Closed
  <2>4. doc' = SshImported(doc, ks, js, t, c, {j})
    BY <1>5
  <2> HIDE DEF js, ks
  <2> QED
    BY <2>1, <2>2, <2>3, <2>4, SshImportedClosed
<1> HIDE DEF cs
<1> QED
  BY <1>1, <1>3, <1>4, <1>5 DEF cs

-----------------------------------------------------------------------------
\* Every step keeps the document closed.
LEMMA StepInv == Inv /\ [Next]_vars => Inv'
<1> SUFFICES ASSUME Inv, [Next]_vars PROVE Inv'
  OBVIOUS
<1>1. CASE UNCHANGED vars
  BY <1>1 DEF Inv, vars
<1>2. CASE Next
  BY <1>2, SaveCredInv, DeleteCredInv, SaveJumpInv, DeleteJumpInv, DeleteGroupInv,
     SaveTunnelInv, DeleteTunnelInv, OtherListsInv, MergeInv, ReplaceInv, ImportSshInv
     DEF Next
<1> QED
  BY <1>1, <1>2

\* No sequence of saves, deletes and imports leaves a tunnel or a jump host that
\* refers to a record that is not there (tunnel-store.js, jump-host-store.js and
\* portable.js check or remap every reference they write).
THEOREM ReferencesResolve == Spec => []RefsResolve
<1>1. Inv => RefsResolve
  BY DEF Inv, Closed, RefsResolve, Logins
<1> QED
  BY InitInv, StepInv, <1>1, PTL DEF Spec
-----------------------------------------------------------------------------
\* Imports.  That a backup restores takes more than closed references: every
\* list is a map of records, and no stored secret belongs to a credential that
\* could not hold one, or reading it back would drop it.
HeldCreds(f) ==
  /\ f \in Maps(CredIds, Cred)
  /\ \A c \in DOMAIN f : f[c].secret => HoldsSecret(f[c].auth)

Whole(d) ==
  /\ HeldCreds(d.creds)
  /\ d.jumps \in Maps(JumpIds, Jump)
  /\ d.groups \subseteq GroupIds
  /\ d.tunnels \in Maps(TunnelIds, Route)
  /\ d.consoles \in Maps(ConsoleIds, Route)

ImportInv == Inv /\ Whole(doc)

\* A map from some of the ids is a function on them.
LEMMA MapsAre ==
  ASSUME NEW S, NEW T, NEW f
  PROVE  f \in Maps(S, T) <=> DOMAIN f \subseteq S /\ f \in [DOMAIN f -> T]
BY DEF Maps

LEMMA MapsOf ==
  ASSUME NEW S, NEW T, NEW D, D \subseteq S, NEW f, f \in [D -> T]
  PROVE  f \in Maps(S, T) /\ DOMAIN f = D
BY DEF Maps

\* Adding and removing a record leave a map of records.
LEMMA WithMaps ==
  ASSUME NEW S, NEW T, NEW f \in Maps(S, T), NEW k \in S, NEW v \in T
  PROVE  With(f, k, v) \in Maps(S, T)
<1>1. DOMAIN f \subseteq S /\ \A x \in DOMAIN f : f[x] \in T
  BY MapsAre
<1>2. With(f, k, v) \in [DOMAIN f \cup {k} -> T]
  BY <1>1 DEF With
<1> QED
  BY <1>1, <1>2, MapsOf

LEMMA WithoutMaps ==
  ASSUME NEW S, NEW T, NEW f \in Maps(S, T), NEW k
  PROVE  WithoutKey(f, k) \in Maps(S, T)
<1>1. DOMAIN f \subseteq S /\ \A x \in DOMAIN f : f[x] \in T
  BY MapsAre
<1>2. WithoutKey(f, k) \in [DOMAIN f \ {k} -> T]
  BY <1>1 DEF WithoutKey
<1> QED
  BY <1>1, <1>2, MapsOf

\* The initial document is whole.
LEMMA InitImport == Init => ImportInv
<1> SUFFICES ASSUME Init PROVE Whole(doc)
  BY InitInv DEF ImportInv
<1>1. DOMAIN Empty = {}
  BY DEF Empty
<1>2. ASSUME NEW S, NEW T PROVE Empty \in Maps(S, T)
  <2>1. Empty \in [{} -> T]
    BY DEF Empty
  <2> QED
    BY <2>1, MapsOf
<1> QED
  BY <1>1, <1>2 DEF Init, NewDoc, Whole, HeldCreds

-----------------------------------------------------------------------------
\* Saves and deletes keep it whole.
LEMMA SaveCredWhole ==
  ASSUME ImportInv, NEW c \in CredIds, NEW l \in Labels, NEW a \in AuthTypes, NEW i,
         SaveCred(c, l, a, i)
  PROVE  Whole(doc)'
<1> DEFINE old == IF c \in DOMAIN doc.creds THEN doc.creds[c] ELSE None
           v == [label |-> l, auth |-> a, secret |-> Sealed(old, a, i)]
<1>1. /\ doc'.creds = With(doc.creds, c, v)
      /\ doc'.jumps = doc.jumps /\ doc'.groups = doc.groups
      /\ doc'.tunnels = doc.tunnels /\ doc'.consoles = doc.consoles
  BY DEF SaveCred, ImportInv, Inv, IsDoc
<1>2. Sealed(old, a, i) \in BOOLEAN /\ (Sealed(old, a, i) => HoldsSecret(a))
  BY DEF Sealed
<1>3. v \in Cred /\ v.auth = a /\ v.secret = Sealed(old, a, i)
  <2> HIDE DEF old
  <2> QED
    BY <1>2 DEF Cred
<1> HIDE DEF v
<1>4. doc'.creds \in Maps(CredIds, Cred)
  BY <1>1, <1>3, WithMaps DEF ImportInv, Whole, HeldCreds
<1>6. /\ DOMAIN doc'.creds = DOMAIN doc.creds \cup {c}
      /\ \A x \in DOMAIN doc.creds \cup {c} :
           doc'.creds[x] = IF x = c THEN v ELSE doc.creds[x]
  BY <1>1 DEF With
<1>5. HeldCreds(doc'.creds)
  <2> HIDE DEF old
  <2> QED
    BY <1>2, <1>3, <1>4, <1>6 DEF ImportInv, Whole, HeldCreds
<1> QED
  BY <1>1, <1>5 DEF ImportInv, Whole

LEMMA DeleteCredWhole ==
  ASSUME ImportInv, NEW c, DeleteCred(c) PROVE Whole(doc)'
<1>1. /\ doc'.creds = WithoutKey(doc.creds, c)
      /\ doc'.jumps = doc.jumps /\ doc'.groups = doc.groups
      /\ doc'.tunnels = doc.tunnels /\ doc'.consoles = doc.consoles
  BY DEF DeleteCred, ImportInv, Inv, IsDoc
<1>3. doc'.creds \in Maps(CredIds, Cred)
  BY <1>1, WithoutMaps DEF ImportInv, Whole, HeldCreds
<1>4. /\ DOMAIN doc'.creds = DOMAIN doc.creds \ {c}
      /\ \A x \in DOMAIN doc'.creds : doc'.creds[x] = doc.creds[x]
  BY <1>1 DEF WithoutKey
<1>2. HeldCreds(doc'.creds)
  BY <1>3, <1>4 DEF ImportInv, Whole, HeldCreds
<1> QED
  BY <1>1, <1>2 DEF ImportInv, Whole

LEMMA SaveJumpWhole ==
  ASSUME ImportInv, NEW j \in JumpIds, NEW l \in Labels, NEW c \in CredIds,
         SaveJump(j, l, c)
  PROVE  Whole(doc)'
<1> DEFINE v == [label |-> l, cred |-> c]
<1>1. /\ doc'.jumps = With(doc.jumps, j, v)
      /\ doc'.creds = doc.creds /\ doc'.groups = doc.groups
      /\ doc'.tunnels = doc.tunnels /\ doc'.consoles = doc.consoles
  BY DEF SaveJump, ImportInv, Inv, IsDoc
<1>2. v \in Jump
  BY DEF Jump
<1>3. doc'.jumps \in Maps(JumpIds, Jump)
  BY <1>1, <1>2, WithMaps DEF ImportInv, Whole
<1> QED
  BY <1>1, <1>3 DEF ImportInv, Whole

LEMMA DeleteJumpWhole ==
  ASSUME ImportInv, NEW j, DeleteJump(j) PROVE Whole(doc)'
<1>1. /\ doc'.jumps = WithoutKey(doc.jumps, j)
      /\ doc'.creds = doc.creds /\ doc'.groups = doc.groups
      /\ doc'.tunnels = doc.tunnels /\ doc'.consoles = doc.consoles
  BY DEF DeleteJump, ImportInv, Inv, IsDoc
<1> QED
  BY <1>1, WithoutMaps DEF ImportInv, Whole

\* A route without its group is a route.
LEMMA UngroupedMaps ==
  ASSUME NEW S, NEW f \in Maps(S, Route), NEW g
  PROVE  Ungrouped(f, g) \in Maps(S, Route)
<1>1. DOMAIN f \subseteq S /\ \A x \in DOMAIN f : f[x] \in Route
  BY MapsAre
<1>2. ASSUME NEW x \in DOMAIN f PROVE [f[x] EXCEPT !.group = None] \in Route
  BY <1>1 DEF Route
<1>3. Ungrouped(f, g) \in [DOMAIN f -> Route]
  BY <1>1, <1>2 DEF Ungrouped
<1> QED
  BY <1>1, <1>3, MapsOf

LEMMA GroupWhole ==
  ASSUME ImportInv, NEW g \in GroupIds, SaveGroup(g) \/ DeleteGroup(g)
  PROVE  Whole(doc)'
<1>1. CASE SaveGroup(g)
  BY <1>1 DEF SaveGroup, ImportInv, Inv, IsDoc, Whole
<1>2. CASE DeleteGroup(g)
  <2>1. /\ doc'.tunnels = Ungrouped(doc.tunnels, g)
        /\ doc'.consoles = Ungrouped(doc.consoles, g)
        /\ doc'.groups = doc.groups \ {g}
        /\ doc'.creds = doc.creds /\ doc'.jumps = doc.jumps
    BY <1>2 DEF DeleteGroup, ImportInv, Inv, IsDoc
  <2> QED
    BY <2>1, UngroupedMaps DEF ImportInv, Whole
<1> QED
  BY <1>1, <1>2

LEMMA SaveTunnelWhole ==
  ASSUME ImportInv, NEW t \in TunnelIds, NEW r \in Route, SaveTunnel(t, r) PROVE Whole(doc)'
<1>1. /\ doc'.tunnels = With(doc.tunnels, t, r)
      /\ doc'.creds = doc.creds /\ doc'.groups = doc.groups
      /\ doc'.jumps = doc.jumps /\ doc'.consoles = doc.consoles
  BY DEF SaveTunnel, ImportInv, Inv, IsDoc
<1> QED
  BY <1>1, WithMaps DEF ImportInv, Whole

LEMMA DeleteTunnelWhole ==
  ASSUME ImportInv, NEW t, DeleteTunnel(t) PROVE Whole(doc)'
<1>1. /\ doc'.tunnels = WithoutKey(doc.tunnels, t)
      /\ doc'.creds = doc.creds /\ doc'.groups = doc.groups
      /\ doc'.jumps = doc.jumps /\ doc'.consoles = doc.consoles
  BY DEF DeleteTunnel, ImportInv, Inv, IsDoc
<1> QED
  BY <1>1, WithoutMaps DEF ImportInv, Whole

LEMMA SaveConsoleWhole ==
  ASSUME ImportInv, NEW s \in ConsoleIds, NEW r \in Route, SaveConsole(s, r) PROVE Whole(doc)'
<1>1. /\ doc'.consoles = With(doc.consoles, s, r)
      /\ doc'.creds = doc.creds /\ doc'.groups = doc.groups
      /\ doc'.jumps = doc.jumps /\ doc'.tunnels = doc.tunnels
  BY DEF SaveConsole, ImportInv, Inv, IsDoc
<1> QED
  BY <1>1, WithMaps DEF ImportInv, Whole

LEMMA DeleteConsoleWhole ==
  ASSUME ImportInv, NEW s, DeleteConsole(s) PROVE Whole(doc)'
<1>1. /\ doc'.consoles = WithoutKey(doc.consoles, s)
      /\ doc'.creds = doc.creds /\ doc'.groups = doc.groups
      /\ doc'.jumps = doc.jumps /\ doc'.tunnels = doc.tunnels
  BY DEF DeleteConsole, ImportInv, Inv, IsDoc
<1> QED
  BY <1>1, WithoutMaps DEF ImportInv, Whole

-----------------------------------------------------------------------------
\* What an import is made of.
Way == [cred : CredIds, jumps : SUBSET JumpIds]

LEMMA BundleIs ==
  ASSUME NEW b \in Bundles
  PROVE  /\ b.creds \in Maps(CredIds, Cred) /\ b.jumps \in Maps(JumpIds, Jump)
         /\ b.tunnels \in Maps(TunnelIds, Way)
BY StoresAssumption DEF Bundle, Way

LEMMA ImportedIs ==
  ASSUME NEW bc \in Cred, NEW old
  PROVE  /\ Imported(bc, old) \in Cred
         /\ Imported(bc, old).label = bc.label
         /\ Imported(bc, old).auth = bc.auth
         /\ Imported(bc, old).secret <=>
              HoldsSecret(bc.auth)
                /\ (bc.secret \/ (old # None /\ old.auth = bc.auth /\ old.secret))
BY DEF Imported, Cred, HoldsSecret

\* The route of an imported tunnel is one wherever its references are sent.
LEMMA RouteOfIs ==
  ASSUME NEW bt \in Way, NEW rc, NEW rj,
         \A c \in CredIds : Remap(rc, c) \in CredIds,
         \A j \in JumpIds : Remap(rj, j) \in JumpIds
  PROVE  RouteOf(bt, rc, rj) \in Route
<1>1. Remap(rc, bt.cred) \in CredIds /\ {Remap(rj, j) : j \in bt.jumps} \subseteq JumpIds
  BY DEF Way
<1> QED
  BY <1>1 DEF RouteOf, Route

\* A placement sends an id to an id.
LEMMA PlacementRemaps ==
  ASSUME NEW S, NEW T, NEW old \in Maps(S, T), NEW new \in Maps(S, T),
         NEW r \in Placements(old, new), NEW x \in S
  PROVE  Remap(r, x) \in S
<1>1. DOMAIN old \subseteq S /\ DOMAIN new \subseteq S
  BY MapsAre
<1>2. r \in [DOMAIN new -> DOMAIN new \cup DOMAIN old]
  BY DEF Placements
<1> QED
  BY <1>1, <1>2 DEF Remap

LEMMA ReplaceWhole ==
  ASSUME ImportInv, NEW b \in Bundles, Replace(b) PROVE Whole(doc)'
<1> DEFINE rc == [c \in DOMAIN b.creds |-> c]
           rj == [j \in DOMAIN b.jumps |-> j]
<1>1. /\ doc'.creds = [c \in DOMAIN b.creds |-> Imported(b.creds[c], None)]
      /\ doc'.jumps = b.jumps
      /\ doc'.tunnels = [t \in DOMAIN b.tunnels |-> RouteOf(b.tunnels[t], rc, rj)]
      /\ doc'.groups = doc.groups /\ doc'.consoles = doc.consoles
  BY DEF ImportInv, Inv, IsDoc, Replace, Replaced
<1>2. HeldCreds(doc'.creds)
  <2>1. DOMAIN b.creds \subseteq CredIds /\ \A c \in DOMAIN b.creds : b.creds[c] \in Cred
    BY BundleIs, MapsAre
  <2>2. doc'.creds \in [DOMAIN b.creds -> Cred]
    BY <1>1, <2>1, ImportedIs
  <2>3. doc'.creds \in Maps(CredIds, Cred) /\ DOMAIN doc'.creds = DOMAIN b.creds
    BY <2>1, <2>2, MapsOf
  <2>4. ASSUME NEW c \in DOMAIN b.creds
        PROVE  doc'.creds[c].secret => HoldsSecret(doc'.creds[c].auth)
    BY <1>1, <2>1, ImportedIs
  <2> QED
    BY <2>3, <2>4 DEF HeldCreds
<1>3. doc'.tunnels \in Maps(TunnelIds, Route)
  <2>1. /\ DOMAIN b.tunnels \subseteq TunnelIds
        /\ \A t \in DOMAIN b.tunnels : b.tunnels[t] \in Way
    BY BundleIs, MapsAre
  <2>2. \A c \in CredIds : Remap(rc, c) \in CredIds
    BY DEF Remap
  <2>3. \A j \in JumpIds : Remap(rj, j) \in JumpIds
    BY DEF Remap
  <2> HIDE DEF rc, rj
  <2>4. doc'.tunnels \in [DOMAIN b.tunnels -> Route]
    BY <1>1, <2>1, <2>2, <2>3, RouteOfIs
  <2> QED
    BY <2>1, <2>4, MapsOf
<1> QED
  BY <1>1, <1>2, <1>3, BundleIs DEF ImportInv, Whole

LEMMA MergeWhole ==
  ASSUME ImportInv, NEW b \in Bundles, Merge(b) PROVE Whole(doc)'
<1>1. PICK rc \in Placements(doc.creds, b.creds), rj \in Placements(doc.jumps, b.jumps) :
        doc' = Merged(doc, b, rc, rj)
  BY DEF Merge
<1>2. /\ DOMAIN b.creds \subseteq CredIds /\ \A c \in DOMAIN b.creds : b.creds[c] \in Cred
      /\ DOMAIN b.jumps \subseteq JumpIds /\ \A j \in DOMAIN b.jumps : b.jumps[j] \in Jump
      /\ DOMAIN b.tunnels \subseteq TunnelIds
      /\ \A t \in DOMAIN b.tunnels : b.tunnels[t] \in Way
  BY BundleIs, MapsAre
<1>3. /\ DOMAIN doc.creds \subseteq CredIds
      /\ \A c \in DOMAIN doc.creds : doc.creds[c] \in Cred
      /\ DOMAIN doc.jumps \subseteq JumpIds
      /\ \A j \in DOMAIN doc.jumps : doc.jumps[j] \in Jump
      /\ DOMAIN doc.tunnels \subseteq TunnelIds
      /\ \A t \in DOMAIN doc.tunnels : doc.tunnels[t] \in Route
  BY MapsAre DEF ImportInv, Whole, HeldCreds
<1>4. Kept(rc) \subseteq DOMAIN b.creds /\ Kept(rj) \subseteq DOMAIN b.jumps
  BY DEF Kept, Placements
<1>5. \A c \in CredIds : Remap(rc, c) \in CredIds
  BY BundleIs, PlacementRemaps DEF ImportInv, Whole, HeldCreds
<1>6. \A j \in JumpIds : Remap(rj, j) \in JumpIds
  BY BundleIs, PlacementRemaps DEF ImportInv, Whole
<1>7. /\ doc'.creds = [c \in DOMAIN doc.creds \cup Kept(rc) |->
                         IF c \in Kept(rc) THEN Imported(b.creds[c], OldOf(doc.creds, c))
                                           ELSE doc.creds[c]]
      /\ doc'.jumps = [j \in DOMAIN doc.jumps \cup Kept(rj) |->
                         IF j \in Kept(rj)
                         THEN [label |-> b.jumps[j].label,
                               cred |-> Remap(rc, b.jumps[j].cred)]
                         ELSE doc.jumps[j]]
      /\ doc'.tunnels = [t \in DOMAIN doc.tunnels \cup DOMAIN b.tunnels |->
                           IF t \in DOMAIN b.tunnels
                           THEN RouteOf(b.tunnels[t], rc, rj) ELSE doc.tunnels[t]]
      /\ doc'.groups = doc.groups /\ doc'.consoles = doc.consoles
  BY <1>1 DEF ImportInv, Inv, IsDoc, Merged, Over
<1>8. HeldCreds(doc'.creds)
  <2>1. doc'.creds \in [DOMAIN doc.creds \cup Kept(rc) -> Cred]
    BY <1>2, <1>3, <1>4, <1>7, ImportedIs
  <2>2. doc'.creds \in Maps(CredIds, Cred) /\ DOMAIN doc'.creds = DOMAIN doc.creds \cup Kept(rc)
    BY <1>2, <1>3, <1>4, <2>1, MapsOf
  <2>3. ASSUME NEW c \in Kept(rc)
        PROVE  doc'.creds[c].secret => HoldsSecret(doc'.creds[c].auth)
    BY <1>2, <1>4, <1>7, ImportedIs
  <2>4. ASSUME NEW c \in DOMAIN doc.creds \ Kept(rc)
        PROVE  doc'.creds[c].secret => HoldsSecret(doc'.creds[c].auth)
    BY <1>7 DEF ImportInv, Whole, HeldCreds
  <2> QED
    BY <2>2, <2>3, <2>4 DEF HeldCreds
<1>9. doc'.jumps \in Maps(JumpIds, Jump)
  <2>1. ASSUME NEW j \in Kept(rj)
        PROVE  [label |-> b.jumps[j].label, cred |-> Remap(rc, b.jumps[j].cred)] \in Jump
    BY <1>2, <1>4, <1>5 DEF Jump
  <2>2. doc'.jumps \in [DOMAIN doc.jumps \cup Kept(rj) -> Jump]
    BY <1>3, <1>7, <2>1
  <2> QED
    BY <1>2, <1>3, <1>4, <2>2, MapsOf
<1>10. doc'.tunnels \in Maps(TunnelIds, Route)
  <2>1. doc'.tunnels \in [DOMAIN doc.tunnels \cup DOMAIN b.tunnels -> Route]
    BY <1>2, <1>3, <1>5, <1>6, <1>7, RouteOfIs
  <2> QED
    BY <1>2, <1>3, <2>1, MapsOf
<1> QED
  BY <1>7, <1>8, <1>9, <1>10 DEF ImportInv, Whole

\* The credential made for a label is an agent's, and holds no secret.
LEMMA EnsuredHeld ==
  ASSUME NEW f, HeldCreds(f), NEW c \in CredIds, NEW l \in Labels
  PROVE  HeldCreds(Ensure(f, c, l))
<1> DEFINE v == [label |-> l, auth |-> "agent", secret |-> FALSE]
<1>1. v \in Cred /\ v.secret = FALSE
  BY StoresAssumption DEF Cred
<1> HIDE DEF v
<1>2. CASE c \notin DOMAIN f
  <2>1. Ensure(f, c, l) = With(f, c, v)
    BY <1>2 DEF Ensure, v
  <2>2. With(f, c, v) \in Maps(CredIds, Cred)
    BY <1>1, WithMaps DEF HeldCreds
  <2>3. /\ DOMAIN With(f, c, v) = DOMAIN f \cup {c}
        /\ \A x \in DOMAIN f \cup {c} : With(f, c, v)[x] = IF x = c THEN v ELSE f[x]
    BY DEF With
  <2> QED
    BY <1>1, <2>1, <2>2, <2>3 DEF HeldCreds
<1>3. CASE c \in DOMAIN f
  BY <1>3 DEF Ensure
<1> QED
  BY <1>2, <1>3

LEMMA ImportSshWhole ==
  ASSUME ImportInv, NEW p \in Proposals, ImportSsh(p) PROVE Whole(doc)'
<1>1. PICK t \in TunnelIds \ DOMAIN doc.tunnels, c \in Target(doc.creds, CredIds, p.label) :
        LET cs == Ensure(doc.creds, c, p.label)
        IN \/ doc' = SshImported(doc, cs, doc.jumps, t, c, {})
           \/ \E j \in ByLabel(doc.jumps, p.jump), k \in Target(cs, CredIds, p.jumpCred) :
                doc' = SshImported(doc, Ensure(cs, k, p.jumpCred), doc.jumps, t, c, {j})
           \/ \E j \in JumpIds \ DOMAIN doc.jumps, k \in Target(cs, CredIds, p.jumpCred) :
                /\ p.jump # None
                /\ doc' = SshImported(doc, Ensure(cs, k, p.jumpCred),
                            With(doc.jumps, j, [label |-> p.jump, cred |-> k]), t, c, {j})
  BY DEF ImportSsh
<1> DEFINE cs == Ensure(doc.creds, c, p.label)
<1>2. p.label \in Labels /\ p.jumpCred \in Labels /\ p.jump \in Labels \cup {None}
  BY StoresAssumption DEF Proposal
<1>3. ASSUME NEW f, HeldCreds(f), NEW l, NEW k \in Target(f, CredIds, l) PROVE k \in CredIds
  <2>1. DOMAIN f \subseteq CredIds
    BY <1>3, MapsAre DEF HeldCreds
  <2> QED
    BY <2>1 DEF Target, ByLabel
<1>4. c \in CredIds
  BY <1>3 DEF ImportInv, Whole
<1>5. HeldCreds(cs)
  BY <1>2, <1>4, EnsuredHeld DEF ImportInv, Whole
<1> HIDE DEF cs
<1>6. ASSUME NEW ks, NEW js, NEW via \in SUBSET JumpIds,
             HeldCreds(ks), js \in Maps(JumpIds, Jump),
             doc' = SshImported(doc, ks, js, t, c, via)
      PROVE  Whole(doc)'
  <2> DEFINE r == [cred |-> c, jumps |-> via, group |-> None]
  <2>1. /\ doc'.creds = ks /\ doc'.jumps = js /\ doc'.groups = {}
        /\ doc'.tunnels = With(doc.tunnels, t, r) /\ doc'.consoles = Empty
    BY <1>6 DEF SshImported
  <2>2. r \in Route
    BY <1>4 DEF Route
  <2>3. doc'.tunnels \in Maps(TunnelIds, Route)
    BY <2>1, <2>2, WithMaps DEF ImportInv, Whole
  <2>4. Empty \in [{} -> Route]
    BY DEF Empty
  <2>5. doc'.consoles \in Maps(ConsoleIds, Route)
    BY <2>1, <2>4, MapsOf
  <2> QED
    BY <1>6, <2>1, <2>3, <2>5 DEF Whole
<1>7. DOMAIN doc.jumps \subseteq JumpIds
  BY MapsAre DEF ImportInv, Whole
<1>8. CASE doc' = SshImported(doc, cs, doc.jumps, t, c, {})
  BY <1>5, <1>6, <1>8 DEF ImportInv, Whole
<1>9. ASSUME NEW j \in ByLabel(doc.jumps, p.jump), NEW k \in Target(cs, CredIds, p.jumpCred),
             doc' = SshImported(doc, Ensure(cs, k, p.jumpCred), doc.jumps, t, c, {j})
      PROVE  Whole(doc)'
  <2>1. HeldCreds(Ensure(cs, k, p.jumpCred))
    BY <1>2, <1>3, <1>5, EnsuredHeld
  <2>2. {j} \in SUBSET JumpIds
    BY <1>7 DEF ByLabel
  <2> QED
    BY <1>6, <1>9, <2>1, <2>2 DEF ImportInv, Whole
<1>10. ASSUME NEW j \in JumpIds \ DOMAIN doc.jumps, NEW k \in Target(cs, CredIds, p.jumpCred),
              p.jump # None,
              doc' = SshImported(doc, Ensure(cs, k, p.jumpCred),
                       With(doc.jumps, j, [label |-> p.jump, cred |-> k]), t, c, {j})
       PROVE  Whole(doc)'
  <2> DEFINE v == [label |-> p.jump, cred |-> k]
  <2>1. HeldCreds(Ensure(cs, k, p.jumpCred)) /\ k \in CredIds
    BY <1>2, <1>3, <1>5, EnsuredHeld
  <2>2. v \in Jump
    BY <1>2, <1>10, <2>1 DEF Jump
  <2>3. With(doc.jumps, j, v) \in Maps(JumpIds, Jump)
    BY <2>2, WithMaps DEF ImportInv, Whole
  <2>4. doc' = SshImported(doc, Ensure(cs, k, p.jumpCred), With(doc.jumps, j, v), t, c, {j})
    BY <1>10
  <2>5. {j} \in SUBSET JumpIds
    OBVIOUS
  <2> HIDE DEF v
  <2> QED
    BY <1>6, <2>1, <2>3, <2>4, <2>5
<1> QED
  BY <1>1, <1>8, <1>9, <1>10 DEF cs

-----------------------------------------------------------------------------
LEMMA StepImport == ImportInv /\ [Next]_vars => ImportInv'
<1> SUFFICES ASSUME ImportInv, [Next]_vars PROVE Whole(doc)'
  BY StepInv DEF ImportInv
<1>1. CASE UNCHANGED vars
  BY <1>1 DEF ImportInv, vars
<1>2. CASE Next
  <2>1. CASE \E l \in BOOLEAN : SetLock(l)
    BY <2>1 DEF SetLock, ImportInv
  <2>2. CASE \E c \in CredIds, l \in Labels, a \in AuthTypes, i \in {"new", "keep", "clear"} :
               SaveCred(c, l, a, i)
    BY <2>2, SaveCredWhole
  <2>3. CASE \E c \in CredIds : DeleteCred(c)
    BY <2>3, DeleteCredWhole
  <2>4. CASE \E j \in JumpIds, l \in Labels, c \in CredIds : SaveJump(j, l, c)
    BY <2>4, SaveJumpWhole
  <2>5. CASE \E j \in JumpIds : DeleteJump(j)
    BY <2>5, DeleteJumpWhole
  <2>6. CASE \E g \in GroupIds : SaveGroup(g) \/ DeleteGroup(g)
    BY <2>6, GroupWhole
  <2>7. CASE \E t \in TunnelIds, r \in Route : SaveTunnel(t, r)
    BY <2>7, SaveTunnelWhole
  <2>8. CASE \E t \in TunnelIds : DeleteTunnel(t)
    BY <2>8, DeleteTunnelWhole
  <2>9. CASE \E s \in ConsoleIds, r \in Route : SaveConsole(s, r)
    BY <2>9, SaveConsoleWhole
  <2>10. CASE \E s \in ConsoleIds : DeleteConsole(s)
    BY <2>10, DeleteConsoleWhole
  <2>11. CASE \E b \in Bundles : Merge(b) \/ Replace(b)
    BY <2>11, MergeWhole, ReplaceWhole
  <2>12. CASE \E p \in Proposals : ImportSsh(p)
    BY <2>12, ImportSshWhole
  <2> QED
    BY <1>2, <2>1, <2>2, <2>3, <2>4, <2>5, <2>6, <2>7, <2>8, <2>9, <2>10, <2>11, <2>12
       DEF Next
<1> QED
  BY <1>1, <1>2

-----------------------------------------------------------------------------
\* Credentials that agree in their three fields are one.
LEMMA CredsAgree ==
  ASSUME NEW u \in Cred, NEW v \in Cred,
         u.label = v.label, u.auth = v.auth, u.secret <=> v.secret
  PROVE  u = v
BY DEF Cred

\* What an export carries: every record under its id, a credential with its
\* secret or without it.
LEMMA ExportedIs ==
  ASSUME ImportInv, NEW s \in BOOLEAN
  PROVE  LET b == Exported(doc, s)
         IN /\ DOMAIN b.creds = DOMAIN doc.creds
            /\ \A c \in DOMAIN doc.creds :
                 /\ b.creds[c] \in Cred
                 /\ b.creds[c].label = doc.creds[c].label
                 /\ b.creds[c].auth = doc.creds[c].auth
                 /\ b.creds[c].secret <=> doc.creds[c].secret /\ s
            /\ b.jumps = doc.jumps
            /\ DOMAIN b.tunnels = DOMAIN doc.tunnels
            /\ \A t \in DOMAIN doc.tunnels :
                 b.tunnels[t] = [cred |-> doc.tunnels[t].cred, jumps |-> doc.tunnels[t].jumps]
<1>1. \A c \in DOMAIN doc.creds : doc.creds[c] \in Cred
  BY MapsAre DEF ImportInv, Whole, HeldCreds
<1>2. \A c \in DOMAIN doc.creds :
        LET e == [doc.creds[c] EXCEPT !.secret = @ /\ s]
        IN /\ e \in Cred /\ e.label = doc.creds[c].label /\ e.auth = doc.creds[c].auth
           /\ e.secret <=> doc.creds[c].secret /\ s
  BY <1>1 DEF Cred
<1> QED
  BY <1>2 DEF Exported

\* A route whose references are sent to themselves comes back without its group.
LEMMA RouteBack ==
  ASSUME ImportInv, NEW t \in DOMAIN doc.tunnels, NEW rc, NEW rj,
         \A c \in DOMAIN doc.creds : Remap(rc, c) = c,
         \A j \in DOMAIN doc.jumps : Remap(rj, j) = j
  PROVE  RouteOf([cred |-> doc.tunnels[t].cred, jumps |-> doc.tunnels[t].jumps], rc, rj)
           = [doc.tunnels[t] EXCEPT !.group = None]
<1> DEFINE r == doc.tunnels[t]
<1>1. r \in Route
  BY MapsAre DEF ImportInv, Whole
<1>2. r.cred \in DOMAIN doc.creds /\ r.jumps \subseteq DOMAIN doc.jumps
  BY DEF ImportInv, Inv, Closed
<1>3. {Remap(rj, j) : j \in r.jumps} = r.jumps
  BY <1>2
<1>4. RouteOf([cred |-> r.cred, jumps |-> r.jumps], rc, rj)
        = [cred |-> r.cred, jumps |-> r.jumps, group |-> None]
  BY <1>2, <1>3 DEF RouteOf
<1> QED
  BY <1>1, <1>4 DEF Route

\* A backup made now can be read back now.
LEMMA BackupNow == ImportInv => BackupRestores
<1> SUFFICES ASSUME ImportInv PROVE BackupRestores
  OBVIOUS
<1> DEFINE full == Exported(doc, TRUE)
           same(d) == /\ d.creds = doc.creds /\ d.jumps = doc.jumps
                      /\ d.tunnels = Ungroup(doc.tunnels)
<1>1. /\ \A c \in DOMAIN doc.creds : doc.creds[c] \in Cred
      /\ \A j \in DOMAIN doc.jumps : doc.jumps[j] \in Jump
      /\ doc.creds = [c \in DOMAIN doc.creds |-> doc.creds[c]]
      /\ doc.jumps = [j \in DOMAIN doc.jumps |-> doc.jumps[j]]
  BY MapsAre DEF ImportInv, Whole, HeldCreds
<1>2. Valid(full)
  <2>1. /\ DOMAIN full.creds = DOMAIN doc.creds /\ full.jumps = doc.jumps
        /\ DOMAIN full.tunnels = DOMAIN doc.tunnels
    BY ExportedIs
  <2>2. ASSUME NEW t \in DOMAIN doc.tunnels
        PROVE  /\ full.tunnels[t].cred = doc.tunnels[t].cred
               /\ full.tunnels[t].jumps = doc.tunnels[t].jumps
    <3>1. full.tunnels[t] = [cred |-> doc.tunnels[t].cred, jumps |-> doc.tunnels[t].jumps]
      BY ExportedIs
    <3> HIDE DEF full
    <3> QED
      BY <3>1
  <2> HIDE DEF full
  <2> QED
    BY <2>1, <2>2 DEF Valid, ImportInv, Inv, Closed
<1>3. same(Replaced(doc, full))
  <2> DEFINE rc == [c \in DOMAIN full.creds |-> c]
             rj == [j \in DOMAIN full.jumps |-> j]
             m == Replaced(doc, full)
  <2>1. /\ m.creds = [c \in DOMAIN full.creds |-> Imported(full.creds[c], None)]
        /\ m.jumps = full.jumps
        /\ m.tunnels = [t \in DOMAIN full.tunnels |-> RouteOf(full.tunnels[t], rc, rj)]
    BY DEF ImportInv, Inv, IsDoc, Replaced
  <2>2. /\ DOMAIN full.creds = DOMAIN doc.creds /\ full.jumps = doc.jumps
        /\ DOMAIN full.tunnels = DOMAIN doc.tunnels
    BY ExportedIs
  <2>3. ASSUME NEW c \in DOMAIN doc.creds PROVE Imported(full.creds[c], None) = doc.creds[c]
    <3> DEFINE bc == full.creds[c]
               i == Imported(bc, None)
    <3>1. /\ bc \in Cred /\ bc.label = doc.creds[c].label
          /\ bc.auth = doc.creds[c].auth /\ (bc.secret <=> doc.creds[c].secret)
      BY ExportedIs
    <3> HIDE DEF bc
    <3>2. /\ i \in Cred /\ i.label = bc.label /\ i.auth = bc.auth
          /\ i.secret <=> HoldsSecret(bc.auth) /\ bc.secret
      BY <3>1, ImportedIs
    <3>3. doc.creds[c].secret => HoldsSecret(doc.creds[c].auth)
      BY DEF ImportInv, Whole, HeldCreds
    <3> HIDE DEF i
    <3>4. i = doc.creds[c]
      BY <1>1, <3>1, <3>2, <3>3, CredsAgree
    <3> QED
      BY <3>4 DEF i, bc
  <2>4. ASSUME NEW t \in DOMAIN doc.tunnels
        PROVE  RouteOf(full.tunnels[t], rc, rj) = [doc.tunnels[t] EXCEPT !.group = None]
    <3>1. full.tunnels[t] = [cred |-> doc.tunnels[t].cred, jumps |-> doc.tunnels[t].jumps]
      BY ExportedIs
    <3>2. /\ \A c \in DOMAIN doc.creds : Remap(rc, c) = c
          /\ \A j \in DOMAIN doc.jumps : Remap(rj, j) = j
      BY <2>2 DEF Remap
    <3> HIDE DEF full, rc, rj
    <3> QED
      <4>1. RouteOf([cred |-> doc.tunnels[t].cred, jumps |-> doc.tunnels[t].jumps], rc, rj)
              = [doc.tunnels[t] EXCEPT !.group = None]
        BY <3>2, RouteBack
      <4>2. QED
        BY <3>1, <4>1
  <2> HIDE DEF full, rc, rj, m
  <2>5. m.creds = doc.creds
    BY <1>1, <2>1, <2>2, <2>3
  <2>6. m.tunnels = Ungroup(doc.tunnels)
    BY <2>1, <2>2, <2>4 DEF Ungroup
  <2> QED
    BY <2>1, <2>2, <2>5, <2>6 DEF m
<1>4. ASSUME NEW s \in BOOLEAN, NEW rc \in Placements(doc.creds, Exported(doc, s).creds),
             NEW rj \in Placements(doc.jumps, Exported(doc, s).jumps)
      PROVE  same(Merged(doc, Exported(doc, s), rc, rj))
  <2> DEFINE b == Exported(doc, s)
             m == Merged(doc, b, rc, rj)
  <2>1. /\ DOMAIN b.creds = DOMAIN doc.creds /\ b.jumps = doc.jumps
        /\ DOMAIN b.tunnels = DOMAIN doc.tunnels
    BY ExportedIs
  <2>2. /\ DOMAIN rc = DOMAIN doc.creds /\ \A c \in DOMAIN doc.creds : rc[c] = c
        /\ DOMAIN rj = DOMAIN doc.jumps /\ \A j \in DOMAIN doc.jumps : rj[j] = j
    BY <2>1 DEF Placements, Placed
  <2>3. Kept(rc) = DOMAIN doc.creds /\ Kept(rj) = DOMAIN doc.jumps
    BY <2>2 DEF Kept
  <2>4. /\ \A c \in DOMAIN doc.creds : Remap(rc, c) = c
        /\ \A j \in DOMAIN doc.jumps : Remap(rj, j) = j
    BY <2>2 DEF Remap
  <2>5. /\ m.creds = [c \in DOMAIN doc.creds \cup Kept(rc) |->
                        IF c \in Kept(rc) THEN Imported(b.creds[c], OldOf(doc.creds, c))
                                          ELSE doc.creds[c]]
        /\ m.jumps = [j \in DOMAIN doc.jumps \cup Kept(rj) |->
                        IF j \in Kept(rj)
                        THEN [label |-> b.jumps[j].label,
                              cred |-> Remap(rc, b.jumps[j].cred)]
                        ELSE doc.jumps[j]]
        /\ m.tunnels = [t \in DOMAIN doc.tunnels \cup DOMAIN b.tunnels |->
                          IF t \in DOMAIN b.tunnels
                          THEN RouteOf(b.tunnels[t], rc, rj) ELSE doc.tunnels[t]]
    BY DEF ImportInv, Inv, IsDoc, Merged, Over
  <2>6. ASSUME NEW c \in DOMAIN doc.creds
        PROVE  Imported(b.creds[c], OldOf(doc.creds, c)) = doc.creds[c]
    <3> DEFINE bc == b.creds[c]
               i == Imported(bc, doc.creds[c])
    <3>1. /\ bc \in Cred /\ bc.label = doc.creds[c].label
          /\ bc.auth = doc.creds[c].auth /\ (bc.secret => doc.creds[c].secret)
      BY ExportedIs
    <3>2. doc.creds[c] # None
      BY <1>1, StoresAssumption
    <3> HIDE DEF bc
    <3>3. /\ i \in Cred /\ i.label = bc.label /\ i.auth = bc.auth
          /\ i.secret <=> HoldsSecret(bc.auth)
                            /\ (bc.secret \/ (doc.creds[c] # None /\ doc.creds[c].auth = bc.auth
                                                /\ doc.creds[c].secret))
      BY <3>1, ImportedIs
    <3>4. doc.creds[c].secret => HoldsSecret(doc.creds[c].auth)
      BY DEF ImportInv, Whole, HeldCreds
    <3> HIDE DEF i
    <3>5. i = doc.creds[c]
      BY <1>1, <3>1, <3>2, <3>3, <3>4, CredsAgree
    <3> QED
      BY <3>5 DEF i, bc, OldOf
  <2>7. ASSUME NEW j \in DOMAIN doc.jumps
        PROVE  [label |-> b.jumps[j].label, cred |-> Remap(rc, b.jumps[j].cred)] = doc.jumps[j]
    <3>1. doc.jumps[j].cred \in DOMAIN doc.creds /\ doc.jumps[j] \in Jump
      BY <1>1 DEF ImportInv, Inv, Closed
    <3> HIDE DEF b
    <3> QED
      BY <2>1, <2>4, <3>1 DEF Jump
  <2>8. ASSUME NEW t \in DOMAIN doc.tunnels
        PROVE  RouteOf(b.tunnels[t], rc, rj) = [doc.tunnels[t] EXCEPT !.group = None]
    <3>1. b.tunnels[t] = [cred |-> doc.tunnels[t].cred, jumps |-> doc.tunnels[t].jumps]
      BY ExportedIs
    <3> QED
      <4>1. RouteOf([cred |-> doc.tunnels[t].cred, jumps |-> doc.tunnels[t].jumps], rc, rj)
              = [doc.tunnels[t] EXCEPT !.group = None]
        BY <2>4, RouteBack
      <4>2. QED
        BY <3>1, <4>1
  <2> HIDE DEF b, m
  <2>9. m.creds = doc.creds
    BY <1>1, <2>3, <2>5, <2>6
  <2>10. m.jumps = doc.jumps
    <3>1. /\ m.jumps = [j \in DOMAIN doc.jumps |-> m.jumps[j]]
          /\ \A j \in DOMAIN doc.jumps :
               m.jumps[j] = [label |-> b.jumps[j].label, cred |-> Remap(rc, b.jumps[j].cred)]
      BY <2>3, <2>5
    <3>2. \A j \in DOMAIN doc.jumps : m.jumps[j] = doc.jumps[j]
      BY <2>7, <3>1
    <3> QED
      BY <1>1, <3>1, <3>2
  <2>11. m.tunnels = Ungroup(doc.tunnels)
    BY <2>1, <2>5, <2>8 DEF Ungroup
  <2> QED
    BY <2>9, <2>10, <2>11 DEF m, b
<1> QED
  BY <1>2, <1>3, <1>4 DEF BackupRestores

\* Whatever a merge made now is placed on, it takes no secret away and its
\* tunnels log in with what the bundle means.
LEMMA MergeNow == ImportInv => MergeIsFaithful
<1> SUFFICES ASSUME ImportInv, NEW b \in Bundles, Valid(b),
                    NEW rc \in Placements(doc.creds, b.creds),
                    NEW rj \in Placements(doc.jumps, b.jumps)
             PROVE  KeepsSecrets(Merged(doc, b, rc, rj)) /\ RefsFollow(Merged(doc, b, rc, rj), b)
  BY DEF MergeIsFaithful
<1> DEFINE m == Merged(doc, b, rc, rj)
<1>1. /\ m.creds = [c \in DOMAIN doc.creds \cup Kept(rc) |->
                      IF c \in Kept(rc) THEN Imported(b.creds[c], OldOf(doc.creds, c))
                                        ELSE doc.creds[c]]
      /\ m.tunnels = [t \in DOMAIN doc.tunnels \cup DOMAIN b.tunnels |->
                        IF t \in DOMAIN b.tunnels
                        THEN RouteOf(b.tunnels[t], rc, rj) ELSE doc.tunnels[t]]
  BY DEF ImportInv, Inv, IsDoc, Merged, Over
<1>2. /\ \A c \in DOMAIN doc.creds : doc.creds[c] \in Cred
      /\ \A c \in DOMAIN b.creds : b.creds[c] \in Cred
  BY BundleIs, MapsAre DEF ImportInv, Whole, HeldCreds
<1>3. Kept(rc) \subseteq DOMAIN b.creds /\ DOMAIN rc = DOMAIN b.creds
  BY DEF Kept, Placements
<1> HIDE DEF m
<1>4. ASSUME NEW c \in DOMAIN doc.creds
      PROVE  /\ c \in DOMAIN m.creds
             /\ doc.creds[c].secret /\ m.creds[c].auth = doc.creds[c].auth
                  => m.creds[c].secret
  <2>1. CASE c \notin Kept(rc)
    BY <1>1, <2>1
  <2>2. CASE c \in Kept(rc)
    <3>1. m.creds[c] = Imported(b.creds[c], doc.creds[c]) /\ b.creds[c] \in Cred
      BY <1>1, <1>2, <1>3, <2>2 DEF OldOf
    <3>2. doc.creds[c] # None
      BY <1>2, StoresAssumption
    <3>3. doc.creds[c].secret => HoldsSecret(doc.creds[c].auth)
      BY DEF ImportInv, Whole, HeldCreds
    <3> QED
      BY <1>1, <3>1, <3>2, <3>3, ImportedIs
  <2> QED
    BY <2>1, <2>2
<1>5. \A x \in DOMAIN b.creds : rc[x] \in DOMAIN m.creds
  BY <1>1, PlacedInside
<1>6. \A y \in Kept(rc) : m.creds[y].label = b.creds[y].label
  BY <1>1, <1>2, <1>3, ImportedIs
<1>7. ASSUME NEW x \in DOMAIN b.creds
      PROVE  \/ m.creds[rc[x]].label = b.creds[x].label
             \/ rc[x] \in DOMAIN b.creds \cap DOMAIN doc.creds
  <2>1. CASE rc[x] = x
    BY <1>3, <1>6, <2>1 DEF Kept
  <2>2. CASE Meets(rc, doc.creds, b.creds, x, rc[x])
    <3>1. CASE rc[x] \in Kept(rc) /\ b.creds[rc[x]].label = b.creds[x].label
      BY <1>6, <3>1
    <3>2. CASE rc[x] \in DOMAIN doc.creds /\ doc.creds[rc[x]].label = b.creds[x].label
      BY <1>1, <1>3, <3>2
    <3> QED
      BY <2>2, <3>1, <3>2 DEF Meets
  <2> QED
    BY <2>1, <2>2 DEF Placements, Placed
<1>8. ASSUME NEW t \in DOMAIN b.tunnels
      PROVE  m.tunnels[t].cred = rc[b.tunnels[t].cred] /\ b.tunnels[t].cred \in DOMAIN b.creds
  BY <1>1, <1>3 DEF Valid, RouteOf, Remap
<1> QED
  BY <1>4, <1>5, <1>7, <1>8 DEF KeepsSecrets, RefsFollow, m

\* A backup made at any time is read back whole, whether it replaces or merges
\* (buildBundle() and mergeDoc() of portable.js invert each other), and no merge
\* of any bundle clobbers a stored secret with a stripped one or hands a tunnel a
\* credential the bundle did not mean.
THEOREM ImportsFaithful == Spec => []ImportIsFaithful
<1>1. ImportInv => ImportIsFaithful
  BY BackupNow, MergeNow DEF ImportIsFaithful
<1> QED
  BY InitImport, StepImport, <1>1, PTL DEF Spec
-----------------------------------------------------------------------------
\* An import arrives (module Transfer).  A list is current by its last read on
\* the way, or an answered import is about to make it load; every stored tunnel
\* that does not run as it is stored is still ahead of some sweep.
Asks ==
  Calls("export", BOOLEAN) \cup Calls("look", {"bundle", "hosts"})
    \cup Calls("apply", [mode : Modes, pass : Passes]) \cup Calls("add", SUBSET Rows)

Reads == [at : {"asked", "answered"}, rows : [Rows -> Nat]]

TransferType ==
  /\ busy \in BOOLEAN
  /\ ask \in Asks \cup {Idle}
  /\ writes \in Nat
  /\ kept \in [Rows -> Nat] /\ live \in [Rows -> Nat]
  /\ sweeps \in Seq(Seq(Rows))
  /\ view \in [rows : [Rows -> Nat], reads : Seq(Reads)]

\* The answer to an import that wrote is on its way.
Announcing ==
  /\ ask # Idle /\ ask.at = "answered"
  /\ ask.op \in {"apply", "add"} /\ ask.res # "error"

Fresh ==
  IF view.reads = <<>> THEN view.rows = kept
  ELSE LET last == view.reads[Len(view.reads)]
       IN last.at = "answered" => last.rows = kept

Ahead(i) == \E k \in DOMAIN sweeps : \E n \in DOMAIN sweeps[k] : sweeps[k][n] = i

ArriveInv ==
  /\ TransferType
  /\ busy = (ask # Idle)
  /\ Announcing \/ Fresh
  /\ \A i \in Rows : kept[i] # 0 /\ live[i] # kept[i] => Ahead(i)

LEMMA InitArrive == TransferInit => ArriveInv
<1> SUFFICES ASSUME TransferInit PROVE ArriveInv
  OBVIOUS
<1>1. kept \in [Rows -> Nat] /\ live = kept
  BY DEF TransferInit
<1>2. view.reads = <<>> /\ view.rows = kept
  BY DEF TransferInit
<1>3. TransferType
  <2>1. <<>> \in Seq(Reads) /\ <<>> \in Seq(Seq(Rows))
    OBVIOUS
  <2>2. view = [rows |-> kept, reads |-> <<>>] /\ sweeps = <<>> /\ writes = 1
        /\ busy = FALSE /\ ask = Idle
    BY DEF TransferInit
  <2>3. view \in [rows : [Rows -> Nat], reads : Seq(Reads)]
    BY <1>1, <2>1, <2>2
  <2> QED
    BY <1>1, <2>1, <2>2, <2>3 DEF TransferType
<1> QED
  BY <1>1, <1>2, <1>3 DEF ArriveInv, Fresh, TransferInit

\* A call that is sent is a call.
LEMMA SendArrives ==
  ASSUME ArriveInv, ~busy, NEW op, NEW asked, NEW what \in asked,
         Calls(op, asked) \subseteq Asks,
         Send(op, what), UNCHANGED <<writes, kept, live, sweeps, view>>
  PROVE  ArriveInv'
<1>1. busy' = TRUE /\ ask' = [op |-> op, what |-> what, at |-> "asked", res |-> "none", file |-> Idle]
  BY DEF Send
<1>2. ask' \in Calls(op, asked)
  BY <1>1 DEF Calls
<1>3. ask' \in Asks /\ ask' # Idle
  BY <1>2, TransferAssumption DEF Asks
<1>4. ask = Idle /\ Fresh
  BY DEF ArriveInv, Announcing
<1> QED
  BY <1>1, <1>3, <1>4 DEF ArriveInv, TransferType, Fresh, Ahead

\* What the user does to the dialog changes it or sends a call.
LEMMA DialogArrives ==
  ASSUME ArriveInv, NEW seal \in BOOLEAN, NEW pass \in Passes \cup {"once", "twice"},
         NEW form \in {"bundle", "hosts"}, NEW mode \in Modes, NEW chosen \in SUBSET Rows,
         \/ OpenExport \/ Cancel \/ SubmitExport(seal, pass) \/ Start(form)
         \/ (pass \in Passes /\ SubmitBundle(mode, pass)) \/ SubmitHosts(chosen)
  PROVE  ArriveInv'
<1>1. CASE UNCHANGED <<busy, ask, writes, kept, live, sweeps, view>>
  BY <1>1 DEF ArriveInv, TransferType, Announcing, Fresh, Ahead
<1>2. CASE ~busy /\ Send("export", seal) /\ UNCHANGED <<writes, kept, live, sweeps, view>>
  <2>1. Calls("export", BOOLEAN) \subseteq Asks
    BY DEF Asks
  <2> QED
    BY <1>2, <2>1, SendArrives
<1>3. CASE ~busy /\ Send("look", form) /\ UNCHANGED <<writes, kept, live, sweeps, view>>
  <2>1. Calls("look", {"bundle", "hosts"}) \subseteq Asks
    BY DEF Asks
  <2> QED
    BY <1>3, <2>1, SendArrives
<1>4. CASE /\ pass \in Passes /\ ~busy /\ Send("apply", [mode |-> mode, pass |-> pass])
           /\ UNCHANGED <<writes, kept, live, sweeps, view>>
  <2>1. Calls("apply", [mode : Modes, pass : Passes]) \subseteq Asks
    BY DEF Asks
  <2> DEFINE what == [mode |-> mode, pass |-> pass]
             asked == [mode : Modes, pass : Passes]
  <2>2. what \in asked
    BY <1>4
  <2>3. Send("apply", what) /\ Calls("apply", asked) \subseteq Asks
    BY <1>4, <2>1
  <2> HIDE DEF what, asked
  <2> QED
    BY <1>4, <2>2, <2>3, SendArrives
<1>5. CASE ~busy /\ Send("add", chosen) /\ UNCHANGED <<writes, kept, live, sweeps, view>>
  <2>1. Calls("add", SUBSET Rows) \subseteq Asks
    BY DEF Asks
  <2> QED
    BY <1>5, <2>1, SendArrives
<1> QED
  BY <1>1, <1>2, <1>3, <1>4, <1>5
     DEF OpenExport, Cancel, SubmitExport, Start, SubmitBundle, SubmitHosts

-----------------------------------------------------------------------------
\* An answered call is a call still, of the same operation.
LEMMA ReplyIs ==
  ASSUME ArriveInv, NEW op, AskedFor(op), NEW res \in {"ok", "canceled", "invalid", "error"},
         NEW file \in Packs \cup {Idle}, Reply(res, file)
  PROVE  /\ ask' \in Asks /\ ask' # Idle /\ ask # Idle /\ ask.op = op
         /\ ask'.op = op /\ ask'.at = "answered" /\ ask'.res = res
         /\ ~Announcing
<1>1. ask # Idle /\ ask \in Asks /\ ask.op = op /\ ask.at = "asked"
  BY DEF ArriveInv, TransferType, AskedFor
<1>2. ask' = [ask EXCEPT !.at = "answered", !.res = res, !.file = file]
  BY DEF Reply
<1>3. PICK o, asked : ask \in Calls(o, asked) /\ Calls(o, asked) \subseteq Asks
  BY <1>1 DEF Asks
<1>4. ask' \in Calls(o, asked)
  BY <1>2, <1>3 DEF Calls
<1>5. ask'.op = ask.op /\ ask'.at = "answered" /\ ask'.res = res
  BY <1>2, <1>3 DEF Calls
<1>6. ask' \in Asks /\ ask' # Idle
  BY <1>3, <1>4, TransferAssumption DEF Asks
<1> QED
  BY <1>1, <1>5, <1>6 DEF Announcing

\* What writes nothing leaves the list and the tunnels as right as they were.
LEMMA AnsweredArrives ==
  ASSUME ArriveInv, NEW op, AskedFor(op), NEW res \in {"ok", "canceled", "invalid", "error"},
         NEW file \in Packs \cup {Idle}, Reply(res, file),
         UNCHANGED <<busy, writes, kept, live, sweeps, view>>
  PROVE  ArriveInv'
<1>1. /\ ask' \in Asks /\ ask' # Idle /\ ask # Idle /\ ~Announcing
  BY ReplyIs
<1>2. Fresh
  BY <1>1 DEF ArriveInv
<1> QED
  BY <1>1, <1>2 DEF ArriveInv, TransferType, Fresh, Ahead

LEMMA ServeExportArrives ==
  ASSUME ArriveInv, NEW res \in {"ok", "canceled", "error"}, ServeExport(res)
  PROVE  ArriveInv'
BY AnsweredArrives DEF ServeExport

LEMMA ServeLookArrives ==
  ASSUME ArriveInv, NEW file \in Packs \cup {Idle}, ServeLook(file) PROVE ArriveInv'
<1> DEFINE res == CASE file = Idle -> "canceled" [] file # Idle /\ ~file.sound -> "invalid"
                    [] OTHER -> "ok"
<1>1. res \in {"ok", "canceled", "invalid", "error"}
  OBVIOUS
<1>2. Reply(res, file)
  BY DEF ServeLook
<1> HIDE DEF res
<1> QED
  BY <1>1, <1>2, AnsweredArrives DEF ServeLook

\* The order in which reconcileAll() walks what is stored has all of it.
LEMMA OrdersCover ==
  ASSUME NEW S \in SUBSET Rows, NEW s \in Orders(S)
  PROVE  /\ s \in Seq(Rows)
         /\ \A i \in S : \E n \in DOMAIN s : s[n] = i
<1>1. IsFiniteSet(S)
  BY FS_Subset, TransferAssumption
<1>2. Cardinality(S) \in Nat
  BY <1>1, FS_CardinalityType
<1>3. s \in [1..Cardinality(S) -> S] /\ Range(s) = S
  BY DEF Orders
<1>4. s \in Seq(Rows)
  BY <1>2, <1>3
<1> QED
  BY <1>3, <1>4 DEF Range

\* A write that has the engine reconcile all that is stored then.
LEMMA WrittenArrives ==
  ASSUME ArriveInv, NEW op \in {"apply", "add"}, AskedFor(op), Reply("ok", Idle),
         writes' = writes + 1, kept' \in [Rows -> Nat],
         NEW s \in Orders(Stored(kept')), Reconcile(s),
         UNCHANGED <<busy, live, view>>
  PROVE  ArriveInv'
<1>1. /\ ask' \in Asks /\ ask' # Idle /\ ask # Idle
      /\ ask'.op = op /\ ask'.at = "answered" /\ ask'.res = "ok"
  BY ReplyIs
<1>2. s \in Seq(Rows) /\ \A i \in Stored(kept') : \E n \in DOMAIN s : s[n] = i
  BY OrdersCover DEF Stored
<1>3. /\ sweeps \in Seq(Seq(Rows)) /\ sweeps' = Append(sweeps, s)
  BY DEF ArriveInv, TransferType, Reconcile
<1>4. /\ sweeps' \in Seq(Seq(Rows)) /\ Len(sweeps) + 1 \in DOMAIN sweeps'
      /\ sweeps'[Len(sweeps) + 1] = s
  BY <1>2, <1>3
<1>5. \A i \in Rows : kept'[i] # 0 => Ahead(i)'
  BY <1>2, <1>4 DEF Stored, Ahead
<1>6. TransferType'
  BY <1>1, <1>4 DEF ArriveInv, TransferType
<1> QED
  BY <1>1, <1>5, <1>6 DEF ArriveInv, Announcing

LEMMA ServeApplyArrives ==
  ASSUME ArriveInv, NEW file \in Packs, ServeApply(file) PROVE ArriveInv'
<1> DEFINE merged == [i \in Rows |-> IF i \in file.rows THEN writes + 1
                                     ELSE IF ask.what.mode = "merge" THEN kept[i] ELSE 0]
<1>1. AskedFor("apply")
  BY DEF ServeApply
<1>2. CASE Reply("error", Idle) /\ UNCHANGED <<writes, kept, sweeps>>
  BY <1>1, <1>2, AnsweredArrives DEF ServeApply
<1>3. ASSUME writes' = writes + 1, kept' = merged,
             NEW s \in Orders(Stored(merged)), Reconcile(s), Reply("ok", Idle),
             UNCHANGED <<busy, live, view>>
      PROVE  ArriveInv'
  <2>1. merged \in [Rows -> Nat]
    BY DEF ArriveInv, TransferType
  <2> HIDE DEF merged
  <2> QED
    BY <1>1, <1>3, <2>1, WrittenArrives
<1> QED
  BY <1>2, <1>3 DEF ServeApply

LEMMA ServeAddArrives ==
  ASSUME ArriveInv, ServeAdd PROVE ArriveInv'
<1>1. PICK N \in SUBSET {i \in Rows : kept[i] = 0} :
        /\ writes' = writes + 1
        /\ kept' = [i \in Rows |-> IF i \in N THEN writes + 1 ELSE kept[i]]
        /\ \E s \in Orders(Stored([i \in Rows |-> IF i \in N THEN writes + 1 ELSE kept[i]])) :
             Reconcile(s)
  BY DEF ServeAdd
<1>2. kept' \in [Rows -> Nat]
  BY <1>1 DEF ArriveInv, TransferType
<1>3. PICK s \in Orders(Stored(kept')) : Reconcile(s)
  BY <1>1
<1>4. /\ AskedFor("add") /\ Reply("ok", Idle) /\ UNCHANGED <<busy, live, view>>
  BY DEF ServeAdd
<1> QED
  BY <1>1, <1>2, <1>3, <1>4, WrittenArrives

-----------------------------------------------------------------------------
\* A sequence without one of its members has all the others.
LEMMA RemoveAtKeeps ==
  ASSUME NEW T, NEW s \in Seq(T), NEW k \in 1..Len(s)
  PROVE  /\ RemoveAt(s, k) \in Seq(T)
         /\ \A j \in 1..Len(s) : j # k =>
              \E m \in DOMAIN RemoveAt(s, k) : RemoveAt(s, k)[m] = s[j]
<1>0. Len(s) \in Nat /\ k \in Nat
  OBVIOUS
<1> DEFINE a == SubSeq(s, 1, k - 1)
           b == SubSeq(s, k + 1, Len(s))
<1>1. /\ a \in Seq(T) /\ Len(a) = k - 1 /\ \A n \in 1..(k - 1) : a[n] = s[n]
  OBVIOUS
<1>2. /\ b \in Seq(T) /\ Len(b) = Len(s) - k /\ \A n \in 1..(Len(s) - k) : b[n] = s[k + n]
  OBVIOUS
<1>3. RemoveAt(s, k) = a \o b
  BY DEF RemoveAt
<1> HIDE DEF a, b
<1>4. /\ a \o b \in Seq(T) /\ DOMAIN (a \o b) = 1..(Len(s) - 1)
      /\ \A n \in 1..(k - 1) : (a \o b)[n] = s[n]
      /\ \A n \in k..(Len(s) - 1) : (a \o b)[n] = b[n - (k - 1)]
  BY <1>1, <1>2
<1>5. ASSUME NEW j \in 1..Len(s), j # k
      PROVE  \E m \in DOMAIN (a \o b) : (a \o b)[m] = s[j]
  <2>1. CASE j < k
    <3>1. j \in 1..(k - 1) /\ j \in 1..(Len(s) - 1)
      BY <1>0, <2>1
    <3> QED
      BY <1>4, <3>1
  <2>2. CASE j > k
    <3>1. j - 1 \in k..(Len(s) - 1) /\ (j - 1) - (k - 1) = j - k /\ j - k \in 1..(Len(s) - k)
      BY <1>0, <2>2
    <3>2. (a \o b)[j - 1] = b[j - k] /\ b[j - k] = s[k + (j - k)] /\ k + (j - k) = j
      BY <1>2, <1>4, <3>1
    <3>3. j - 1 \in DOMAIN (a \o b)
      BY <1>0, <1>4, <3>1
    <3> QED
      BY <3>2, <3>3
  <2> QED
    BY <1>5, <2>1, <2>2
<1> QED
  BY <1>3, <1>4, <1>5

\* A step of a sweep leaves a tunnel behind only as it is stored.
LEMMA SweepArrives ==
  ASSUME ArriveInv, NEW k \in DOMAIN sweeps, Sweep(k) PROVE ArriveInv'
<1>1. /\ sweeps \in Seq(Seq(Rows)) /\ k \in 1..Len(sweeps) /\ sweeps[k] \in Seq(Rows)
      /\ live \in [Rows -> Nat] /\ kept \in [Rows -> Nat]
  BY DEF ArriveInv, TransferType
<1>2. UNCHANGED <<busy, ask, writes, kept, view>>
  BY DEF Sweep
<1>3. CASE sweeps[k] = <<>>
  <2>1. sweeps' = RemoveAt(sweeps, k) /\ live' = live
    BY <1>3 DEF Sweep
  <2>2. /\ sweeps' \in Seq(Seq(Rows))
        /\ \A j \in 1..Len(sweeps) : j # k => \E m \in DOMAIN sweeps' : sweeps'[m] = sweeps[j]
    BY <1>1, <2>1, RemoveAtKeeps
  <2>3. ASSUME NEW i \in Rows, Ahead(i) PROVE Ahead(i)'
    <3>1. PICK j \in DOMAIN sweeps : \E n \in DOMAIN sweeps[j] : sweeps[j][n] = i
      BY <2>3 DEF Ahead
    <3>2. DOMAIN sweeps[k] = {} /\ DOMAIN sweeps = 1..Len(sweeps)
      BY <1>1, <1>3
    <3>4. j # k /\ j \in 1..Len(sweeps)
      BY <3>1, <3>2
    <3>3. PICK m \in DOMAIN sweeps' : sweeps'[m] = sweeps[j]
      BY <2>2, <3>4
    <3> QED
      BY <3>1, <3>3 DEF Ahead
  <2> QED
    BY <1>2, <2>1, <2>2, <2>3 DEF ArriveInv, TransferType, Announcing, Fresh
<1>4. CASE sweeps[k] # <<>>
  <2> DEFINE h == Head(sweeps[k])
  <2>1. /\ live' = [live EXCEPT ![h] = kept[h]]
        /\ sweeps' = [sweeps EXCEPT ![k] = Tail(sweeps[k])]
    BY <1>4 DEF Sweep
  <2>2. /\ h \in Rows /\ Tail(sweeps[k]) \in Seq(Rows) /\ h = sweeps[k][1]
        /\ Len(Tail(sweeps[k])) = Len(sweeps[k]) - 1
        /\ \A n \in 2..Len(sweeps[k]) : Tail(sweeps[k])[n - 1] = sweeps[k][n]
    BY <1>1, <1>4
  <2>3. sweeps' \in Seq(Seq(Rows)) /\ DOMAIN sweeps' = DOMAIN sweeps /\ live' \in [Rows -> Nat]
    BY <1>1, <2>1, <2>2
  <2>4. ASSUME NEW i \in Rows, Ahead(i), i # h PROVE Ahead(i)'
    <3>1. PICK j \in DOMAIN sweeps : \E n \in DOMAIN sweeps[j] : sweeps[j][n] = i
      BY <2>4 DEF Ahead
    <3>2. PICK n \in DOMAIN sweeps[j] : sweeps[j][n] = i
      BY <3>1
    <3>3. CASE j # k
      <4>1. sweeps'[j] = sweeps[j]
        BY <1>1, <2>1, <3>3
      <4> QED
        BY <2>3, <3>2, <4>1 DEF Ahead
    <3>4. CASE j = k
      <4> HIDE DEF h
      <4>4. n \in DOMAIN sweeps[k] /\ sweeps[k][n] = i /\ n # 1
        BY <2>2, <2>4, <3>2, <3>4
      <4>5. Len(sweeps[k]) \in Nat /\ DOMAIN sweeps[k] = 1..Len(sweeps[k])
        BY <1>1
      <4>1. n \in 2..Len(sweeps[k])
        BY <4>4, <4>5
      <4>6. DOMAIN Tail(sweeps[k]) = 1..(Len(sweeps[k]) - 1)
        BY <2>2, <4>5
      <4>2. n - 1 \in DOMAIN Tail(sweeps[k]) /\ Tail(sweeps[k])[n - 1] = i
        BY <2>2, <4>1, <4>4, <4>5, <4>6
      <4>3. sweeps'[k] = Tail(sweeps[k])
        BY <1>1, <2>1
      <4> QED
        BY <2>3, <4>2, <4>3 DEF Ahead
    <3> QED
      BY <3>3, <3>4
  <2>5. ASSUME NEW i \in Rows, kept[i] # 0, live'[i] # kept[i] PROVE Ahead(i)'
    <3> HIDE DEF h
    <3>1. i # h /\ live'[i] = live[i]
      BY <1>1, <2>1, <2>2, <2>5
    <3> QED
      BY <2>4, <2>5, <3>1 DEF ArriveInv
  <2> QED
    BY <1>2, <2>3, <2>5 DEF ArriveInv, TransferType, Announcing, Fresh
<1> QED
  BY <1>3, <1>4

-----------------------------------------------------------------------------
\* A load that is asked for will show what is stored when it is served.
LEMMA LoadShows ==
  ASSUME view \in [rows : [Rows -> Nat], reads : Seq(Reads)], Load
  PROVE  view' \in [rows : [Rows -> Nat], reads : Seq(Reads)] /\ Fresh'
<1> DEFINE q == [at |-> "asked", rows |-> NoRows]
<1>1. q \in Reads /\ q.at = "asked"
  BY DEF Reads, NoRows
<1>2. view' = [view EXCEPT !.reads = Append(view.reads, q)]
  BY DEF Load
<1> HIDE DEF q
<1>3. view'.reads = Append(view.reads, q) /\ view'.rows = view.rows /\ view.reads \in Seq(Reads)
  BY <1>2
<1>4. /\ view'.reads \in Seq(Reads) /\ view'.reads # <<>>
      /\ view'.reads[Len(view'.reads)] = q
  BY <1>1, <1>3
<1> QED
  BY <1>1, <1>2, <1>4 DEF Fresh

LEMMA ServeListArrives ==
  ASSUME ArriveInv, ServeList PROVE ArriveInv'
<1>1. PICK k \in DOMAIN view.reads :
        /\ view.reads[k].at = "asked"
        /\ view' = [view EXCEPT !.reads[k] = [at |-> "answered", rows |-> kept]]
        /\ UNCHANGED <<sheet, busy, ask, writes, kept, live, sweeps>>
  BY DEF ServeList
<1> DEFINE q == [at |-> "answered", rows |-> kept]
<1>2. /\ view.reads \in Seq(Reads) /\ view.rows \in [Rows -> Nat] /\ kept \in [Rows -> Nat]
      /\ k \in 1..Len(view.reads)
  BY <1>1 DEF ArriveInv, TransferType
<1>3. q \in Reads /\ q.rows = kept
  BY <1>2 DEF Reads
<1>4. view' = [view EXCEPT !.reads[k] = q]
  BY <1>1
<1> HIDE DEF q
<1>5. view'.reads = [view.reads EXCEPT ![k] = q] /\ view'.rows = view.rows
  BY <1>4 DEF ArriveInv, TransferType
<1>6. /\ view'.reads \in Seq(Reads) /\ Len(view'.reads) = Len(view.reads)
      /\ view'.reads # <<>> /\ view.reads # <<>>
      /\ \A n \in 1..Len(view.reads) :
           view'.reads[n] = IF n = k THEN q ELSE view.reads[n]
  BY <1>2, <1>3, <1>5
<1>7. view' \in [rows : [Rows -> Nat], reads : Seq(Reads)]
  BY <1>4, <1>5, <1>6 DEF ArriveInv, TransferType
<1>8. Len(view.reads) \in 1..Len(view.reads)
  BY <1>2
<1>9. Fresh => Fresh'
  BY <1>1, <1>3, <1>6, <1>8 DEF Fresh
<1> QED
  BY <1>1, <1>7, <1>9 DEF ArriveInv, TransferType, Announcing, Ahead

LEMMA LoadedArrives ==
  ASSUME ArriveInv, Loaded PROVE ArriveInv'
<1>1. /\ view.reads \in Seq(Reads) /\ view.reads # <<>> /\ Head(view.reads).at = "answered"
      /\ view' = [rows |-> Head(view.reads).rows, reads |-> Tail(view.reads)]
      /\ UNCHANGED <<sheet, busy, ask, writes, kept, live, sweeps>>
  BY DEF Loaded, ArriveInv, TransferType
<1>2. Head(view.reads) = view.reads[1] /\ view.reads[1] \in Reads /\ Tail(view.reads) \in Seq(Reads)
  BY <1>1
<1>3. view' \in [rows : [Rows -> Nat], reads : Seq(Reads)]
  BY <1>1, <1>2 DEF Reads
<1>4. CASE Len(view.reads) = 1
  <2>1. Tail(view.reads) = <<>>
    BY <1>1, <1>4
  <2>2. Fresh => Fresh'
    BY <1>1, <1>2, <1>4, <2>1 DEF Fresh
  <2> QED
    BY <1>1, <1>3, <2>2 DEF ArriveInv, TransferType, Announcing, Ahead
<1>5. CASE Len(view.reads) # 1
  <2> DEFINE s == view.reads
  <2>3. s \in Seq(Reads) /\ s # <<>> /\ Len(s) # 1
    BY <1>1, <1>5
  <2> HIDE DEF s
  <2>4. Len(s) \in Nat /\ Len(s) > 1
    <3>1. Len(s) \in Nat
      BY <2>3
    <3>2. Len(s) # 0
      <4>1. s \in Seq(Reads) /\ Len(s) = 0 => s = <<>>
        OBVIOUS
      <4> QED
        BY <2>3, <4>1
    <3>3. Len(s) # 1
      BY <2>3
    <3> QED
      BY <3>1, <3>2, <3>3
  <2>5. /\ Tail(s) \in Seq(Reads) /\ Len(Tail(s)) = Len(s) - 1
        /\ \A n \in 1..(Len(s) - 1) : Tail(s)[n] = s[n + 1]
    BY <2>3
  <2>6. Tail(s) # <<>> /\ Tail(s)[Len(Tail(s))] = s[Len(s)]
    <3>1. Len(s) - 1 \in 1..(Len(s) - 1) /\ (Len(s) - 1) + 1 = Len(s)
      BY <2>4
    <3>2. Tail(s)[Len(s) - 1] = s[Len(s)]
      BY <2>5, <3>1
    <3>3. Tail(s) # <<>>
      <4>1. Tail(s) = <<>> => Len(Tail(s)) = 0
        OBVIOUS
      <4>2. Len(Tail(s)) = Len(s) - 1
        BY <2>5
      <4>3. Len(Tail(s)) # 0
        BY <2>4, <4>2
      <4> QED
        BY <4>1, <4>3
    <3> QED
      BY <2>5, <3>2, <3>3
  <2>1. /\ Tail(view.reads) # <<>>
        /\ Tail(view.reads)[Len(Tail(view.reads))] = view.reads[Len(view.reads)]
    BY <2>6 DEF s
  <2>2. Fresh => Fresh'
    BY <1>1, <2>1 DEF Fresh
  <2> QED
    BY <1>1, <1>3, <2>2 DEF ArriveInv, TransferType, Announcing, Ahead
<1> QED
  BY <1>4, <1>5

\* The dialog hears of its call: only an import it announced was owed a load.
LEMMA RepliedArrives ==
  ASSUME ArriveInv, Replied PROVE ArriveInv'
<1>1. /\ ask # Idle /\ ask.at = "answered" /\ busy' = FALSE /\ ask' = Idle
      /\ UNCHANGED <<writes, kept, live, sweeps>>
  BY DEF Replied
<1>2. CASE view' = view /\ ~Announcing
  BY <1>1, <1>2 DEF ArriveInv, TransferType, Fresh, Ahead
<1>3. CASE Load
  BY <1>1, <1>3, LoadShows DEF ArriveInv, TransferType, Ahead
<1>4. \/ Load
      \/ view' = view /\ ~(ask.op \in {"apply", "add"} /\ ask.res # "error")
  BY DEF Replied, Close
<1> QED
  BY <1>2, <1>3, <1>4 DEF Announcing

LEMMA WriteRowArrives ==
  ASSUME ArriveInv, NEW i \in Rows, NEW v, WriteRow(i, v) PROVE ArriveInv'
<1>1. /\ v \in {0, writes + 1} /\ writes' = writes + 1
      /\ kept' = [kept EXCEPT ![i] = v] /\ live' = [live EXCEPT ![i] = v]
      /\ Load /\ UNCHANGED <<sheet, busy, ask, sweeps>>
  BY DEF WriteRow
<1>2. kept \in [Rows -> Nat] /\ live \in [Rows -> Nat] /\ v \in Nat
  BY <1>1 DEF ArriveInv, TransferType
<1>3. kept' \in [Rows -> Nat] /\ live' \in [Rows -> Nat]
  BY <1>1, <1>2
<1>4. \A x \in Rows : kept'[x] # 0 /\ live'[x] # kept'[x] => kept[x] # 0 /\ live[x] # kept[x]
  BY <1>1, <1>2
<1>5. view' \in [rows : [Rows -> Nat], reads : Seq(Reads)] /\ Fresh'
  BY <1>1, LoadShows DEF ArriveInv, TransferType
<1> QED
  BY <1>1, <1>3, <1>4, <1>5 DEF ArriveInv, TransferType, Ahead

\* A page that is loaded again reads the list.
LEMMA ReloadArrives ==
  ASSUME ArriveInv, Reload PROVE ArriveInv'
<1> DEFINE q == [at |-> "asked", rows |-> NoRows]
<1>1. /\ busy' = FALSE /\ ask' = Idle
      /\ view' = [rows |-> NoRows, reads |-> <<q>>]
      /\ UNCHANGED <<writes, kept, live, sweeps>>
  BY DEF Reload
<1>2. q \in Reads /\ q.at = "asked" /\ NoRows \in [Rows -> Nat]
  BY DEF Reads, NoRows
<1> HIDE DEF q
<1>3. <<q>> \in Seq(Reads) /\ <<q>> # <<>> /\ <<q>>[Len(<<q>>)] = q
  BY <1>2
<1>4. view' \in [rows : [Rows -> Nat], reads : Seq(Reads)] /\ Fresh'
  BY <1>1, <1>2, <1>3 DEF Fresh
<1> QED
  BY <1>1, <1>4 DEF ArriveInv, TransferType, Ahead

LEMMA StepArrives == ArriveInv /\ [TransferNext]_transferVars => ArriveInv'
<1> SUFFICES ASSUME ArriveInv, [TransferNext]_transferVars PROVE ArriveInv'
  OBVIOUS
<1>1. CASE UNCHANGED transferVars
  BY <1>1 DEF ArriveInv, TransferType, Announcing, Fresh, Ahead, transferVars
<1>2. CASE OpenExport \/ Cancel
  BY <1>2, DialogArrives DEF Modes, Passes
<1>3. CASE \E seal \in BOOLEAN, pass \in {"once", "twice"} : SubmitExport(seal, pass)
  BY <1>3, DialogArrives DEF Modes
<1>4. CASE \E form \in {"bundle", "hosts"} : Start(form)
  BY <1>4, DialogArrives DEF Modes, Passes
<1>5. CASE \E mode \in Modes, pass \in Passes : SubmitBundle(mode, pass)
  BY <1>5, DialogArrives
<1>6. CASE \E chosen \in SUBSET Rows : SubmitHosts(chosen)
  BY <1>6, DialogArrives DEF Modes, Passes
<1>7. CASE TransferNext
  BY <1>2, <1>3, <1>4, <1>5, <1>6, <1>7, ServeExportArrives, ServeLookArrives,
     ServeApplyArrives, ServeAddArrives, SweepArrives, ServeListArrives, LoadedArrives,
     RepliedArrives, WriteRowArrives, ReloadArrives DEF TransferNext
<1> QED
  BY <1>1, <1>7

\* However imports, edits, deletions, closed dialogs and reloads cross: at rest
\* the list shows what is stored, every stored tunnel runs as it is stored, and
\* the dialog is not left busy (import-export-dialog.js and ipc/portable.js).
THEOREM ImportsArrive == TransferSpec => []ImportArrives
<1>1. ArriveInv => ImportArrives
  <2>1. ASSUME ArriveInv, ask = Idle, view.reads = <<>> PROVE view.rows = kept
    BY <2>1 DEF ArriveInv, Announcing, Fresh
  <2>2. ASSUME ArriveInv, sweeps = <<>> PROVE \A i \in Rows : ~Ahead(i)
    BY <2>2 DEF Ahead
  <2>3. ASSUME ArriveInv, sweeps = <<>> PROVE \A i \in Stored(kept) : live[i] = kept[i]
    BY <2>2, <2>3 DEF ArriveInv, Stored
  <2> QED
    BY <2>1, <2>3 DEF ArriveInv, ImportArrives
<1> QED
  BY InitArrive, StepArrives, <1>1, PTL DEF TransferSpec

-----------------------------------------------------------------------------
\* Lists, as the pickers keep them.

\* Induction over the natural numbers, and recursion along a list.

LEMMA LeastNat ==
  ASSUME NEW U, U \subseteq Nat, U # {}
  PROVE  \E m \in U : \A n \in U : m <= n
<1> DEFINE R == OpToRel(<, Nat)
<1>1. IsWellFoundedOn(R, Nat)
  BY NatLessThanWellFounded
<1> HIDE DEF R
<1>2. PICK m \in U : \A y \in U : ~ (<<y, m>> \in R)
  BY <1>1, WFMin
<1>3. \A y \in U : ~ (y < m)
  BY <1>2 DEF R, OpToRel
<1>4. QED
  BY <1>3

LEMMA NatBySteps ==
  ASSUME NEW S, 0 \in S, \A n \in Nat : n \in S => n + 1 \in S
  PROVE  Nat \subseteq S
<1> SUFFICES ASSUME Nat \ S # {} PROVE FALSE
  OBVIOUS
<1>1. PICK m \in Nat \ S : \A n \in Nat \ S : m <= n
  <2> DEFINE U == Nat \ S
  <2>1. U \subseteq Nat /\ U # {}
    OBVIOUS
  <2> HIDE DEF U
  <2>2. QED
    BY <2>1, LeastNat DEF U
<1>2. m - 1 \in Nat
  BY <1>1
<1>3. m - 1 \in S
  BY <1>1, <1>2
<1>4. (m - 1) + 1 \in S
  BY <1>2, <1>3
<1>5. QED
  BY <1>1, <1>4

Unfolds(g, L, V, init, step) ==
  /\ g \in [0 .. L -> V] /\ g[0] = init
  /\ \A n \in 1 .. L : g[n] = step[<<n, g[n - 1]>>]

\* A recursion over 0 .. L whose step stays in V has a solution, in V.
LEMMA RecursionExists ==
  ASSUME NEW L \in Nat, NEW V, NEW init \in V, NEW step \in [(1 .. L) \X V -> V]
  PROVE  \E g : Unfolds(g, L, V, init, step)
<1> DEFINE Good(n) == \E g \in [0 .. n -> V] :
              g[0] = init /\ \A i \in 1 .. n : g[i] = step[<<i, g[i - 1]>>]
           S == {n \in Nat : n <= L => Good(n)}
<1>1. 0 \in S
  <2> DEFINE g == [i \in 0 .. 0 |-> init]
  <2>1. g \in [0 .. 0 -> V] /\ g[0] = init /\ \A i \in 1 .. 0 : g[i] = step[<<i, g[i - 1]>>]
    OBVIOUS
  <2>2. Good(0)
    BY <2>1
  <2>3. QED
    BY <2>2
<1>2. \A n \in Nat : n \in S => n + 1 \in S
  <2> SUFFICES ASSUME NEW n \in Nat, n + 1 <= L, Good(n) PROVE Good(n + 1)
    OBVIOUS
  <2>1. PICK g \in [0 .. n -> V] : g[0] = init /\ \A i \in 1 .. n : g[i] = step[<<i, g[i - 1]>>]
    OBVIOUS
  <2> DEFINE h == [i \in 0 .. n + 1 |-> IF i <= n THEN g[i] ELSE step[<<n + 1, g[n]>>]]
  <2>2. n + 1 \in 1 .. L /\ g[n] \in V
    OBVIOUS
  <2>3. h \in [0 .. n + 1 -> V]
    <3>1. step[<<n + 1, g[n]>>] \in V
      BY <2>2
    <3>2. QED
      BY <3>1
  <2>4. h[0] = init
    BY <2>1
  <2>5. ASSUME NEW i \in 1 .. n + 1 PROVE h[i] = step[<<i, h[i - 1]>>]
    <3>1. i - 1 \in 0 .. n /\ h[i - 1] = g[i - 1]
      OBVIOUS
    <3>2. CASE i <= n
      BY <2>1, <3>1, <3>2
    <3>3. CASE i = n + 1
      <4>1. h[n + 1] = step[<<n + 1, g[n]>>]
        OBVIOUS
      <4>2. i - 1 = n
        BY <3>3
      <4>3. h[i - 1] = g[n]
        BY <3>1, <4>2
      <4> HIDE DEF h
      <4>4. QED
        BY <3>3, <4>1, <4>3
    <3>4. QED
      BY <3>2, <3>3
  <2>6. QED
    BY <2>3, <2>4, <2>5
<1>3. L \in S
  <2> HIDE DEF S
  <2>1. Nat \subseteq S
    BY <1>1, <1>2, NatBySteps
  <2>2. QED
    BY <2>1
<1>4. QED
  BY <1>3 DEF Unfolds

-----------------------------------------------------------------------------
\* What is in a list, and that nothing is in it twice.

Unique(seq) == \A i, j \in DOMAIN seq : seq[i] = seq[j] => i = j

LEMMA AppendIs ==
  ASSUME NEW T, NEW b \in Seq(T), NEW x
  PROVE  /\ ToSet(Append(b, x)) = ToSet(b) \cup {x}
         /\ Unique(b) /\ x \notin ToSet(b) => Unique(Append(b, x))
<1>1. DOMAIN Append(b, x) = (DOMAIN b) \cup {Len(b) + 1}
  OBVIOUS
<1>2. \A i \in DOMAIN b : Append(b, x)[i] = b[i]
  OBVIOUS
<1>3. Append(b, x)[Len(b) + 1] = x
  OBVIOUS
<1>4. ToSet(Append(b, x)) = ToSet(b) \cup {x}
  BY <1>1, <1>2, <1>3 DEF ToSet
<1>5. ASSUME Unique(b), x \notin ToSet(b) PROVE Unique(Append(b, x))
  <2> DEFINE c == Append(b, x)
  <2>1. \A i \in DOMAIN b : b[i] # x
    BY <1>5 DEF ToSet
  <2> HIDE DEF c
  <2>2. \A i, j \in DOMAIN c : c[i] = c[j] => i = j
    BY <1>1, <1>2, <1>3, <1>5, <2>1 DEF c, Unique
  <2>3. QED
    BY <2>2 DEF c, Unique
<1>6. QED
  BY <1>4, <1>5

LEMMA ConcatIs ==
  ASSUME NEW T, NEW a \in Seq(T), NEW b \in Seq(T)
  PROVE  /\ a \o b \in Seq(T) /\ ToSet(a \o b) = ToSet(a) \cup ToSet(b)
         /\ Unique(a) /\ Unique(b) /\ ToSet(a) \cap ToSet(b) = {} => Unique(a \o b)
<1> DEFINE c == a \o b
<1>1. c \in Seq(T) /\ Len(c) = Len(a) + Len(b) /\ DOMAIN c = 1 .. Len(a) + Len(b)
      /\ DOMAIN a = 1 .. Len(a) /\ DOMAIN b = 1 .. Len(b) /\ Len(a) \in Nat /\ Len(b) \in Nat
  OBVIOUS
<1>2. \A i \in DOMAIN a : i \in DOMAIN c /\ c[i] = a[i]
  OBVIOUS
<1>3. \A i \in DOMAIN b : Len(a) + i \in DOMAIN c /\ c[Len(a) + i] = b[i]
  OBVIOUS
<1>4. \A i \in DOMAIN c : i \in DOMAIN a \/ (i - Len(a) \in DOMAIN b /\ c[i] = b[i - Len(a)])
  OBVIOUS
<1> HIDE DEF c
<1>5. ToSet(c) = ToSet(a) \cup ToSet(b)
  <2>1. ASSUME NEW x \in ToSet(c) PROVE x \in ToSet(a) \cup ToSet(b)
    BY <1>2, <1>4 DEF ToSet
  <2>2. ASSUME NEW x \in ToSet(a) \cup ToSet(b) PROVE x \in ToSet(c)
    BY <1>2, <1>3 DEF ToSet
  <2>3. QED
    BY <2>1, <2>2
<1>6. ASSUME Unique(a), Unique(b), ToSet(a) \cap ToSet(b) = {},
             NEW i \in DOMAIN c, NEW j \in DOMAIN c, c[i] = c[j]
      PROVE  i = j
  <2>1. \A x \in DOMAIN a, y \in DOMAIN b : a[x] # b[y]
    BY <1>6 DEF ToSet
  <2>2. CASE i \in DOMAIN a /\ j \in DOMAIN a
    BY <1>2, <1>6, <2>2 DEF Unique
  <2>3. CASE i \in DOMAIN a /\ j \notin DOMAIN a
    BY <1>2, <1>4, <1>6, <2>1, <2>3
  <2>4. CASE i \notin DOMAIN a /\ j \in DOMAIN a
    BY <1>2, <1>4, <1>6, <2>1, <2>4
  <2>5. CASE i \notin DOMAIN a /\ j \notin DOMAIN a
    <3>1. i - Len(a) = j - Len(a)
      BY <1>4, <1>6, <2>5 DEF Unique
    <3>2. QED
      BY <1>1, <3>1
  <2>6. QED
    BY <2>2, <2>3, <2>4, <2>5
<1>7. QED
  BY <1>1, <1>5, <1>6 DEF c, Unique

\* Placing x at any of its places among the others doubles nothing.
LEMMA InsertIs ==
  ASSUME NEW T, NEW r \in Seq(T), NEW at \in 1 .. Len(r) + 1, NEW x \in T
  PROVE  /\ InsertAt(r, at, x) \in Seq(T)
         /\ ToSet(InsertAt(r, at, x)) = ToSet(r) \cup {x}
         /\ Unique(r) /\ x \notin ToSet(r) => Unique(InsertAt(r, at, x))
<1> DEFINE a == SubSeq(r, 1, at - 1)
           b == SubSeq(r, at, Len(r))
           m == <<x>>
<1>1. /\ a \in Seq(T) /\ b \in Seq(T) /\ m \in Seq(T)
      /\ DOMAIN a = 1 .. at - 1 /\ DOMAIN b = 1 .. Len(r) - at + 1 /\ DOMAIN m = {1}
      /\ DOMAIN r = 1 .. Len(r) /\ Len(r) \in Nat
  OBVIOUS
<1>2. /\ \A i \in DOMAIN a : i \in DOMAIN r /\ a[i] = r[i]
      /\ \A i \in DOMAIN b : at + i - 1 \in DOMAIN r /\ b[i] = r[at + i - 1]
      /\ m[1] = x
  OBVIOUS
<1> HIDE DEF a, b, m
<1>3. ToSet(m) = {x} /\ Unique(m)
  BY <1>1, <1>2 DEF ToSet, Unique
<1>4. ToSet(r) = ToSet(a) \cup ToSet(b)
  <2>1. ASSUME NEW i \in DOMAIN r PROVE r[i] \in ToSet(a) \cup ToSet(b)
    <3>1. CASE i < at
      <4>1. i \in DOMAIN a
        BY <1>1, <3>1
      <4>2. QED
        BY <1>2, <4>1 DEF ToSet
    <3>2. CASE i >= at
      <4>1. i - at + 1 \in DOMAIN b /\ at + (i - at + 1) - 1 = i
        BY <1>1, <3>2
      <4>2. QED
        BY <1>2, <4>1 DEF ToSet
    <3>3. QED
      BY <1>1, <3>1, <3>2
  <2>2. QED
    BY <1>2, <2>1 DEF ToSet
<1>5. ASSUME Unique(r)
      PROVE  Unique(a) /\ Unique(b) /\ ToSet(a) \cap ToSet(b) = {}
  <2>1. Unique(a)
    BY <1>2, <1>5 DEF Unique
  <2>2. Unique(b)
    <3>1. ASSUME NEW i \in DOMAIN b, NEW j \in DOMAIN b, b[i] = b[j] PROVE i = j
      <4>1. at + i - 1 = at + j - 1
        BY <1>2, <1>5, <3>1 DEF Unique
      <4>2. QED
        BY <1>1, <4>1
    <3>2. QED
      BY <3>1 DEF Unique
  <2>3. ASSUME NEW i \in DOMAIN a, NEW j \in DOMAIN b, a[i] = b[j] PROVE FALSE
    <3>1. i = at + j - 1
      BY <1>2, <1>5, <2>3 DEF Unique
    <3>2. QED
      BY <1>1, <3>1
  <2>4. QED
    BY <2>1, <2>2, <2>3 DEF ToSet
<1>6. /\ a \o m \in Seq(T) /\ ToSet(a \o m) = ToSet(a) \cup {x}
      /\ Unique(a) /\ x \notin ToSet(a) => Unique(a \o m)
  BY <1>1, <1>3, ConcatIs
<1> DEFINE c == a \o m
<1> HIDE DEF c
<1>7. /\ c \o b \in Seq(T) /\ ToSet(c \o b) = ToSet(c) \cup ToSet(b)
      /\ Unique(c) /\ Unique(b) /\ ToSet(c) \cap ToSet(b) = {} => Unique(c \o b)
  BY <1>1, <1>6, ConcatIs DEF c
<1>8. InsertAt(r, at, x) = c \o b
  BY DEF InsertAt, a, b, c, m
<1>9. c \in Seq(T) /\ ToSet(c) = ToSet(a) \cup {x}
      /\ (Unique(a) /\ x \notin ToSet(a) => Unique(c))
  BY <1>6 DEF c
<1>10. QED
  BY <1>4, <1>5, <1>7, <1>8, <1>9

-----------------------------------------------------------------------------
\* Array.prototype.filter keeps the wanted elements and no others.

LEMMA OnlyIs ==
  ASSUME NEW T, NEW seq \in Seq(T), NEW S
  PROVE  /\ Only(seq, S) \in Seq(T \cap S) /\ ToSet(Only(seq, S)) = ToSet(seq) \cap S
         /\ Unique(seq) => Unique(Only(seq, S))
<1> DEFINE L == Len(seq)
           V == Seq(T \cap S)
           step == [p \in (1 .. L) \X V |->
                      IF seq[p[1]] \in S THEN Append(p[2], seq[p[1]]) ELSE p[2]]
<1>1. L \in Nat /\ <<>> \in V
  OBVIOUS
<1>2. step \in [(1 .. L) \X V -> V]
  <2>1. ASSUME NEW p \in (1 .. L) \X V
        PROVE  (IF seq[p[1]] \in S THEN Append(p[2], seq[p[1]]) ELSE p[2]) \in V
    OBVIOUS
  <2>2. QED
    BY <2>1
<1>3. PICK g : Unfolds(g, L, V, <<>>, step)
  <2> HIDE DEF L, V, step
  <2>1. QED
    BY <1>1, <1>2, RecursionExists
<1>0. g \in [0 .. L -> V] /\ g[0] = <<>> /\ \A n \in 1 .. L : g[n] = step[<<n, g[n - 1]>>]
  BY <1>3 DEF Unfolds
<1>4. ASSUME NEW n \in 1 .. L
      PROVE  g[n] = IF seq[n] \in S THEN Append(g[n - 1], seq[n]) ELSE g[n - 1]
  <2>1. n - 1 \in 0 .. L
    OBVIOUS
  <2>2. <<n, g[n - 1]>> \in (1 .. L) \X V
    BY <1>0, <2>1
  <2>3. QED
    BY <1>0, <2>2
<1> DEFINE Eq(f) == f = [n \in 0 .. Len(seq) |->
                           IF n = 0 THEN <<>>
                           ELSE IF seq[n] \in S THEN Append(f[n - 1], seq[n]) ELSE f[n - 1]]
           C == CHOOSE f : Eq(f)
<1>5. Eq(g)
  <2> DEFINE B(n) == IF n = 0 THEN <<>>
                     ELSE IF seq[n] \in S THEN Append(g[n - 1], seq[n]) ELSE g[n - 1]
  <2>1. ASSUME NEW n \in 0 .. L PROVE g[n] = B(n)
    <3>1. CASE n = 0
      BY <1>0, <3>1
    <3>2. CASE n # 0
      <4>1. n \in 1 .. L
        BY <3>2
      <4>2. QED
        BY <1>4, <3>2, <4>1
    <3>3. QED
      BY <3>1, <3>2
  <2> HIDE DEF B
  <2>2. g = [n \in 0 .. L |-> B(n)]
    BY <1>0, <2>1
  <2>3. QED
    BY <2>2 DEF B
<1>6. Eq(C)
  <2> HIDE DEF Eq
  <2>1. QED
    BY <1>5
<1>7. Only(seq, S) = C[Len(seq)]
  BY DEF Only
<1> HIDE DEF C
<1> DEFINE UpTo(n) == /\ C[n] \in V /\ ToSet(C[n]) = {seq[i] : i \in 1 .. n} \cap S
                      /\ Unique(seq) => Unique(C[n])
           U == {n \in Nat : n <= L => UpTo(n)}
<1>8. 0 \in U
  <2>1. C[0] = <<>>
    BY <1>6
  <2>2. ToSet(<<>>) = {} /\ Unique(<<>>)
    BY DEF ToSet, Unique
  <2>3. {seq[i] : i \in 1 .. 0} = {}
    OBVIOUS
  <2>4. /\ C[0] \in V /\ ToSet(C[0]) = {seq[i] : i \in 1 .. 0} \cap S
        /\ Unique(C[0])
    BY <1>1, <2>1, <2>2, <2>3
  <2>5. QED
    BY <2>4
<1>9. \A n \in Nat : n \in U => n + 1 \in U
  <2> SUFFICES ASSUME NEW n \in Nat, n + 1 <= L, UpTo(n) PROVE UpTo(n + 1)
    <3> HIDE DEF UpTo
    <3>1. QED
      BY <1>1
  <2>1. C[n + 1] = IF seq[n + 1] \in S THEN Append(C[n], seq[n + 1]) ELSE C[n]
    <3>1. n + 1 \in 0 .. Len(seq) /\ n + 1 # 0 /\ (n + 1) - 1 = n
      OBVIOUS
    <3>2. QED
      BY <1>6, <3>1
  <2>2. seq[n + 1] \in T
    OBVIOUS
  <2>3. {seq[i] : i \in 1 .. n + 1} = {seq[i] : i \in 1 .. n} \cup {seq[n + 1]}
    <3>1. 1 .. n + 1 = (1 .. n) \cup {n + 1}
      OBVIOUS
    <3>2. QED
      BY <3>1
  <2>4. CASE seq[n + 1] \in S
    <3>1. C[n + 1] = Append(C[n], seq[n + 1])
      BY <2>1, <2>4
    <3>2. C[n + 1] \in V
      BY <2>2, <2>4, <3>1
    <3>3. /\ ToSet(C[n + 1]) = ToSet(C[n]) \cup {seq[n + 1]}
          /\ Unique(C[n]) /\ seq[n + 1] \notin ToSet(C[n]) => Unique(C[n + 1])
      <4> DEFINE b == C[n]
                 x == seq[n + 1]
      <4>1. b \in Seq(T \cap S)
        OBVIOUS
      <4> HIDE DEF b, x
      <4>2. /\ ToSet(Append(b, x)) = ToSet(b) \cup {x}
            /\ Unique(b) /\ x \notin ToSet(b) => Unique(Append(b, x))
        BY <4>1, AppendIs
      <4>3. QED
        BY <3>1, <4>2 DEF b, x
    <3>4. Unique(seq) => seq[n + 1] \notin ToSet(C[n])
      <4>1. \A i \in 1 .. n : i \in DOMAIN seq /\ n + 1 \in DOMAIN seq /\ i # n + 1
        OBVIOUS
      <4>2. QED
        BY <4>1 DEF Unique
    <3>5. QED
      BY <2>3, <2>4, <3>2, <3>3, <3>4
  <2>5. CASE seq[n + 1] \notin S
    <3>1. C[n + 1] = C[n]
      BY <2>1, <2>5
    <3>2. {seq[i] : i \in 1 .. n + 1} \cap S = {seq[i] : i \in 1 .. n} \cap S
      BY <2>3, <2>5
    <3>3. QED
      BY <3>1, <3>2
  <2>6. QED
    BY <2>4, <2>5
<1>10. L \in U
  <2> HIDE DEF U
  <2>1. Nat \subseteq U
    BY <1>8, <1>9, NatBySteps
  <2>2. QED
    BY <1>1, <2>1
<1>11. ToSet(seq) = {seq[i] : i \in 1 .. L}
  BY DEF ToSet
<1>12. QED
  BY <1>1, <1>7, <1>10, <1>11

-----------------------------------------------------------------------------
\* The pickers.

\* The invariant.  Main serves the calls in order and answers in order, so a list
\* that an answer carries is the stored one of an earlier time: NoneReturns says
\* that ids only fade from one to the next, ListsComing that a list that is
\* behind will be asked for.  The other parts hold as long as no editor is
\* reused while it saves: SavesAreOwn ties a save to the editor that waits for
\* it, EditorsKnow what an editor believes to what is stored, and ChoiceComes,
\* ChainFollows and NewHostsJoin what the user wants to what is shown.

\* What the window and the stores hold.
IsCall(c) ==
  /\ c.op \in {"creds", "cred", "drop cred", "save cred", "hosts", "host", "drop host", "save host"}
  /\ c.op = "creds" =>
       /\ c.f \in Forms /\ c.then \in {"keep", "open", "choose"}
       /\ c.then = "open" => c.f = "host"
       /\ c.then = "choose" => c.id \in Creds
  /\ c.op = "cred" => c.f \in Forms /\ c.id \in Creds
  /\ c.op = "drop cred" => c.id \in Creds
  /\ c.op = "save cred" =>
       /\ c.f \in Forms /\ c.id \in Creds \cup {Nil} /\ c.auth \in Kinds
       /\ c.typed \in {"none", c.auth} /\ (c.typed # "none" => HoldsText(c.auth))
       /\ c.keep \in BOOLEAN
  /\ c.op = "hosts" => /\ c.then \in {"keep", "joins", "focus"}
                       /\ c.then # "keep" => c.id \in Hosts
  /\ c.op \in {"host", "drop host"} => c.id \in Hosts
  /\ c.op = "save host" => c.id \in Hosts \cup {Nil} /\ c.cred \in Creds

Secrets == [auth : Kinds, secret : Kinds \cup {"none"}]

IsAnswer(a) ==
  /\ IsCall(a.call)
  /\ a.call.op = "creds" => a.ret \subseteq Creds
  /\ a.call.op = "cred" => a.ret \in Secrets \cup {Nil}
  /\ a.call.op \in {"drop cred", "save cred"} => a.ret \in Creds \cup {Nil}
  /\ a.call.op = "hosts" => a.ret \subseteq Hosts
  /\ a.call.op = "host" => a.ret \in Creds \cup {Nil}
  /\ a.call.op \in {"drop host", "save host"} => a.ret \in Hosts \cup {Nil}

Editors ==
  [open : BOOLEAN, id : Creds \cup {Nil}, loaded : Kinds \cup {Nil}, had : BOOLEAN,
   auth : Kinds, typed : Kinds \cup {"none"}, saving : BOOLEAN]

StoreTypes ==
  /\ credStore \in [Creds -> Secrets \cup {Nil}] /\ hostStore \in [Hosts -> Creds \cup {Nil}]
  /\ \A c \in Creds : credStore[c] # Nil =>
       /\ credStore[c].secret \in {"none", credStore[c].auth}
       /\ credStore[c].auth = "agent" => credStore[c].secret = "none"

WindowTypes ==
  /\ picker \in [Forms -> [value : Creds \cup {Nil}, options : SUBSET Creds]]
  /\ \A f \in Forms : picker[f].value \in picker[f].options \cup {Nil}
  /\ chain \in [ids : Seq(Hosts), known : SUBSET Hosts, focus : Hosts \cup {Nil}, creating : BOOLEAN]
  /\ credDlg \in [Forms -> Editors]
  /\ \A f \in Forms : credDlg[f].typed \in {"none", credDlg[f].auth}
  /\ hostDlg \in [open : BOOLEAN, id : Hosts \cup {Nil}, cred : Creds \cup {Nil}, saving : BOOLEAN]
  /\ wants \in [cred : [Forms -> Creds \cup {Nil}], hosts : SUBSET Hosts]
  /\ crossed \in BOOLEAN

WireTypes ==
  /\ calls \in Seq(ToSet(calls)) /\ answers \in Seq(ToSet(answers))
  /\ \A c \in ToSet(calls) : IsCall(c)
  /\ \A a \in ToSet(answers) : IsAnswer(a)

PickersTypes == StoreTypes /\ WindowTypes /\ WireTypes

\* Ids that were stored at some time.
KnownCred(x) == x = Nil \/ x \in spent \/ (x \in Creds /\ credStore[x] # Nil)
KnownHost(x) == x = Nil \/ x \in spent \/ (x \in Hosts /\ hostStore[x] # Nil)

CallKnown(c) ==
  /\ c.op \in {"cred", "drop cred", "save cred"} => KnownCred(c.id)
  /\ c.op = "creds" /\ c.then = "choose" => KnownCred(c.id)
  /\ c.op \in {"host", "drop host", "save host"} => KnownHost(c.id)
  /\ c.op = "hosts" /\ c.then # "keep" => KnownHost(c.id)
  /\ c.op = "save host" => KnownCred(c.cred)

AnswerKnown(a) ==
  /\ CallKnown(a.call)
  /\ a.call.op = "creds" => \A x \in a.ret : KnownCred(x)
  /\ a.call.op = "hosts" => \A x \in a.ret : KnownHost(x)
  /\ a.call.op \in {"save cred", "drop cred", "host"} => KnownCred(a.ret)
  /\ a.call.op \in {"save host", "drop host"} => KnownHost(a.ret)

WindowKnown ==
  /\ \A f \in Forms : /\ KnownCred(picker[f].value) /\ KnownCred(wants.cred[f]) /\ KnownCred(credDlg[f].id)
                      /\ \A x \in picker[f].options : KnownCred(x)
  /\ KnownCred(hostDlg.cred) /\ KnownHost(hostDlg.id)
  /\ \A x \in chain.known \cup wants.hosts \cup {chain.focus} : KnownHost(x)
  /\ \A h \in Hosts : KnownCred(hostStore[h])

WireKnown ==
  /\ \A c \in ToSet(calls) : CallKnown(c)
  /\ \A a \in ToSet(answers) : AnswerKnown(a)

IdsKnown == WindowKnown /\ WireKnown

\* The lists on their way, and behind them the list that is stored.
IsOffer(q, op, i) == i = Len(q) + 1 \/ (i \in DOMAIN q /\ q[i].call.op = op)
Offer(q, now, i) == IF i = Len(q) + 1 THEN now ELSE q[i].ret

\* An id of S that is in one of the lists behind place m is in all before.
Fades(q, op, now, S, m) ==
  \A j, k \in m + 1 .. Len(q) + 1 :
     j < k /\ IsOffer(q, op, j) /\ IsOffer(q, op, k) =>
       S \cap Offer(q, now, k) \subseteq Offer(q, now, j)

InOrder(q, op, now) ==
  \A i \in DOMAIN q : q[i].call.op = op => Fades(q, op, now, q[i].ret, i)

NoneReturns ==
  /\ InOrder(answers, "creds", Present(credStore)) /\ InOrder(answers, "hosts", Present(hostStore))
  /\ \A f \in Forms : Fades(answers, "creds", Present(credStore), picker[f].options, 0)
  /\ Fades(answers, "hosts", Present(hostStore), chain.known, 0)
  /\ \A i \in DOMAIN answers : answers[i].call.op = "host" =>
       Fades(answers, "creds", Present(credStore), {answers[i].ret}, i)

\* A list that is behind is asked for again.
Changes(a, did) == a.call.op \in did /\ a.ret # Nil
CredsOwed(f) == \/ \E c \in ToSet(calls) : c.op = "creds" /\ c.f = f
                \/ \E a \in ToSet(answers) : Changes(a, {"save cred", "drop cred"})
HostsOwed == \/ \E c \in ToSet(calls) : c.op = "hosts"
             \/ \E a \in ToSet(answers) : Changes(a, {"save host", "drop host"})
ListsCreds(i, f) == answers[i].call.op = "creds" /\ answers[i].call.f = f
ListsHosts(i) == answers[i].call.op = "hosts"

ListsComing ==
  /\ \A f \in Forms : CredsOwed(f) \/
       /\ \A i \in DOMAIN answers :
            ListsCreds(i, f) /\ (\A j \in DOMAIN answers : j > i => ~ListsCreds(j, f))
              => answers[i].ret = Present(credStore)
       /\ (\A i \in DOMAIN answers : ~ListsCreds(i, f)) /\ (f = "outer" \/ hostDlg.open)
            => picker[f].options = Present(credStore)
  /\ HostsOwed \/
       /\ \A i \in DOMAIN answers :
            ListsHosts(i) /\ (\A j \in DOMAIN answers : j > i => ~ListsHosts(j))
              => answers[i].ret = Present(hostStore)
       /\ (\A i \in DOMAIN answers : ~ListsHosts(i)) => chain.known = Present(hostStore)

\* Saves under way: one at a time for an editor, which waits for it.
Editing == Forms \cup {"hop"}
SavesFor(c, k) == IF k = "hop" THEN c.op = "save host" ELSE c.op = "save cred" /\ c.f = k
Waits(k, id) == IF k = "hop" THEN hostDlg.saving /\ hostDlg.id = id
                ELSE credDlg[k].saving /\ credDlg[k].open /\ credDlg[k].id = id

UnderWay == ToSet(calls) \cup {a.call : a \in ToSet(answers)}

Alone(q, r, k) ==
  /\ \A i \in DOMAIN q : SavesFor(q[i], k) =>
       /\ \A j \in DOMAIN q : SavesFor(q[j], k) => j = i
       /\ \A j \in DOMAIN r : ~SavesFor(r[j].call, k)
  /\ \A i, j \in DOMAIN r : SavesFor(r[i].call, k) /\ SavesFor(r[j].call, k) => i = j

SavesAreOwn ==
  /\ \A k \in Editing : Alone(calls, answers, k) /\ \A c \in UnderWay : SavesFor(c, k) => Waits(k, c.id)
  /\ \A f, g \in Forms : f # g /\ credDlg[f].open /\ credDlg[g].open /\ credDlg[f].id = credDlg[g].id
       => credDlg[f].id = Nil
  /\ chain.creating => hostDlg.id = Nil

\* An open editor knows the record it is for, until its own save is heard of.
Overtaken(i, id) == \E j \in DOMAIN answers : /\ j > i /\ answers[j].call.op = "save cred"
                                              /\ answers[j].call.id = id /\ answers[j].ret # Nil
EditorsKnow ==
  /\ \A f \in Forms : LET d == credDlg[f] IN d.open /\ d.id # Nil =>
       \/ credStore[d.id] = Nil
       \/ d.loaded = credStore[d.id].auth /\ (d.had <=> credStore[d.id].secret # "none")
       \/ Overtaken(0, d.id)
  /\ \A i \in DOMAIN answers : LET a == answers[i] IN a.call.op = "cred" /\ a.ret # Nil =>
       \/ credStore[a.call.id] \in {Nil, a.ret}
       \/ Overtaken(i, a.call.id)
  /\ \A c \in ToSet(calls) :
       /\ c.op = "save cred" /\ c.id # Nil /\ c.typed = "none" /\ credStore[c.id] # Nil
       /\ credStore[c.id].auth = c.auth /\ credStore[c.id].secret # "none"
       => c.keep

\* The choice of each picker.
Chooses(c, f) == c.op = "creds" /\ c.f = f /\ c.then = "choose"
ToChoose(f) == \/ \E c \in ToSet(calls) : Chooses(c, f)
               \/ \E a \in ToSet(answers) : Chooses(a.call, f)
ShowsWant(f) ==
  /\ Fades(answers, "creds", Present(credStore), {wants.cred[f]}, 0)
  /\ \A i \in 1 .. Len(answers) + 1 : IsOffer(answers, "creds", i) /\
       wants.cred[f] \in Offer(answers, Present(credStore), i) => wants.cred[f] \in picker[f].options
  /\ picker[f].value = IF wants.cred[f] \in picker[f].options THEN wants.cred[f] ELSE Nil

ChoiceComes ==
  /\ ToChoose("outer") \/ ShowsWant("outer")
  /\ ToChoose("host") \/
       /\ hostDlg.cred = wants.cred["host"] /\ (hostDlg.open => ShowsWant("host"))
       /\ \A i \in DOMAIN answers : answers[i].call.op = "creds" /\ answers[i].call.then = "open" =>
            Fades(answers, "creds", Present(credStore), {wants.cred["host"]}, i - 1)

\* The chain of jump hosts.
ChainFollows ==
  /\ Fades(answers, "hosts", Present(hostStore), wants.hosts, 0)
  /\ \A i \in 1 .. Len(answers) + 1 : IsOffer(answers, "hosts", i) =>
       wants.hosts \cap Offer(answers, Present(hostStore), i) \subseteq chain.known
  /\ ToSet(chain.ids) = wants.hosts \cap chain.known /\ IsInjective(chain.ids)
  /\ chain.focus \in chain.known \cup {Nil}

Drops(c, h) == c.op = "drop host" /\ c.id = h
Joining(c) == c.op = "hosts" /\ c.then = "joins"
NewHostsJoin ==
  /\ \A i \in DOMAIN answers : Joining(answers[i].call) => answers[i].call.id \in answers[i].ret
  /\ \A i \in DOMAIN calls : Joining(calls[i]) =>
       /\ calls[i].id \in Present(hostStore)
       /\ \A j \in DOMAIN calls : j < i => ~Drops(calls[j], calls[i].id)
  /\ \A i \in DOMAIN answers :
       LET a == answers[i] IN a.call.op = "save host" /\ a.call.id = Nil /\ a.ret # Nil =>
         /\ a.ret \in Present(hostStore) \ chain.known
         /\ \A c \in ToSet(calls) : ~Drops(c, a.ret)
         /\ \A j \in DOMAIN answers : j < i /\ answers[j].call.op = "hosts" => a.ret \notin answers[j].ret

Uncrossed == SavesAreOwn /\ EditorsKnow /\ ChoiceComes /\ ChainFollows /\ NewHostsJoin
PickersInv == PickersTypes /\ IdsKnown /\ NoneReturns /\ ListsComing /\ (crossed \/ Uncrossed)

LEMMA QueueSelf ==
  ASSUME NEW T, NEW q \in Seq(T)
  PROVE  q \in Seq(ToSet(q)) /\ ToSet(q) \subseteq T
<1>1. q \in [1 .. Len(q) -> ToSet(q)] /\ Len(q) \in Nat
  BY DEF ToSet
<1>2. QED
  BY <1>1 DEF ToSet

LEMMA Queued ==
  ASSUME NEW q, q \in Seq(ToSet(q)), NEW x
  PROVE  LET r == Append(q, x)
         IN  /\ r \in Seq(ToSet(r)) /\ ToSet(r) = ToSet(q) \cup {x}
             /\ Len(q) \in Nat /\ Len(r) = Len(q) + 1 /\ r[Len(q) + 1] = x
             /\ \A i \in 1 .. Len(q) : r[i] = q[i]
<1> DEFINE r == Append(q, x)
           T == ToSet(q) \cup {x}
<1>1. q \in Seq(T) /\ x \in T
  <2> DEFINE U == ToSet(q)
  <2>1. q \in Seq(U)
    OBVIOUS
  <2> HIDE DEF U
  <2>2. q \in Seq(U \cup {x})
    BY <2>1
  <2>3. QED
    BY <2>2 DEF U
<1>2. r \in Seq(T) /\ Len(q) \in Nat /\ Len(r) = Len(q) + 1 /\ r[Len(q) + 1] = x
      /\ \A i \in 1 .. Len(q) : r[i] = q[i]
  <2> HIDE DEF T
  <2>1. QED
    BY <1>1
<1>3. r \in Seq(ToSet(r))
  <2> HIDE DEF r, T
  <2>1. QED
    BY <1>2, QueueSelf
<1>4. ToSet(r) = T
  <2>1. DOMAIN r = 1 .. Len(q) + 1 /\ DOMAIN q = 1 .. Len(q)
    BY <1>1, <1>2
  <2> HIDE DEF r
  <2>2. QED
    BY <1>2, <2>1 DEF ToSet
<1>5. QED
  BY <1>2, <1>3, <1>4

LEMMA Unqueued ==
  ASSUME NEW q, q \in Seq(ToSet(q)), q # <<>>
  PROVE  LET r == Tail(q)
         IN  /\ r \in Seq(ToSet(r)) /\ ToSet(r) \subseteq ToSet(q)
             /\ Len(q) \in Nat /\ Len(q) > 0 /\ Len(r) = Len(q) - 1
             /\ \A i \in 1 .. Len(r) : r[i] = q[i + 1]
             /\ Head(q) = q[1] /\ Head(q) \in ToSet(q) /\ ToSet(q) \subseteq ToSet(r) \cup {Head(q)}
<1> DEFINE r == Tail(q)
           T == ToSet(q)
<1>1. q \in Seq(T) /\ q # <<>>
  OBVIOUS
<1>2. /\ r \in Seq(T) /\ Len(q) \in Nat /\ Len(q) > 0 /\ Len(r) = Len(q) - 1
      /\ \A i \in 1 .. Len(r) : r[i] = q[i + 1]
      /\ Head(q) = q[1] /\ Head(q) \in T /\ DOMAIN q = 1 .. Len(q) /\ DOMAIN r = 1 .. Len(r)
  <2> HIDE DEF T
  <2>1. QED
    BY <1>1
<1> HIDE DEF r
<1>3. r \in Seq(ToSet(r)) /\ ToSet(r) \subseteq T
  <2> HIDE DEF T
  <2>1. QED
    BY <1>2, QueueSelf
<1>4. ASSUME NEW i \in DOMAIN q PROVE q[i] \in ToSet(r) \cup {q[1]}
  <2>1. CASE i = 1
    BY <2>1
  <2>2. CASE i # 1
    <3>1. i - 1 \in 1 .. Len(r) /\ (i - 1) + 1 = i
      BY <1>2, <2>2
    <3>2. r[i - 1] = q[i] /\ i - 1 \in DOMAIN r
      BY <1>2, <3>1
    <3>3. QED
      BY <3>2 DEF ToSet
  <2>3. QED
    BY <2>1, <2>2
<1>5. T \subseteq ToSet(r) \cup {Head(q)}
  BY <1>2, <1>4 DEF ToSet
<1>6. QED
  BY <1>2, <1>3, <1>5 DEF r

LEMMA QueuedAll ==
  ASSUME NEW q, q \in Seq(ToSet(q)), NEW T, NEW s \in Seq(T)
  PROVE  LET r == q \o s
         IN  /\ r \in Seq(ToSet(r)) /\ ToSet(r) = ToSet(q) \cup ToSet(s)
             /\ Len(q) \in Nat /\ Len(s) \in Nat /\ Len(r) = Len(q) + Len(s)
             /\ \A i \in 1 .. Len(q) : r[i] = q[i]
             /\ \A i \in 1 .. Len(s) : r[Len(q) + i] = s[i]
<1> DEFINE r == q \o s
           U == ToSet(q) \cup T
<1>1. q \in Seq(U) /\ s \in Seq(U)
  <2> DEFINE W == ToSet(q)
  <2>1. q \in Seq(W)
    OBVIOUS
  <2> HIDE DEF W
  <2>2. q \in Seq(W \cup T) /\ s \in Seq(W \cup T)
    BY <2>1
  <2>3. QED
    BY <2>2 DEF W
<1> HIDE DEF U
<1>2. r \in Seq(U) /\ ToSet(r) = ToSet(q) \cup ToSet(s)
  BY <1>1, ConcatIs
<1>3. /\ Len(q) \in Nat /\ Len(s) \in Nat /\ Len(r) = Len(q) + Len(s)
      /\ \A i \in 1 .. Len(q) : r[i] = q[i]
      /\ \A i \in 1 .. Len(s) : r[Len(q) + i] = s[i]
  BY <1>1
<1>4. r \in Seq(ToSet(r))
  <2> HIDE DEF r
  <2>1. QED
    BY <1>2, QueueSelf
<1>5. QED
  BY <1>2, <1>3, <1>4

-----------------------------------------------------------------------------
LEMMA FadesWithin ==
  ASSUME NEW q, NEW op, NEW now, NEW S, NEW m \in Nat, Fades(q, op, now, S, m),
         NEW T, T \subseteq S, NEW n \in Nat, m <= n
  PROVE  Fades(q, op, now, T, n)
<1>1. \A i : i \in n + 1 .. Len(q) + 1 => i \in m + 1 .. Len(q) + 1
  <2> SUFFICES ASSUME NEW i, i \in n + 1 .. Len(q) + 1 PROVE i \in m + 1 .. Len(q) + 1
    OBVIOUS
  <2>1. QED
    OBVIOUS
<1>2. QED
  BY <1>1 DEF Fades

LEMMA FadesTail ==
  ASSUME NEW q, q \in Seq(ToSet(q)), q # <<>>, NEW op, NEW now, NEW S, NEW m \in Nat,
         Fades(q, op, now, S, m + 1)
  PROVE  Fades(Tail(q), op, now, S, m)
<1> DEFINE r == Tail(q)
<1>1. Len(q) \in Nat /\ Len(q) > 0 /\ Len(r) = Len(q) - 1 /\ \A i \in 1 .. Len(r) : r[i] = q[i + 1]
  BY Unqueued
<1>2. DOMAIN q = 1 .. Len(q) /\ DOMAIN r = 1 .. Len(r)
  BY Unqueued
<1> HIDE DEF r
<1>3. \A i \in 1 .. Len(r) + 1 : /\ i + 1 \in 1 .. Len(q) + 1
                                 /\ IsOffer(r, op, i) <=> IsOffer(q, op, i + 1)
                                 /\ IsOffer(r, op, i) => Offer(r, now, i) = Offer(q, now, i + 1)
  BY <1>1, <1>2 DEF IsOffer, Offer
<1>4. SUFFICES ASSUME NEW j \in m + 1 .. Len(r) + 1, NEW k \in m + 1 .. Len(r) + 1, j < k,
                      IsOffer(r, op, j), IsOffer(r, op, k)
               PROVE  S \cap Offer(r, now, k) \subseteq Offer(r, now, j)
  BY DEF Fades, r
<1>5. /\ j + 1 \in m + 1 + 1 .. Len(q) + 1 /\ k + 1 \in m + 1 + 1 .. Len(q) + 1 /\ j + 1 < k + 1
      /\ j \in 1 .. Len(r) + 1 /\ k \in 1 .. Len(r) + 1
  BY <1>1, <1>4
<1>6. IsOffer(q, op, j + 1) /\ IsOffer(q, op, k + 1)
  BY <1>3, <1>4, <1>5
<1>7. S \cap Offer(q, now, k + 1) \subseteq Offer(q, now, j + 1)
  BY <1>5, <1>6 DEF Fades
<1>8. QED
  BY <1>3, <1>4, <1>5, <1>7

LEMMA FadesQueued ==
  ASSUME NEW q, q \in Seq(ToSet(q)), NEW a, NEW op, NEW now, NEW next, NEW S, NEW m \in Nat,
         Fades(q, op, now, S, m),
         a.call.op = op => a.ret = now /\ next = now,
         S \cap next \subseteq now
  PROVE  Fades(Append(q, a), op, next, S, m)
<1> DEFINE r == Append(q, a)
           n == Len(q)
<1>1. n \in Nat /\ Len(r) = n + 1 /\ r[n + 1] = a /\ \A i \in 1 .. n : r[i] = q[i]
  BY Queued
<1>2. DOMAIN q = 1 .. n /\ DOMAIN r = 1 .. n + 1
  BY <1>1, Queued
<1> HIDE DEF r, n
<1>3. /\ \A i \in 1 .. n : /\ IsOffer(r, op, i) <=> IsOffer(q, op, i)
                           /\ Offer(r, next, i) = Offer(q, now, i)
      /\ IsOffer(r, op, n + 1) => Offer(r, next, n + 1) = now /\ next = now
      /\ Offer(r, next, n + 2) = next /\ Offer(q, now, n + 1) = now /\ IsOffer(q, op, n + 1)
  BY <1>1, <1>2 DEF IsOffer, Offer, n
<1>4. SUFFICES ASSUME NEW j \in m + 1 .. n + 2, NEW k \in m + 1 .. n + 2, j < k,
                      IsOffer(r, op, j), IsOffer(r, op, k)
               PROVE  S \cap Offer(r, next, k) \subseteq Offer(r, next, j)
  BY <1>1 DEF Fades, r
<1>5. CASE j = n + 1
  <2>1. k = n + 2
    BY <1>1, <1>4, <1>5
  <2>2. QED
    BY <1>3, <1>4, <1>5, <2>1
<1>6. CASE j # n + 1
  <2>1. j \in 1 .. n /\ j \in m + 1 .. n + 1 /\ n + 1 \in m + 1 .. n + 1 /\ j < n + 1
    BY <1>1, <1>4, <1>6
  <2>2. IsOffer(q, op, j) /\ Offer(r, next, j) = Offer(q, now, j)
    BY <1>3, <1>4, <2>1
  <2>3. S \cap now \subseteq Offer(q, now, j)
    BY <1>3, <2>1, <2>2 DEF Fades, n
  <2>4. CASE k \in 1 .. n
    <3>1. k \in m + 1 .. n + 1 /\ IsOffer(q, op, k) /\ Offer(r, next, k) = Offer(q, now, k)
      BY <1>1, <1>3, <1>4, <2>4
    <3>2. S \cap Offer(q, now, k) \subseteq Offer(q, now, j)
      BY <1>4, <2>1, <2>2, <3>1 DEF Fades, n
    <3>3. QED
      BY <2>2, <3>1, <3>2
  <2>5. CASE k = n + 1
    BY <1>3, <1>4, <2>2, <2>3, <2>5
  <2>6. CASE k = n + 2
    BY <1>3, <2>2, <2>3, <2>6
  <2>7. QED
    BY <1>1, <1>4, <2>4, <2>5, <2>6
<1>7. QED
  BY <1>5, <1>6

\* The queue of calls grows by the members of A.
Grows(q, r, A) ==
  /\ Len(q) \in Nat /\ Len(r) \in Nat /\ Len(q) <= Len(r)
  /\ DOMAIN q = 1 .. Len(q) /\ DOMAIN r = 1 .. Len(r)
  /\ \A i \in 1 .. Len(q) : r[i] = q[i]
  /\ \A i \in Len(q) + 1 .. Len(r) : r[i] \in A
  /\ ToSet(r) = ToSet(q) \cup A /\ r \in Seq(ToSet(r))

LEMMA GrowsAll ==
  ASSUME NEW q, q \in Seq(ToSet(q)), NEW A, NEW s \in Seq(A), ToSet(s) = A
  PROVE  Grows(q, q \o s, A)
<1> DEFINE r == q \o s
<1>1. /\ r \in Seq(ToSet(r)) /\ ToSet(r) = ToSet(q) \cup A
      /\ Len(q) \in Nat /\ Len(s) \in Nat /\ Len(r) = Len(q) + Len(s)
      /\ \A i \in 1 .. Len(q) : r[i] = q[i]
      /\ \A i \in 1 .. Len(s) : r[Len(q) + i] = s[i]
  BY QueuedAll
<1>2. DOMAIN q = 1 .. Len(q) /\ DOMAIN s = 1 .. Len(s) /\ \A i \in 1 .. Len(s) : s[i] \in A
  OBVIOUS
<1>3. DOMAIN r = 1 .. Len(r)
  <2> HIDE DEF r
  <2>1. QED
    BY <1>1
<1> HIDE DEF r
<1>4. ASSUME NEW i \in Len(q) + 1 .. Len(r) PROVE r[i] \in A
  <2>1. i - Len(q) \in 1 .. Len(s) /\ Len(q) + (i - Len(q)) = i
    BY <1>1
  <2>2. QED
    BY <1>1, <1>2, <2>1
<1>5. QED
  BY <1>1, <1>2, <1>3, <1>4 DEF Grows, r

LEMMA Lists3 ==
  ASSUME NEW a, NEW b, NEW c
  PROVE  /\ <<>> \in Seq({}) /\ ToSet(<<>>) = {}
         /\ <<a>> \in Seq({a}) /\ ToSet(<<a>>) = {a}
         /\ <<a, b>> \in Seq({a, b}) /\ ToSet(<<a, b>>) = {a, b}
         /\ Append(<<a, b>>, c) = <<a, b, c>>
<1>1. ToSet(<<>>) = {} /\ <<>> \in Seq({})
  BY DEF ToSet
<1>2. ToSet(<<a>>) = {a}
  <2>1. DOMAIN <<a>> = {1} /\ <<a>>[1] = a
    OBVIOUS
  <2>2. QED
    BY <2>1 DEF ToSet
<1>3. ToSet(<<a, b>>) = {a, b}
  <2>1. DOMAIN <<a, b>> = {1, 2} /\ <<a, b>>[1] = a /\ <<a, b>>[2] = b
    OBVIOUS
  <2>2. QED
    BY <2>1 DEF ToSet
<1>5. <<a>> \in Seq({a}) /\ <<a, b>> \in Seq({a, b})
  OBVIOUS
<1>6. Append(<<a, b>>, c) = <<a, b, c>>
  <2> DEFINE T == {a, b, c}
             r == Append(<<a, b>>, c)
             s == <<a, b, c>>
  <2>1. r \in Seq(T) /\ Len(r) = 3 /\ r[1] = a /\ r[2] = b /\ r[3] = c
    <3> DEFINE t == <<a, b>>
    <3>1. t \in Seq(T) /\ Len(t) = 2 /\ t[1] = a /\ t[2] = b /\ c \in T
      OBVIOUS
    <3> HIDE DEF t, T
    <3>2. QED
      BY <3>1 DEF t
  <2>2. s \in Seq(T) /\ Len(s) = 3 /\ s[1] = a /\ s[2] = b /\ s[3] = c
    OBVIOUS
  <2> HIDE DEF r, s, T
  <2>3. r = s
    BY <2>1, <2>2
  <2>4. QED
    BY <2>3 DEF r, s
<1>7. QED
  BY <1>1, <1>2, <1>3, <1>5, <1>6

LEMMA Threes ==
  ASSUME NEW a, NEW b, NEW c
  PROVE  <<a, b, c>> \in Seq({a, b, c}) /\ ToSet(<<a, b, c>>) = {a, b, c}
<1> DEFINE s == <<a, b, c>>
<1>1. s \in Seq({a, b, c}) /\ DOMAIN s = {1, 2, 3} /\ s[1] = a /\ s[2] = b /\ s[3] = c
  OBVIOUS
<1> HIDE DEF s
<1>2. ToSet(s) = {a, b, c}
  BY <1>1 DEF ToSet
<1>3. QED
  BY <1>1, <1>2 DEF s

LEMMA GrowsNot ==
  ASSUME NEW q, q \in Seq(ToSet(q)) PROVE Grows(q, q, {}) /\ Grows(q, q \o <<>>, {})
<1>1. Grows(q, q \o <<>>, {})
  BY Lists3, GrowsAll
<1>2. q \o <<>> = q
  <2> DEFINE T == ToSet(q)
  <2>1. q \in Seq(T)
    OBVIOUS
  <2> HIDE DEF T
  <2>2. QED
    BY <2>1
<1>3. QED
  BY <1>1, <1>2

LEMMA GrowsOne ==
  ASSUME NEW q, q \in Seq(ToSet(q)), NEW c PROVE Grows(q, Append(q, c), {c})
<1>1. Grows(q, q \o <<c>>, {c})
  BY Lists3, GrowsAll
<1>2. q \o <<c>> = Append(q, c)
  <2> DEFINE T == ToSet(q) \cup {c}
  <2>1. q \in Seq(T) /\ c \in T
    <3> DEFINE U == ToSet(q)
    <3>1. q \in Seq(U)
      OBVIOUS
    <3> HIDE DEF U
    <3>2. q \in Seq(U \cup {c})
      BY <3>1
    <3>3. QED
      BY <3>2 DEF U
  <2> HIDE DEF T
  <2>2. QED
    BY <2>1
<1>3. QED
  BY <1>1, <1>2

\* What the editors ask for when they are saved.
CredCall(f) ==
  LET d == credDlg[f]
  IN  [op |-> "save cred", f |-> f, id |-> d.id, auth |-> d.auth,
       typed |-> IF HoldsText(d.auth) THEN d.typed ELSE "none",
       keep |-> HoldsText(d.auth) /\ d.typed = "none" /\ Retainable(d)]
HostCall == [op |-> "save host", id |-> hostDlg.id, cred |-> hostDlg.cred]

-----------------------------------------------------------------------------
\* What every click does.
ClickAsk(c) ==
  /\ IsCall(c) /\ CallKnown(c) /\ c.op # "hosts"
  /\ c.op = "creds" => c.then = "open"
  /\ c.op = "drop host" => c.id = chain.focus
  /\ c.op = "save cred" => c = CredCall(c.f) /\ SaveCredential(c.f)
  /\ c.op = "save host" => c = HostCall /\ SaveHost

ClickStep(A) ==
  /\ answers' = answers /\ credStore' = credStore /\ hostStore' = hostStore /\ spent' = spent
  /\ Grows(calls, calls', A)
  /\ \A c \in A : ClickAsk(c)
  /\ \A f \in Forms : picker'[f].options = picker[f].options
  /\ chain'.known = chain.known
  /\ hostDlg'.open => hostDlg.open
  /\ crossed => crossed'

Typed == PickersTypes /\ IdsKnown

LEMMA ClickPick ==
  ASSUME Typed, NEW f \in Forms, NEW id \in Creds \cup {Nil}, PickCred(f, id)
  PROVE  ClickStep({}) /\ WindowTypes'
<1>1. Grows(calls, calls', {})
  BY GrowsNot DEF Typed, PickersTypes, WireTypes, PickCred, wire
<1>2. WindowTypes'
  BY DEF Typed, PickersTypes, WindowTypes, PickCred, Tell, Forms
<1>3. QED
  BY <1>1 DEF Typed, PickersTypes, WindowTypes, PickCred, Tell, ClickStep, stored, wire, Forms

LEMMA LoadedIs ==
  ASSUME NEW e \in Editors, NEW id \in Creds \cup {Nil}, NEW c \in Secrets \cup {Nil}
  PROVE  LET d == LoadedCred(e, id, c)
         IN  /\ d \in Editors /\ d.open /\ d.id = id /\ d.typed = "none" /\ d.saving = e.saving
             /\ c # Nil => d.loaded = c.auth /\ (d.had <=> c.secret # "none")
<1> DEFINE lo == IF c = Nil THEN Nil ELSE c.auth
           ha == c # Nil /\ c.secret # "none"
           au == IF c = Nil THEN "agent" ELSE c.auth
           d == [e EXCEPT !.open = TRUE, !.id = id, !.typed = "none",
            !.loaded = lo, !.had = ha, !.auth = au]
<1>1. lo \in Kinds \cup {Nil} /\ ha \in BOOLEAN /\ au \in Kinds
  BY DEF Secrets, Kinds
<1> HIDE DEF lo, ha, au
<1>2. d \in Editors /\ d.open /\ d.id = id /\ d.typed = "none" /\ d.saving = e.saving
      /\ d.loaded = lo /\ (d.had <=> ha)
  BY <1>1 DEF Editors
<1>3. d = LoadedCred(e, id, c)
  BY DEF LoadedCred, lo, ha, au
<1> HIDE DEF d
<1>4. QED
  BY <1>2, <1>3 DEF lo, ha

LEMMA EditorChanges ==
  ASSUME Typed, NEW f \in Forms, NEW d \in Editors, d.typed \in {"none", d.auth},
         credDlg' = [credDlg EXCEPT ![f] = d], crossed' \in BOOLEAN,
         picker' = picker, chain' = chain, hostDlg' = hostDlg, wants' = wants
  PROVE  WindowTypes'
<1>1. credDlg \in [Forms -> Editors] /\ \A g \in Forms : credDlg[g].typed \in {"none", credDlg[g].auth}
  BY DEF Typed, PickersTypes, WindowTypes
<1>2. credDlg' \in [Forms -> Editors] /\ \A g \in Forms : credDlg'[g].typed \in {"none", credDlg'[g].auth}
  BY <1>1
<1>3. QED
  BY <1>2 DEF Typed, PickersTypes, WindowTypes

LEMMA ClickNewCred ==
  ASSUME Typed, NEW f \in Forms, NewCred(f)
  PROVE  ClickStep({}) /\ WindowTypes'
<1>1. Grows(calls, calls', {})
  BY GrowsNot DEF Typed, PickersTypes, WireTypes, NewCred, wire
<1> DEFINE d == LoadedCred(credDlg[f], Nil, Nil)
           D == Editors
<1>2. d \in D /\ d.typed \in {"none", d.auth}
  <2>1. credDlg[f] \in Editors
    BY DEF Typed, PickersTypes, WindowTypes
  <2>2. Nil \in Creds \cup {Nil} /\ Nil \in Secrets \cup {Nil}
    OBVIOUS
  <2>3. QED
    BY <2>1, <2>2, LoadedIs
<1>3. credDlg' = [credDlg EXCEPT ![f] = d] /\ credDlg \in [Forms -> D]
      /\ \A g \in Forms : credDlg[g].typed \in {"none", credDlg[g].auth}
  BY DEF Typed, PickersTypes, WindowTypes, NewCred
<1> HIDE DEF d
<1>4. credDlg' \in [Forms -> D] /\ \A g \in Forms : credDlg'[g].typed \in {"none", credDlg'[g].auth}
  BY <1>2, <1>3
<1>5. WindowTypes'
  BY <1>4 DEF Typed, PickersTypes, WindowTypes, NewCred
<1>6. QED
  BY <1>1, <1>5 DEF Typed, PickersTypes, NewCred, ClickStep, stored, wire

LEMMA ClickType ==
  ASSUME Typed, NEW f \in Forms, NEW auth \in Auths, ChangeType(f, auth)
  PROVE  ClickStep({}) /\ WindowTypes'
<1>1. Grows(calls, calls', {})
  BY GrowsNot DEF Typed, PickersTypes, WireTypes, ChangeType, wire
<1> DEFINE d == WithAuth(credDlg[f], auth)
           D == Editors
<1>2. d \in D /\ d.typed \in {"none", d.auth}
  <2>1. PICK e : e = credDlg[f]
    OBVIOUS
  <2>2. e \in Editors /\ e.typed \in {"none", e.auth}
    BY <2>1 DEF Typed, PickersTypes, WindowTypes
  <2>3. auth \in Kinds
    BY PickersAssumption
  <2>4. WithAuth(e, auth) \in Editors /\ WithAuth(e, auth).typed \in {"none", WithAuth(e, auth).auth}
    BY <2>2, <2>3 DEF WithAuth, Editors, Kinds
  <2>5. QED
    BY <2>1, <2>4
<1>3. credDlg' = [credDlg EXCEPT ![f] = d] /\ credDlg \in [Forms -> D]
      /\ \A g \in Forms : credDlg[g].typed \in {"none", credDlg[g].auth}
  BY DEF Typed, PickersTypes, WindowTypes, ChangeType
<1> HIDE DEF d
<1>4. credDlg' \in [Forms -> D] /\ \A g \in Forms : credDlg'[g].typed \in {"none", credDlg'[g].auth}
  BY <1>2, <1>3
<1>5. WindowTypes'
  BY <1>4 DEF Typed, PickersTypes, WindowTypes, ChangeType
<1>6. QED
  BY <1>1, <1>5 DEF Typed, PickersTypes, ChangeType, ClickStep, stored, wire

LEMMA ClickSecret ==
  ASSUME Typed, NEW f \in Forms, TypeSecret(f)
  PROVE  ClickStep({}) /\ WindowTypes'
<1>1. Grows(calls, calls', {})
  BY GrowsNot DEF Typed, PickersTypes, WireTypes, TypeSecret, wire
<1>2. /\ credDlg \in [Forms -> Editors] /\ credDlg[f].typed \in {"none", credDlg[f].auth}
      /\ crossed \in BOOLEAN
  BY DEF Typed, PickersTypes, WindowTypes
<1>3. PICK d : d = [credDlg[f] EXCEPT !.typed = credDlg[f].auth]
  OBVIOUS
<1>4. credDlg' = [credDlg EXCEPT ![f] = d]
  BY <1>2, <1>3 DEF TypeSecret
<1>5. d \in Editors /\ d.typed \in {"none", d.auth}
  <2>1. PICK e : e = credDlg[f]
    OBVIOUS
  <2>2. QED
    BY <1>2, <1>3, <2>1 DEF Editors
<1>6. /\ picker' = picker /\ chain' = chain /\ hostDlg' = hostDlg /\ wants' = wants
      /\ credStore' = credStore /\ hostStore' = hostStore /\ spent' = spent /\ answers' = answers
      /\ crossed' \in BOOLEAN /\ (crossed => crossed')
  BY <1>2 DEF TypeSecret, stored, wire, Typed, PickersTypes, WindowTypes, Editors
<1>7. QED
  BY <1>1, <1>4, <1>5, <1>6, EditorChanges DEF ClickStep

LEMMA ClickCancel ==
  ASSUME Typed, NEW f \in Forms, CancelCred(f)
  PROVE  ClickStep({}) /\ WindowTypes'
<1>1. Grows(calls, calls', {})
  BY GrowsNot DEF Typed, PickersTypes, WireTypes, CancelCred, wire
<1>2. /\ credDlg \in [Forms -> Editors] /\ credDlg[f].typed \in {"none", credDlg[f].auth}
      /\ crossed \in BOOLEAN
  BY DEF Typed, PickersTypes, WindowTypes
<1>3. PICK d : d = [credDlg[f] EXCEPT !.open = FALSE]
  OBVIOUS
<1>4. credDlg' = [credDlg EXCEPT ![f] = d]
  BY <1>2, <1>3 DEF CancelCred
<1>5. d \in Editors /\ d.typed \in {"none", d.auth}
  <2>1. PICK e : e = credDlg[f]
    OBVIOUS
  <2>2. QED
    BY <1>2, <1>3, <2>1 DEF Editors
<1>6. /\ picker' = picker /\ chain' = chain /\ hostDlg' = hostDlg /\ wants' = wants
      /\ credStore' = credStore /\ hostStore' = hostStore /\ spent' = spent /\ answers' = answers
      /\ crossed' \in BOOLEAN /\ (crossed => crossed')
  BY <1>2 DEF CancelCred, stored, wire, Typed, PickersTypes, WindowTypes, Editors
<1>7. QED
  BY <1>1, <1>4, <1>5, <1>6, EditorChanges DEF ClickStep

LEMMA ClickFocus ==
  ASSUME Typed, NEW h \in Hosts, Focus(h)
  PROVE  ClickStep({}) /\ WindowTypes'
<1>1. Grows(calls, calls', {})
  BY GrowsNot DEF Typed, PickersTypes, WireTypes, Focus, wire
<1>2. WindowTypes'
  BY DEF Typed, PickersTypes, WindowTypes, Focus, Forms
<1>3. QED
  BY <1>1 DEF Typed, PickersTypes, WindowTypes, Focus, ClickStep, stored, wire, Forms

LEMMA ClickCancelHost ==
  ASSUME Typed, CancelHost
  PROVE  ClickStep({}) /\ WindowTypes'
<1>1. Grows(calls, calls', {})
  BY GrowsNot DEF Typed, PickersTypes, WireTypes, CancelHost, wire
<1>2. WindowTypes'
  BY DEF Typed, PickersTypes, WindowTypes, CancelHost, Forms
<1>3. QED
  BY <1>1 DEF Typed, PickersTypes, WindowTypes, CancelHost, ClickStep, stored, wire, Forms

LEMMA ClickEditCred ==
  ASSUME Typed, NEW f \in Forms, AskEditCred(f)
  PROVE  ClickStep({[op |-> "cred", f |-> f, id |-> picker[f].value]}) /\ WindowTypes'
<1> DEFINE c == [op |-> "cred", f |-> f, id |-> picker[f].value]
<1>1. calls' = Append(calls, c) /\ answers' = answers
  BY DEF AskEditCred, Call
<1>2. ClickAsk(c)
  BY PickersAssumption DEF Typed, PickersTypes, WindowTypes, IdsKnown, WindowKnown,
         AskEditCred, ClickAsk, IsCall, CallKnown, Forms
<1> HIDE DEF c
<1>3. Grows(calls, calls', {c})
  BY <1>1, GrowsOne DEF Typed, PickersTypes, WireTypes
<1>4. WindowTypes'
  BY DEF Typed, PickersTypes, WindowTypes, AskEditCred, Forms
<1>5. QED
  BY <1>1, <1>2, <1>3, <1>4 DEF Typed, PickersTypes, WindowTypes, AskEditCred, ClickStep,
         stored, Forms, c

LEMMA ClickDeleteCred ==
  ASSUME Typed, NEW f \in Forms, AskDeleteCred(f)
  PROVE  ClickStep({[op |-> "drop cred", id |-> picker[f].value]}) /\ WindowTypes'
<1> DEFINE c == [op |-> "drop cred", id |-> picker[f].value]
<1>1. calls' = Append(calls, c) /\ answers' = answers
  BY DEF AskDeleteCred, Call
<1>2. ClickAsk(c)
  BY PickersAssumption DEF Typed, PickersTypes, WindowTypes, IdsKnown, WindowKnown,
         AskDeleteCred, ClickAsk, IsCall, CallKnown, Forms
<1> HIDE DEF c
<1>3. Grows(calls, calls', {c})
  BY <1>1, GrowsOne DEF Typed, PickersTypes, WireTypes
<1>4. WindowTypes'
  BY DEF Typed, PickersTypes, WindowTypes, AskDeleteCred, Forms
<1>5. QED
  BY <1>1, <1>2, <1>3, <1>4 DEF Typed, PickersTypes, WindowTypes, AskDeleteCred, ClickStep,
         stored, Forms, c

LEMMA ClickEditHost ==
  ASSUME Typed, AskEditHost
  PROVE  ClickStep({[op |-> "host", id |-> chain.focus]}) /\ WindowTypes'
<1> DEFINE c == [op |-> "host", id |-> chain.focus]
<1>1. calls' = Append(calls, c) /\ answers' = answers
  BY DEF AskEditHost, Call
<1>2. ClickAsk(c)
  BY PickersAssumption DEF Typed, PickersTypes, WindowTypes, IdsKnown, WindowKnown,
         AskEditHost, ClickAsk, IsCall, CallKnown, Forms
<1> HIDE DEF c
<1>3. Grows(calls, calls', {c})
  BY <1>1, GrowsOne DEF Typed, PickersTypes, WireTypes
<1>4. WindowTypes'
  BY DEF Typed, PickersTypes, WindowTypes, AskEditHost, Forms
<1>5. QED
  BY <1>1, <1>2, <1>3, <1>4 DEF Typed, PickersTypes, WindowTypes, AskEditHost, ClickStep,
         stored, Forms, c

LEMMA ClickDeleteHost ==
  ASSUME Typed, AskDeleteHost
  PROVE  ClickStep({[op |-> "drop host", id |-> chain.focus]}) /\ WindowTypes'
<1> DEFINE c == [op |-> "drop host", id |-> chain.focus]
<1>1. calls' = Append(calls, c) /\ answers' = answers
  BY DEF AskDeleteHost, Call
<1>2. ClickAsk(c)
  BY PickersAssumption DEF Typed, PickersTypes, WindowTypes, IdsKnown, WindowKnown,
         AskDeleteHost, ClickAsk, IsCall, CallKnown, Forms
<1> HIDE DEF c
<1>3. Grows(calls, calls', {c})
  BY <1>1, GrowsOne DEF Typed, PickersTypes, WireTypes
<1>4. /\ picker' = picker /\ chain' = chain /\ credDlg' = credDlg /\ hostDlg' = hostDlg
      /\ wants' = wants /\ crossed' = crossed
      /\ credStore' = credStore /\ hostStore' = hostStore /\ spent' = spent
  BY DEF AskDeleteHost, stored
<1>5. WindowTypes'
  BY <1>4 DEF Typed, PickersTypes, WindowTypes
<1>6. ClickStep({c})
  BY <1>1, <1>2, <1>3, <1>4 DEF ClickStep
<1>7. QED
  BY <1>5, <1>6 DEF c

LEMMA ClickSaveCred ==
  ASSUME Typed, NEW f \in Forms, SaveCredential(f)
  PROVE  ClickStep({CredCall(f)}) /\ WindowTypes'
<1> DEFINE c == CredCall(f)
<1>1. calls' = Append(calls, c) /\ answers' = answers
  BY DEF SaveCredential, Call, CredCall, HoldsText, Retainable
<1>2. ClickAsk(c)
  BY PickersAssumption DEF Typed, PickersTypes, WindowTypes, IdsKnown, WindowKnown,
         SaveCredential, Editors, ClickAsk, IsCall, CallKnown, Forms, CredCall, HoldsText,
         Retainable
<1> HIDE DEF c
<1>3. Grows(calls, calls', {c})
  BY <1>1, GrowsOne DEF Typed, PickersTypes, WireTypes
<1>4. /\ credDlg \in [Forms -> Editors] /\ credDlg[f].typed \in {"none", credDlg[f].auth}
      /\ crossed \in BOOLEAN
  BY DEF Typed, PickersTypes, WindowTypes
<1>5. PICK d : d = [credDlg[f] EXCEPT !.saving = TRUE]
  OBVIOUS
<1>6. credDlg' = [credDlg EXCEPT ![f] = d]
  BY <1>4, <1>5 DEF SaveCredential
<1>7. d \in Editors /\ d.typed \in {"none", d.auth}
  <2>1. PICK e : e = credDlg[f]
    OBVIOUS
  <2>2. QED
    BY <1>4, <1>5, <2>1 DEF Editors
<1>8. /\ picker' = picker /\ chain' = chain /\ hostDlg' = hostDlg /\ wants' = wants /\ crossed' = crossed
      /\ credStore' = credStore /\ hostStore' = hostStore /\ spent' = spent
  BY DEF SaveCredential, stored
<1>9. WindowTypes'
  BY <1>4, <1>6, <1>7, <1>8, EditorChanges
<1>10. ClickStep({c})
  BY <1>1, <1>2, <1>3, <1>8 DEF ClickStep
<1>11. QED
  BY <1>9, <1>10 DEF c

LEMMA ClickSaveHost ==
  ASSUME Typed, SaveHost
  PROVE  ClickStep({HostCall}) /\ WindowTypes'
<1> DEFINE c == HostCall
<1>1. calls' = Append(calls, c) /\ answers' = answers
  BY DEF SaveHost, Call, HostCall
<1>2. ClickAsk(c)
  BY PickersAssumption DEF Typed, PickersTypes, WindowTypes, IdsKnown, WindowKnown,
         SaveHost, ClickAsk, IsCall, CallKnown, Forms, HostCall
<1> HIDE DEF c
<1>3. Grows(calls, calls', {c})
  BY <1>1, GrowsOne DEF Typed, PickersTypes, WireTypes
<1>4. WindowTypes'
  BY DEF Typed, PickersTypes, WindowTypes, SaveHost, Forms
<1>5. QED
  BY <1>1, <1>2, <1>3, <1>4 DEF Typed, PickersTypes, WindowTypes, SaveHost, ClickStep,
         stored, Forms, c

LEMMA ClickNewHost ==
  ASSUME Typed, NewHost
  PROVE  ClickStep({[op |-> "creds", f |-> "host", then |-> "open"]}) /\ WindowTypes'
<1> DEFINE c == [op |-> "creds", f |-> "host", then |-> "open"]
<1>1. calls' = Append(calls, c) /\ answers' = answers
  BY DEF NewHost, Call
<1>2. ClickAsk(c)
  BY PickersAssumption DEF Typed, PickersTypes, WindowTypes, IdsKnown, WindowKnown, NewHost,
         ClickAsk, IsCall, CallKnown, Forms, LoadHost
<1> HIDE DEF c
<1>3. Grows(calls, calls', {c})
  BY <1>1, GrowsOne DEF Typed, PickersTypes, WireTypes
<1>4. WindowTypes'
  BY DEF Typed, PickersTypes, WindowTypes, NewHost, LoadHost, Forms
<1>5. QED
  BY <1>1, <1>2, <1>3, <1>4 DEF Typed, PickersTypes, WindowTypes, NewHost, LoadHost,
         ClickStep, stored, Forms, c

LEMMA RemoveIs ==
  ASSUME NEW T, NEW s \in Seq(T), NEW k \in DOMAIN s, Unique(s)
  PROVE  /\ RemoveAt(s, k) \in Seq(T) /\ Unique(RemoveAt(s, k))
         /\ ToSet(RemoveAt(s, k)) = ToSet(s) \ {s[k]}
<1> DEFINE a == SubSeq(s, 1, k - 1)
           b == SubSeq(s, k + 1, Len(s))
<1>1. /\ a \in Seq(T) /\ b \in Seq(T) /\ DOMAIN a = 1 .. k - 1 /\ DOMAIN b = 1 .. Len(s) - k
      /\ DOMAIN s = 1 .. Len(s) /\ Len(s) \in Nat /\ k \in 1 .. Len(s)
      /\ \A i \in DOMAIN a : a[i] = s[i]
      /\ \A i \in DOMAIN b : b[i] = s[k + i]
  OBVIOUS
<1>2. RemoveAt(s, k) = a \o b
  BY DEF RemoveAt
<1> HIDE DEF a, b
<1>3. ASSUME NEW i \in DOMAIN a PROVE i \in DOMAIN s /\ i < k
  BY <1>1
<1>4. ASSUME NEW i \in DOMAIN b PROVE k + i \in DOMAIN s /\ k + i > k
  BY <1>1
<1>5. Unique(a)
  BY <1>1, <1>3 DEF Unique
<1>6. Unique(b)
  <2> SUFFICES ASSUME NEW i \in DOMAIN b, NEW j \in DOMAIN b, b[i] = b[j] PROVE i = j
    BY DEF Unique
  <2>1. k + i = k + j
    BY <1>1, <1>4 DEF Unique
  <2>2. QED
    BY <1>1, <2>1
<1>7. ToSet(a) \cap ToSet(b) = {}
  <2> SUFFICES ASSUME NEW i \in DOMAIN a, NEW j \in DOMAIN b, a[i] = b[j] PROVE FALSE
    BY DEF ToSet
  <2>1. i = k + j
    BY <1>1, <1>3, <1>4 DEF Unique
  <2>2. QED
    BY <1>1, <1>3, <1>4, <2>1
<1>8. ToSet(a) \cup ToSet(b) \subseteq ToSet(s) \ {s[k]}
  <2>1. ASSUME NEW i \in DOMAIN a PROVE a[i] \in ToSet(s) \ {s[k]}
    <3>1. i # k /\ s[i] # s[k]
      BY <1>1, <1>3 DEF Unique
    <3>2. QED
      BY <1>1, <1>3, <3>1 DEF ToSet
  <2>2. ASSUME NEW i \in DOMAIN b PROVE b[i] \in ToSet(s) \ {s[k]}
    <3>1. k + i # k
      BY <1>1
    <3>2. s[k + i] # s[k]
      BY <1>4, <3>1 DEF Unique
    <3>3. QED
      BY <1>1, <1>4, <3>2 DEF ToSet
  <2>3. QED
    BY <2>1, <2>2 DEF ToSet
<1>9. ToSet(s) \ {s[k]} \subseteq ToSet(a) \cup ToSet(b)
  <2>1. ASSUME NEW i \in DOMAIN s, i # k PROVE s[i] \in ToSet(a) \cup ToSet(b)
    <3>1. CASE i < k
      <4>1. i \in DOMAIN a
        BY <1>1, <3>1
      <4>2. QED
        BY <1>1, <4>1 DEF ToSet
    <3>2. CASE i > k
      <4>1. i - k \in DOMAIN b /\ k + (i - k) = i
        BY <1>1, <3>2
      <4>2. QED
        BY <1>1, <4>1 DEF ToSet
    <3>3. QED
      BY <1>1, <2>1, <3>1, <3>2
  <2>2. QED
    BY <2>1 DEF ToSet
<1>10. /\ a \o b \in Seq(T) /\ ToSet(a \o b) = ToSet(a) \cup ToSet(b)
       /\ Unique(a) /\ Unique(b) /\ ToSet(a) \cap ToSet(b) = {} => Unique(a \o b)
  BY <1>1, ConcatIs
<1>11. QED
  BY <1>2, <1>5, <1>6, <1>7, <1>8, <1>9, <1>10

LEMMA SwapIs ==
  ASSUME NEW T, NEW s \in Seq(T), NEW i \in DOMAIN s, NEW j \in DOMAIN s, i # j
  PROVE  LET r == [s EXCEPT ![i] = s[j], ![j] = s[i]]
         IN  /\ r \in Seq(T) /\ ToSet(r) = ToSet(s)
             /\ Unique(s) => Unique(r)
<1> DEFINE r == [s EXCEPT ![i] = s[j], ![j] = s[i]]
<1>1. DOMAIN r = DOMAIN s /\ r[i] = s[j] /\ r[j] = s[i] /\ \A k \in DOMAIN s : k # i /\ k # j => r[k] = s[k]
  OBVIOUS
<1>2. r \in Seq(T)
  OBVIOUS
<1> HIDE DEF r
<1>3. ToSet(r) = ToSet(s)
  <2>1. \A k \in DOMAIN r : r[k] \in ToSet(s)
    BY <1>1 DEF ToSet
  <2>2. ASSUME NEW k \in DOMAIN s PROVE s[k] \in ToSet(r)
    <3>1. \E l \in DOMAIN r : r[l] = s[k]
      BY <1>1
    <3>2. QED
      BY <3>1 DEF ToSet
  <2>3. QED
    BY <2>1, <2>2 DEF ToSet
<1>4. Unique(s) => Unique(r)
  BY <1>1 DEF Unique
<1>5. QED
  BY <1>2, <1>3, <1>4 DEF r

LEMMA ClickAddHop ==
  ASSUME Typed, AddHop
  PROVE  ClickStep({}) /\ WindowTypes'
<1>1. Grows(calls, calls', {})
  BY GrowsNot DEF Typed, PickersTypes, WireTypes, AddHop, wire
<1>0. chain.focus \in Hosts /\ Append(chain.ids, chain.focus) \in Seq(Hosts)
  BY DEF Typed, PickersTypes, WindowTypes, AddHop
<1>2. WindowTypes'
  <2> DEFINE r == Append(chain.ids, chain.focus)
             w == wants.hosts \cup {chain.focus}
  <2>1. r \in Seq(Hosts) /\ w \in SUBSET Hosts
    BY <1>0 DEF Typed, PickersTypes, WindowTypes
  <2>2. chain' = [chain EXCEPT !.ids = r] /\ wants' = [wants EXCEPT !.hosts = w]
    BY DEF AddHop
  <2> HIDE DEF r, w
  <2>3. QED
    BY <2>1, <2>2 DEF Typed, PickersTypes, WindowTypes, AddHop, Forms
<1>3. QED
  BY <1>1, <1>2 DEF Typed, PickersTypes, WindowTypes, AddHop, ClickStep, stored, wire, Forms

LEMMA ClickRemoveHop ==
  ASSUME Typed, NEW k \in DOMAIN chain.ids, RemoveHop(k)
  PROVE  ClickStep({}) /\ WindowTypes'
<1>1. Grows(calls, calls', {})
  BY GrowsNot DEF Typed, PickersTypes, WireTypes, RemoveHop, wire
<1>2. RemoveAt(chain.ids, k) \in Seq(Hosts)
  BY DEF Typed, PickersTypes, WindowTypes, RemoveAt
<1>3. WindowTypes'
  BY <1>2 DEF Typed, PickersTypes, WindowTypes, RemoveHop, Forms
<1>4. QED
  BY <1>1, <1>3 DEF Typed, PickersTypes, WindowTypes, RemoveHop, ClickStep, stored, wire, Forms

LEMMA ClickMoveHop ==
  ASSUME Typed, NEW k \in DOMAIN chain.ids, MoveHop(k)
  PROVE  /\ ClickStep({}) /\ WindowTypes' /\ {k, k + 1} \subseteq DOMAIN chain.ids
         /\ chain' = [chain EXCEPT !.ids = [chain.ids EXCEPT ![k] = chain.ids[k + 1], ![k + 1] = chain.ids[k]]]
<1>1. Grows(calls, calls', {})
  BY GrowsNot DEF Typed, PickersTypes, WireTypes, MoveHop, wire
<1> DEFINE s == chain.ids
           r == [s EXCEPT ![k] = s[k + 1], ![k + 1] = s[k]]
<1>2. s \in Seq(Hosts) /\ k \in DOMAIN s /\ k + 1 \in DOMAIN s /\ k # k + 1
  BY DEF Typed, PickersTypes, WindowTypes, MoveHop
<1>3. chain' = [chain EXCEPT !.ids = r]
  BY DEF Typed, PickersTypes, WindowTypes, MoveHop
<1> HIDE DEF s
<1>4. r \in Seq(Hosts)
  BY <1>2
<1> HIDE DEF r
<1>5. WindowTypes'
  BY <1>3, <1>4 DEF Typed, PickersTypes, WindowTypes, MoveHop, Forms
<1>6. ClickStep({})
  BY <1>1, <1>3 DEF Typed, PickersTypes, WindowTypes, MoveHop, ClickStep, stored, wire, Forms
<1>7. QED
  BY <1>2, <1>3, <1>5, <1>6 DEF r, s

-----------------------------------------------------------------------------
\* What every answer does when it is heard.
TakeAsk(a, c) ==
  /\ IsCall(c) /\ CallKnown(c) /\ c.op \in {"creds", "hosts"}
  /\ Joining(c) => a.call.op = "save host" /\ a.ret # Nil /\ c.id = a.ret /\ chain.creating

TakeStep(A) ==
  LET a == Head(answers)
  IN  /\ answers # <<>> /\ answers' = Tail(answers)
      /\ credStore' = credStore /\ hostStore' = hostStore /\ spent' = spent
      /\ Grows(calls, calls', A)
      /\ \A c \in A : TakeAsk(a, c)
      /\ Changes(a, {"save cred", "drop cred"}) => \A f \in Forms : \E c \in A : c.op = "creds" /\ c.f = f
      /\ Changes(a, {"save host", "drop host"}) => \E c \in A : c.op = "hosts"
      /\ \A f \in Forms : picker'[f].options =
                            IF a.call.op = "creds" /\ a.call.f = f THEN a.ret ELSE picker[f].options
      /\ hostDlg'.open => hostDlg.open \/ (a.call.op = "creds" /\ a.call.f = "host")
      /\ chain'.known = IF a.call.op = "hosts" THEN a.ret ELSE chain.known
      /\ crossed => crossed'

LEMMA HeadIs ==
  ASSUME Typed, answers # <<>>
  PROVE  IsAnswer(Head(answers)) /\ AnswerKnown(Head(answers)) /\ Head(answers) \in ToSet(answers)
BY Unqueued DEF Typed, PickersTypes, WireTypes, IdsKnown, WireKnown

LEMMA TakeCreds ==
  ASSUME Typed, CredsListed
  PROVE  TakeStep({}) /\ WindowTypes'
<1> DEFINE a == Head(answers)
           f == a.call.f
           p == [picker[f] EXCEPT !.options = a.ret]
           hold == Shown(p, p.value)
<1>0. Answer("creds") /\ answers # <<>> /\ a.call.op = "creds" /\ calls' = calls \o <<>> /\ answers' = Tail(answers)
      /\ UNCHANGED <<credStore, hostStore, spent, clicks, crossed, chain, credDlg>>
  BY DEF CredsListed, Answer, Taken, stored
<1>1. IsAnswer(a) /\ AnswerKnown(a)
  BY <1>0, HeadIs
<1>2. f \in Forms /\ a.ret \subseteq Creds /\ a.call.then \in {"keep", "open", "choose"}
      /\ (a.call.then = "open" => f = "host") /\ (a.call.then = "choose" => a.call.id \in Creds)
  BY <1>0, <1>1 DEF IsAnswer, IsCall
<1>3. Grows(calls, calls', {})
  BY <1>0, GrowsNot DEF Typed, PickersTypes, WireTypes
<1>4. p \in [value : Creds \cup {Nil}, options : SUBSET Creds] /\ p.options = a.ret
  BY <1>2 DEF Typed, PickersTypes, WindowTypes
<1>5. ASSUME NEW q \in [value : Creds \cup {Nil}, options : SUBSET Creds], NEW id, q.options = a.ret
      PROVE  /\ Shown(q, id) \in [value : Creds \cup {Nil}, options : SUBSET Creds] 
             /\ Shown(q, id).options = a.ret /\ Shown(q, id).value \in a.ret \cup {Nil}
  BY <1>2, <1>5 DEF Shown
<1>6. hold \in [value : Creds \cup {Nil}, options : SUBSET Creds] /\ hold.options = a.ret /\ hold.value \in a.ret \cup {Nil}
  <2> HIDE DEF p, a
  <2>1. QED
    BY <1>4, <1>5
<1>7. \E q \in [value : Creds \cup {Nil}, options : SUBSET Creds] :
         q.options = a.ret /\ q.value \in a.ret \cup {Nil} /\ picker' = [picker EXCEPT ![f] = q]
  <2>1. \E q : picker' = [picker EXCEPT ![f] = q] /\ (q = hold \/ \E id : q = Shown(hold, id))
    BY DEF CredsListed
  <2> HIDE DEF hold, p, a, f
  <2>2. QED
    BY <1>5, <1>6, <2>1
<1>8. PICK q \in [value : Creds \cup {Nil}, options : SUBSET Creds] :
         q.options = a.ret /\ q.value \in a.ret \cup {Nil} /\ picker' = [picker EXCEPT ![f] = q]
  BY <1>7
<1>9. /\ picker' \in [Forms -> [value : Creds \cup {Nil}, options : SUBSET Creds]]
      /\ picker'[f] = q /\ \A g \in Forms : g # f => picker'[g] = picker[g]
  <2> HIDE DEF a, f
  <2>1. QED
    BY <1>2, <1>8 DEF Typed, PickersTypes, WindowTypes
<1>10. \E id \in Creds \cup {Nil} :
         /\ \/ UNCHANGED <<hostDlg, wants>>
            \/ hostDlg' = [hostDlg EXCEPT !.open = TRUE] /\ wants' = wants /\ f = "host"
            \/ Tell(f, id)
  <2>1. q.value \in Creds \cup {Nil}
    OBVIOUS
  <2>2. picker'[f].value = q.value
    BY <1>9
  <2>3. \/ UNCHANGED <<hostDlg, wants>>
        \/ hostDlg' = [hostDlg EXCEPT !.open = TRUE] /\ wants' = wants /\ a.call.then = "open"
        \/ Tell(f, picker'[f].value)
    BY DEF CredsListed
  <2>4. QED
    BY <1>2, <2>1, <2>2, <2>3
<1> HIDE DEF a, f, p, hold
<1>11. /\ hostDlg' \in [open : BOOLEAN, id : Hosts \cup {Nil}, cred : Creds \cup {Nil}, saving : BOOLEAN]
       /\ wants' \in [cred : [Forms -> Creds \cup {Nil}], hosts : SUBSET Hosts]
       /\ hostDlg'.open => hostDlg.open \/ f = "host"
  <2>1. PICK id \in Creds \cup {Nil} :
            \/ UNCHANGED <<hostDlg, wants>>
            \/ hostDlg' = [hostDlg EXCEPT !.open = TRUE] /\ wants' = wants /\ f = "host"
            \/ Tell(f, id)
    BY <1>10
  <2>2. CASE UNCHANGED <<hostDlg, wants>>
    BY <2>2 DEF Typed, PickersTypes, WindowTypes
  <2>3. CASE hostDlg' = [hostDlg EXCEPT !.open = TRUE] /\ wants' = wants /\ f = "host"
    BY <2>3 DEF Typed, PickersTypes, WindowTypes
  <2>4. CASE Tell(f, id)
    <3> DEFINE w == [wants.cred EXCEPT ![f] = id]
    <3>1. w \in [Forms -> Creds \cup {Nil}]
      BY DEF Typed, PickersTypes, WindowTypes
    <3>2. wants' = [wants EXCEPT !.cred = w]
          /\ (hostDlg' = hostDlg \/ hostDlg' = [hostDlg EXCEPT !.cred = id])
      BY <2>4 DEF Tell, Typed, PickersTypes, WindowTypes
    <3> HIDE DEF w
    <3>3. wants' \in [cred : [Forms -> Creds \cup {Nil}], hosts : SUBSET Hosts]
      BY <3>1, <3>2 DEF Typed, PickersTypes, WindowTypes
    <3>4. QED
      BY <3>2, <3>3 DEF Typed, PickersTypes, WindowTypes
  <2>5. QED
    BY <2>1, <2>2, <2>3, <2>4
<1>12. WindowTypes'
  BY <1>0, <1>8, <1>9, <1>11 DEF Typed, PickersTypes, WindowTypes
<1>13. \A g \in Forms : picker'[g].options = IF f = g THEN a.ret ELSE picker[g].options
  BY <1>2, <1>8, <1>9
<1>14. TakeStep({})
  BY <1>0, <1>3, <1>11, <1>13 DEF TakeStep, Changes, a, f
<1>15. QED
  BY <1>12, <1>14

LEMMA TakeCred ==
  ASSUME Typed, CredGot
  PROVE  TakeStep({}) /\ WindowTypes'
<1> DEFINE a == Head(answers)
           f == a.call.f
<1>0. answers # <<>> /\ a.call.op = "cred" /\ calls' = calls /\ answers' = Tail(answers)
      /\ UNCHANGED <<credStore, hostStore, spent, picker, chain, hostDlg, wants>>
      /\ (crossed => crossed') /\ crossed' \in BOOLEAN
  BY DEF CredGot, Answer, stored, Typed, PickersTypes, WindowTypes
<1>1. IsAnswer(a) /\ AnswerKnown(a)
  BY <1>0, HeadIs
<1>2. f \in Forms /\ a.ret \in Secrets \cup {Nil} /\ a.call.id \in Creds
  BY <1>0, <1>1 DEF IsAnswer, IsCall
<1>3. Grows(calls, calls', {})
  BY <1>0, GrowsNot DEF Typed, PickersTypes, WireTypes
<1> DEFINE d == LoadedCred(credDlg[f], a.call.id, a.ret)
<1>4. credDlg[f] \in Editors
  BY <1>2 DEF Typed, PickersTypes, WindowTypes
<1>5. d \in Editors /\ d.typed = "none"
  <2> HIDE DEF f, a
  <2>1. a.call.id \in Creds \cup {Nil}
    BY <1>2
  <2>2. QED
    BY <1>2, <1>4, <2>1, LoadedIs
<1>6. credDlg' = credDlg \/ credDlg' = [credDlg EXCEPT ![f] = d]
  BY DEF CredGot
<1> HIDE DEF d
<1>7. credDlg' \in [Forms -> Editors] /\ \A g \in Forms : credDlg'[g].typed \in {"none", credDlg'[g].auth}
  BY <1>2, <1>5, <1>6 DEF Typed, PickersTypes, WindowTypes
<1>8. WindowTypes'
  BY <1>0, <1>7 DEF Typed, PickersTypes, WindowTypes
<1>9. TakeStep({})
  BY <1>0, <1>3 DEF TakeStep, Changes
<1>10. QED
  BY <1>8, <1>9

LEMMA TakeSavedCred ==
  ASSUME Typed, CredSaved
  PROVE  \E A : TakeStep(A) /\ WindowTypes'
<1> DEFINE a == Head(answers)
           f == a.call.f
<1>0. answers # <<>> /\ a.call.op = "save cred" /\ answers' = Tail(answers)
  BY DEF CredSaved, Answer, Taken
<1>1. calls' = calls \o (IF a.ret = Nil THEN <<>> ELSE ChooseSaved(f, a.ret))
  BY DEF CredSaved, Taken
<1>2. credDlg' = [credDlg EXCEPT ![f].saving = FALSE, ![f].open = @ /\ a.ret = Nil]
  BY DEF CredSaved
<1>3. wants' = IF a.ret = Nil THEN wants ELSE [wants EXCEPT !.cred[f] = a.ret]
  BY DEF CredSaved
<1>4. UNCHANGED <<credStore, hostStore, spent, picker, chain, hostDlg, crossed>>
  BY DEF CredSaved, Taken, stored
<1>5. IsAnswer(a) /\ AnswerKnown(a)
  BY <1>0, HeadIs
<1>6. f \in Forms /\ a.ret \in Creds \cup {Nil} /\ KnownCred(a.ret)
  BY <1>0, <1>5 DEF IsAnswer, IsCall, AnswerKnown
<1> HIDE DEF f, a
<1> DEFINE c1 == [op |-> "creds", f |-> "outer", then |-> "keep"]
           c2 == [op |-> "creds", f |-> "host", then |-> "keep"]
           c3 == [op |-> "creds", f |-> f, then |-> "choose", id |-> a.ret]
<1>7. ChooseSaved(f, a.ret) = <<c1, c2, c3>>
  <2>1. ChooseSaved(f, a.ret) = Append(<<c1, c2>>, c3)
    BY DEF ChooseSaved, CredsChanged
  <2> HIDE DEF c1, c2, c3
  <2>2. QED
    BY <2>1, Lists3
<1>8. TakeAsk(a, c1) /\ TakeAsk(a, c2)
  BY DEF TakeAsk, IsCall, CallKnown, Joining, Forms
<1>9. a.ret # Nil => TakeAsk(a, c3)
  BY <1>6 DEF TakeAsk, IsCall, CallKnown, Joining, Forms
<1>10. c1.op = "creds" /\ c1.f = "outer" /\ c2.op = "creds" /\ c2.f = "host"
  OBVIOUS
<1> HIDE DEF c1, c2, c3
<1>11. \E A : /\ Grows(calls, calls', A) /\ \A c \in A : TakeAsk(a, c)
              /\ a.ret # Nil => \A g \in Forms : \E c \in A : c.op = "creds" /\ c.f = g
  <2>1. CASE a.ret = Nil
    <3>1. Grows(calls, calls', {})
      BY <1>1, <2>1, GrowsNot DEF Typed, PickersTypes, WireTypes
    <3>2. QED
      BY <2>1, <3>1
  <2>2. CASE a.ret # Nil
    <3>1. \A g \in Forms : \E c \in {c1, c2, c3} : c.op = "creds" /\ c.f = g
      BY <1>10 DEF Forms
    <3>2. calls' = calls \o <<c1, c2, c3>>
      BY <1>1, <1>7, <2>2
    <3>3. Grows(calls, calls', {c1, c2, c3})
      <4>1. <<c1, c2, c3>> \in Seq({c1, c2, c3}) /\ ToSet(<<c1, c2, c3>>) = {c1, c2, c3}
        BY Threes
      <4>2. calls \in Seq(ToSet(calls))
        BY DEF Typed, PickersTypes, WireTypes
      <4>3. Grows(calls, calls \o <<c1, c2, c3>>, {c1, c2, c3})
        BY <4>1, <4>2, GrowsAll
      <4>4. QED
        BY <3>2, <4>3
    <3>4. QED
      BY <1>8, <1>9, <2>2, <3>1, <3>3
  <2>3. QED
    BY <2>1, <2>2
<1>12. WindowTypes'
  <2> DEFINE w == [wants.cred EXCEPT ![f] = a.ret]
             e == credDlg[f]
             d == [e EXCEPT !.saving = FALSE, !.open = e.open /\ a.ret = Nil]
  <2>1. w \in [Forms -> Creds \cup {Nil}]
    BY <1>6 DEF Typed, PickersTypes, WindowTypes
  <2>2. e \in Editors /\ e.typed \in {"none", e.auth}
    BY <1>6 DEF Typed, PickersTypes, WindowTypes
  <2>3. credDlg \in [Forms -> Editors]
    BY DEF Typed, PickersTypes, WindowTypes
  <2>4. credDlg' = [credDlg EXCEPT ![f] = d]
    BY <1>2, <1>6, <2>3 DEF Editors
  <2>5. wants' = wants \/ wants' = [wants EXCEPT !.cred = w]
    BY <1>3, <1>6
  <2> HIDE DEF w, e
  <2>6. d \in Editors /\ d.typed \in {"none", d.auth}
    BY <2>2 DEF Editors
  <2> HIDE DEF d
  <2>7. credDlg' \in [Forms -> Editors] /\ \A g \in Forms : credDlg'[g].typed \in {"none", credDlg'[g].auth}
    BY <1>6, <2>6, <2>4 DEF Typed, PickersTypes, WindowTypes
  <2>8. wants' \in [cred : [Forms -> Creds \cup {Nil}], hosts : SUBSET Hosts]
    BY <2>1, <2>5 DEF Typed, PickersTypes, WindowTypes
  <2>9. QED
    BY <1>4, <2>7, <2>8 DEF Typed, PickersTypes, WindowTypes
<1>13. QED
  <2>1. PICK A : /\ Grows(calls, calls', A) /\ \A c \in A : TakeAsk(a, c)
                 /\ a.ret # Nil => \A g \in Forms : \E c \in A : c.op = "creds" /\ c.f = g
    BY <1>11
  <2>2. TakeStep(A)
    BY <1>0, <1>4, <2>1 DEF TakeStep, Changes, a
  <2>3. QED
    BY <1>12, <2>2

LEMMA TakeDroppedCred ==
  ASSUME Typed, CredDropped
  PROVE  \E A : TakeStep(A) /\ WindowTypes'
<1> DEFINE a == Head(answers)
           c1 == [op |-> "creds", f |-> "outer", then |-> "keep"]
           c2 == [op |-> "creds", f |-> "host", then |-> "keep"]
<1>0. answers # <<>> /\ a.call.op = "drop cred" /\ answers' = Tail(answers)
  BY DEF CredDropped, Answer, Taken
<1>1. calls' = calls \o (IF a.ret = Nil THEN <<>> ELSE <<c1, c2>>)
  BY DEF CredDropped, Taken, CredsChanged
<1>2. UNCHANGED <<credStore, hostStore, spent, picker, chain, credDlg, hostDlg, wants, crossed>>
  BY DEF CredDropped, Taken, stored
<1> HIDE DEF a
<1>3. TakeAsk(a, c1) /\ TakeAsk(a, c2)
  BY DEF TakeAsk, IsCall, CallKnown, Joining, Forms
<1>4. c1.op = "creds" /\ c1.f = "outer" /\ c2.op = "creds" /\ c2.f = "host"
  OBVIOUS
<1> HIDE DEF c1, c2
<1>5. PICK A : /\ Grows(calls, calls', A) /\ \A c \in A : TakeAsk(a, c)
               /\ a.ret # Nil => \A g \in Forms : \E c \in A : c.op = "creds" /\ c.f = g
  <2>1. CASE a.ret = Nil
    <3>1. Grows(calls, calls', {})
      BY <1>1, <2>1, GrowsNot DEF Typed, PickersTypes, WireTypes
    <3>2. QED
      BY <2>1, <3>1
  <2>2. CASE a.ret # Nil
    <3>1. \A g \in Forms : \E c \in {c1, c2} : c.op = "creds" /\ c.f = g
      BY <1>4 DEF Forms
    <3>2. Grows(calls, calls', {c1, c2})
      BY <1>1, <2>2, Lists3, GrowsAll DEF Typed, PickersTypes, WireTypes
    <3>3. QED
      BY <1>3, <3>1, <3>2
  <2>3. QED
    BY <2>1, <2>2
<1>6. WindowTypes'
  BY <1>2 DEF Typed, PickersTypes, WindowTypes
<1>7. TakeStep(A)
  BY <1>0, <1>2, <1>5 DEF TakeStep, Changes, a
<1>8. QED
  BY <1>6, <1>7

LEMMA TakeHosts ==
  ASSUME Typed, HostsListed
  PROVE  TakeStep({}) /\ WindowTypes'
<1> DEFINE a == Head(answers)
           hold == Only(chain.ids, a.ret)
           joins == a.call.then = "joins" /\ a.call.id \notin ToSet(hold)
           next == IF joins THEN Append(hold, a.call.id) ELSE hold
           focus == IF a.call.then # "keep" /\ a.call.id \in a.ret THEN a.call.id
                    ELSE IF chain.focus \in a.ret THEN chain.focus ELSE Nil
           w == IF joins THEN wants.hosts \cup {a.call.id} ELSE wants.hosts
<1>0. answers # <<>> /\ a.call.op = "hosts" /\ answers' = Tail(answers)
  BY DEF HostsListed, Answer, Taken
<1>1. calls' = calls \o <<>>
  BY DEF HostsListed, Taken
<1>2. chain' = [chain EXCEPT !.known = a.ret, !.ids = next, !.focus = focus]
  BY DEF HostsListed
<1>3. wants' = [wants EXCEPT !.hosts = w]
  BY DEF HostsListed
<1>4. UNCHANGED <<credStore, hostStore, spent, picker, credDlg, hostDlg, crossed>>
  BY DEF HostsListed, Taken, stored
<1>5. IsAnswer(a) /\ AnswerKnown(a)
  BY <1>0, HeadIs
<1> HIDE DEF a
<1>6. a.ret \subseteq Hosts /\ a.call.then \in {"keep", "joins", "focus"}
      /\ (a.call.then # "keep" => a.call.id \in Hosts)
  BY <1>0, <1>5 DEF IsAnswer, IsCall
<1>7. hold \in Seq(Hosts)
  <2>1. chain.ids \in Seq(Hosts)
    BY DEF Typed, PickersTypes, WindowTypes
  <2>2. Only(chain.ids, a.ret) \in Seq(Hosts \cap a.ret)
    BY <2>1, OnlyIs
  <2>3. QED
    BY <2>2
<1> HIDE DEF hold
<1>8. next \in Seq(Hosts) /\ w \in SUBSET Hosts
  BY <1>6, <1>7 DEF Typed, PickersTypes, WindowTypes
<1>9. focus \in Hosts \cup {Nil}
  BY <1>6
<1> HIDE DEF next, w, focus
<1>10. WindowTypes'
  <2>1. wants' \in [cred : [Forms -> Creds \cup {Nil}], hosts : SUBSET Hosts]
    BY <1>3, <1>8 DEF Typed, PickersTypes, WindowTypes
  <2>2. chain' \in [ids : Seq(Hosts), known : SUBSET Hosts, focus : Hosts \cup {Nil}, creating : BOOLEAN]
    BY <1>2, <1>6, <1>8, <1>9 DEF Typed, PickersTypes, WindowTypes
  <2>3. QED
    BY <1>4, <2>1, <2>2 DEF Typed, PickersTypes, WindowTypes
<1>11. chain'.known = a.ret
  BY <1>2 DEF Typed, PickersTypes, WindowTypes
<1>12. Grows(calls, calls', {})
  BY <1>1, GrowsNot DEF Typed, PickersTypes, WireTypes
<1>13. TakeStep({})
  BY <1>0, <1>4, <1>11, <1>12 DEF TakeStep, Changes, a
<1>14. QED
  BY <1>10, <1>13

LEMMA TakeHost ==
  ASSUME Typed, HostGot
  PROVE  \E A : TakeStep(A) /\ WindowTypes'
<1> DEFINE a == Head(answers)
           c == [op |-> "creds", f |-> "host", then |-> "open"]
<1>0. answers # <<>> /\ a.call.op = "host" /\ answers' = Tail(answers)
  BY DEF HostGot, Answer, Taken
<1>1. UNCHANGED <<credStore, hostStore, spent, picker, credDlg>> /\ (crossed => crossed') /\ crossed' \in BOOLEAN
  BY DEF HostGot, Taken, stored, Typed, PickersTypes, WindowTypes
<1>2. \/ calls' = calls \o <<>> /\ UNCHANGED <<chain, hostDlg, wants>>
      \/ calls' = Append(calls, c) /\ chain' = [chain EXCEPT !.creating = FALSE] /\ LoadHost(a.call.id, a.ret)
  BY DEF HostGot, Taken
<1>3. IsAnswer(a) /\ AnswerKnown(a)
  BY <1>0, HeadIs
<1> HIDE DEF a
<1>4. a.ret \in Creds \cup {Nil} /\ a.call.id \in Hosts
  BY <1>0, <1>3 DEF IsAnswer, IsCall
<1>5. TakeAsk(a, c)
  BY DEF TakeAsk, IsCall, CallKnown, Joining, Forms
<1> HIDE DEF c
<1>6. PICK A : Grows(calls, calls', A) /\ A \subseteq {c}
  <2>1. calls \in Seq(ToSet(calls))
    BY DEF Typed, PickersTypes, WireTypes
  <2>2. Grows(calls, calls \o <<>>, {}) /\ Grows(calls, Append(calls, c), {c})
    BY <2>1, GrowsNot, GrowsOne
  <2>3. CASE calls' = calls \o <<>>
    BY <2>2, <2>3
  <2>4. CASE calls' = Append(calls, c)
    BY <2>2, <2>4
  <2>5. QED
    BY <1>2, <2>3, <2>4
<1>7. /\ hostDlg' \in [open : BOOLEAN, id : Hosts \cup {Nil}, cred : Creds \cup {Nil}, saving : BOOLEAN]
      /\ hostDlg'.open = hostDlg.open
      /\ wants' \in [cred : [Forms -> Creds \cup {Nil}], hosts : SUBSET Hosts]
      /\ chain' \in [ids : Seq(Hosts), known : SUBSET Hosts, focus : Hosts \cup {Nil}, creating : BOOLEAN]
      /\ chain'.known = chain.known
  <2>1. CASE UNCHANGED <<chain, hostDlg, wants>>
    BY <2>1 DEF Typed, PickersTypes, WindowTypes
  <2>2. CASE chain' = [chain EXCEPT !.creating = FALSE] /\ LoadHost(a.call.id, a.ret)
    BY <1>4, <2>2 DEF Typed, PickersTypes, WindowTypes, LoadHost, Forms
  <2>3. QED
    BY <1>2, <2>1, <2>2
<1>8. WindowTypes'
  BY <1>1, <1>7 DEF Typed, PickersTypes, WindowTypes
<1>9. TakeStep(A)
  BY <1>0, <1>1, <1>5, <1>6, <1>7 DEF TakeStep, Changes, a
<1>10. QED
  BY <1>8, <1>9

LEMMA TakeSavedHost ==
  ASSUME Typed, HostSaved
  PROVE  \E A : TakeStep(A) /\ WindowTypes'
<1> DEFINE a == Head(answers)
           c1 == [op |-> "hosts", then |-> "keep"]
           c2 == [op |-> "hosts", id |-> a.ret, then |-> IF chain.creating THEN "joins" ELSE "focus"]
<1>0. answers # <<>> /\ a.call.op = "save host" /\ answers' = Tail(answers)
  BY DEF HostSaved, Answer, Taken
<1>1. calls' = calls \o (IF a.ret = Nil THEN <<>> ELSE <<c1, c2>>)
  BY DEF HostSaved, Taken
<1>2. UNCHANGED <<credStore, hostStore, spent, picker, chain, credDlg, wants, crossed>>
  BY DEF HostSaved, Taken, stored
<1>3. hostDlg' = [hostDlg EXCEPT !.saving = FALSE, !.open = @ /\ a.ret = Nil]
  BY DEF HostSaved
<1>4. IsAnswer(a) /\ AnswerKnown(a)
  BY <1>0, HeadIs
<1> HIDE DEF a
<1>5. a.ret \in Hosts \cup {Nil} /\ KnownHost(a.ret)
  BY <1>0, <1>4 DEF IsAnswer, IsCall, AnswerKnown
<1>6. a.ret # Nil => TakeAsk(a, c1) /\ TakeAsk(a, c2)
  BY <1>0, <1>5 DEF TakeAsk, IsCall, CallKnown, Joining, Forms
<1>7. c1.op = "hosts"
  OBVIOUS
<1> HIDE DEF c1, c2
<1>8. PICK A : /\ Grows(calls, calls', A) /\ \A c \in A : TakeAsk(a, c)
               /\ a.ret # Nil => \E c \in A : c.op = "hosts"
  <2>1. CASE a.ret = Nil
    <3>1. Grows(calls, calls', {})
      BY <1>1, <2>1, GrowsNot DEF Typed, PickersTypes, WireTypes
    <3>2. QED
      BY <2>1, <3>1
  <2>2. CASE a.ret # Nil
    <3>1. Grows(calls, calls', {c1, c2})
      BY <1>1, <2>2, Lists3, GrowsAll DEF Typed, PickersTypes, WireTypes
    <3>2. QED
      BY <1>6, <1>7, <2>2, <3>1
  <2>3. QED
    BY <2>1, <2>2
<1>9. /\ hostDlg' \in [open : BOOLEAN, id : Hosts \cup {Nil}, cred : Creds \cup {Nil}, saving : BOOLEAN]
      /\ hostDlg'.open => hostDlg.open
  BY <1>3 DEF Typed, PickersTypes, WindowTypes
<1>10. WindowTypes'
  BY <1>2, <1>9 DEF Typed, PickersTypes, WindowTypes
<1>11. TakeStep(A)
  BY <1>0, <1>2, <1>8, <1>9 DEF TakeStep, Changes, a
<1>12. QED
  BY <1>10, <1>11

LEMMA TakeDroppedHost ==
  ASSUME Typed, HostDropped
  PROVE  \E A : TakeStep(A) /\ WindowTypes'
<1> DEFINE a == Head(answers)
           c1 == [op |-> "hosts", then |-> "keep"]
<1>0. answers # <<>> /\ a.call.op = "drop host" /\ answers' = Tail(answers)
  BY DEF HostDropped, Answer, Taken
<1>1. calls' = calls \o (IF a.ret = Nil THEN <<>> ELSE <<c1>>)
  BY DEF HostDropped, Taken
<1>2. UNCHANGED <<credStore, hostStore, spent, picker, chain, credDlg, hostDlg, wants, crossed>>
  BY DEF HostDropped, Taken, stored
<1> HIDE DEF a
<1>3. TakeAsk(a, c1) /\ c1.op = "hosts"
  BY DEF TakeAsk, IsCall, CallKnown, Joining, Forms
<1> HIDE DEF c1
<1>4. PICK A : /\ Grows(calls, calls', A) /\ \A c \in A : TakeAsk(a, c)
               /\ a.ret # Nil => \E c \in A : c.op = "hosts"
  <2>1. CASE a.ret = Nil
    <3>1. Grows(calls, calls', {})
      BY <1>1, <2>1, GrowsNot DEF Typed, PickersTypes, WireTypes
    <3>2. QED
      BY <2>1, <3>1
  <2>2. CASE a.ret # Nil
    <3>1. Grows(calls, calls', {c1})
      BY <1>1, <2>2, Lists3, GrowsAll DEF Typed, PickersTypes, WireTypes
    <3>2. QED
      BY <1>3, <2>2, <3>1
  <2>3. QED
    BY <2>1, <2>2
<1>5. WindowTypes'
  BY <1>2 DEF Typed, PickersTypes, WindowTypes
<1>6. TakeStep(A)
  BY <1>0, <1>2, <1>4 DEF TakeStep, Changes, a
<1>7. QED
  BY <1>5, <1>6

-----------------------------------------------------------------------------
\* What the main process does with the call c, and its answer.
Looks(c, ret) ==
  /\ credStore' = credStore /\ hostStore' = hostStore /\ spent' = spent
  /\ \/ c.op = "creds" /\ ret = Present(credStore)
     \/ c.op = "hosts" /\ ret = Present(hostStore)
     \/ c.op = "cred" /\ ret = credStore[c.id]
     \/ c.op = "host" /\ ret = hostStore[c.id]
Refuses(c, ret) ==
  /\ credStore' = credStore /\ hostStore' = hostStore /\ spent' = spent
  /\ c.op \in {"save cred", "drop cred", "save host", "drop host"} /\ ret = Nil
SavesCredAs(c, ret) ==
  /\ c.op = "save cred" /\ ret \in Creds
  /\ \/ c.id = Nil /\ credStore[ret] = Nil /\ ret \notin spent
     \/ c.id = ret /\ credStore[ret] # Nil
  /\ credStore' = [credStore EXCEPT ![ret] = [auth |-> c.auth, secret |-> SecretFor(c, credStore[ret])]]
  /\ hostStore' = hostStore /\ spent' = spent
SavesHostAs(c, ret) ==
  /\ c.op = "save host" /\ ret \in Hosts
  /\ \/ c.id = Nil /\ hostStore[ret] = Nil /\ ret \notin spent
     \/ c.id = ret /\ hostStore[ret] # Nil
  /\ hostStore' = [hostStore EXCEPT ![ret] = c.cred]
  /\ credStore' = credStore /\ spent' = spent
DropsCred(c, ret) ==
  /\ c.op = "drop cred" /\ ret = c.id /\ credStore[ret] # Nil
  /\ credStore' = [credStore EXCEPT ![ret] = Nil] /\ spent' = spent \cup {ret}
  /\ hostStore' = hostStore
DropsHost(c, ret) ==
  /\ c.op = "drop host" /\ ret = c.id /\ hostStore[ret] # Nil
  /\ hostStore' = [hostStore EXCEPT ![ret] = Nil] /\ spent' = spent \cup {ret}
  /\ credStore' = credStore

ServeStep(ret) ==
  LET c == Head(calls)
  IN  /\ calls # <<>> /\ calls' = Tail(calls)
      /\ answers' = Append(answers, [call |-> c, ret |-> ret])
      /\ UNCHANGED <<picker, chain, credDlg, hostDlg, wants, crossed>>
      /\ \/ Looks(c, ret) \/ Refuses(c, ret) \/ SavesCredAs(c, ret) \/ SavesHostAs(c, ret)
         \/ DropsCred(c, ret) \/ DropsHost(c, ret)

LEMMA CallIs ==
  ASSUME Typed, calls # <<>>
  PROVE  IsCall(Head(calls)) /\ CallKnown(Head(calls)) /\ Head(calls) \in ToSet(calls)
BY Unqueued DEF Typed, PickersTypes, WireTypes, IdsKnown, WireKnown

LEMMA ServesRead ==
  ASSUME Typed, ServeRead PROVE \E ret : ServeStep(ret)
<1> DEFINE c == Head(calls)
<1>1. calls # <<>> /\ UNCHANGED stored
  BY DEF ServeRead
<1>2. \/ c.op = "creds" /\ Answered(Present(credStore))
      \/ c.op = "hosts" /\ Answered(Present(hostStore))
      \/ c.op = "cred" /\ Answered(credStore[c.id])
      \/ c.op = "host" /\ Answered(hostStore[c.id])
  BY DEF ServeRead
<1>3. PICK ret : Answered(ret) /\ \/ c.op = "creds" /\ ret = Present(credStore)
                                  \/ c.op = "hosts" /\ ret = Present(hostStore)
                                  \/ c.op = "cred" /\ ret = credStore[c.id]
                                  \/ c.op = "host" /\ ret = hostStore[c.id]
  BY <1>2
<1>4. Looks(c, ret)
  BY <1>1, <1>3 DEF Looks, stored
<1>5. ServeStep(ret)
  BY <1>1, <1>3, <1>4 DEF ServeStep, Answered
<1>6. QED
  BY <1>5

LEMMA ServesSaveCred ==
  ASSUME Typed, ServeSaveCred PROVE \E ret : ServeStep(ret)
<1> DEFINE c == Head(calls)
<1>1. calls # <<>> /\ c.op = "save cred" /\ UNCHANGED <<hostStore, spent>>
  BY DEF ServeSaveCred, Asked
<1>2. \/ \E id \in SaveTargets(credStore, c.id) :
           /\ credStore' = [credStore EXCEPT ![id] =
                              [auth |-> c.auth, secret |-> SecretFor(c, credStore[id])]]
           /\ Answered(id)
      \/ UNCHANGED credStore /\ Answered(Nil)
  BY DEF ServeSaveCred
<1>3. \A id \in SaveTargets(credStore, c.id) :
        id \in Creds /\ \/ c.id = Nil /\ credStore[id] = Nil /\ id \notin spent
                        \/ c.id = id /\ credStore[id] # Nil
  BY DEF SaveTargets, Present, Typed, PickersTypes, StoreTypes
<1> HIDE DEF c
<1>4. CASE UNCHANGED credStore /\ Answered(Nil)
  <2>1. Refuses(c, Nil)
    BY <1>1, <1>4 DEF Refuses
  <2>2. ServeStep(Nil)
    BY <1>1, <1>4, <2>1 DEF ServeStep, Answered, c
  <2>3. QED
    BY <2>2
<1>5. ASSUME NEW id \in SaveTargets(credStore, c.id), Answered(id),
             credStore' = [credStore EXCEPT ![id] = [auth |-> c.auth, secret |-> SecretFor(c, credStore[id])]]
      PROVE  ServeStep(id)
  <2>1. SavesCredAs(c, id)
    BY <1>1, <1>3, <1>5 DEF SavesCredAs
  <2>2. QED
    BY <1>1, <1>5, <2>1 DEF ServeStep, Answered, c
<1>6. QED
  BY <1>2, <1>4, <1>5

LEMMA ServesSaveHost ==
  ASSUME Typed, ServeSaveHost PROVE \E ret : ServeStep(ret)
<1> DEFINE c == Head(calls)
<1>1. calls # <<>> /\ c.op = "save host" /\ UNCHANGED <<credStore, spent>>
  BY DEF ServeSaveHost, Asked
<1>2. \/ \E id \in SaveTargets(hostStore, c.id) :
           hostStore' = [hostStore EXCEPT ![id] = c.cred] /\ Answered(id)
      \/ UNCHANGED hostStore /\ Answered(Nil)
  BY DEF ServeSaveHost
<1>3. \A id \in SaveTargets(hostStore, c.id) :
        id \in Hosts /\ \/ c.id = Nil /\ hostStore[id] = Nil /\ id \notin spent
                        \/ c.id = id /\ hostStore[id] # Nil
  BY DEF SaveTargets, Present, Typed, PickersTypes, StoreTypes
<1> HIDE DEF c
<1>4. CASE UNCHANGED hostStore /\ Answered(Nil)
  <2>1. Refuses(c, Nil)
    BY <1>1, <1>4 DEF Refuses
  <2>2. ServeStep(Nil)
    BY <1>1, <1>4, <2>1 DEF ServeStep, Answered, c
  <2>3. QED
    BY <2>2
<1>5. ASSUME NEW id \in SaveTargets(hostStore, c.id), Answered(id), hostStore' = [hostStore EXCEPT ![id] = c.cred]
      PROVE  ServeStep(id)
  <2>1. SavesHostAs(c, id)
    BY <1>1, <1>3, <1>5 DEF SavesHostAs
  <2>2. QED
    BY <1>1, <1>5, <2>1 DEF ServeStep, Answered, c
<1>6. QED
  BY <1>2, <1>4, <1>5

LEMMA ServesDrop ==
  ASSUME Typed, ServeDrop PROVE \E ret : ServeStep(ret)
<1> DEFINE c == Head(calls)
<1>1. \/ DropsCred(c, c.id) /\ Answered(c.id) /\ calls # <<>>
      \/ DropsHost(c, c.id) /\ Answered(c.id) /\ calls # <<>>
      \/ Refuses(c, Nil) /\ Answered(Nil) /\ calls # <<>>
  BY DEF ServeDrop, DropsCred, DropsHost, Refuses, Asked, stored
<1>2. QED
  BY <1>1 DEF ServeStep, Answered

LEMMA PresentIs ==
  ASSUME StoreTypes
  PROVE  /\ \A x : x \in Present(credStore) <=> x \in Creds /\ credStore[x] # Nil
         /\ \A x : x \in Present(hostStore) <=> x \in Hosts /\ hostStore[x] # Nil
         /\ Present(credStore) \subseteq Creds /\ Present(hostStore) \subseteq Hosts
BY DEF StoreTypes, Present

LEMMA SecretIs ==
  ASSUME Typed, NEW c, IsCall(c), c.op = "save cred", NEW old \in Secrets \cup {Nil},
         old # Nil => old.secret \in {"none", old.auth} /\ (old.auth = "agent" => old.secret = "none")
  PROVE  LET new == [auth |-> c.auth, secret |-> SecretFor(c, old)]
         IN  /\ new \in Secrets /\ new.secret \in {"none", new.auth} /\ new # Nil
             /\ new.auth = "agent" => new.secret = "none"
<1>1. c.auth \in Kinds /\ c.typed \in {"none", c.auth} /\ (c.typed # "none" => c.auth # "agent")
  BY DEF IsCall, HoldsText
<1>2. old # Nil => old.auth \in Kinds /\ old.secret \in Kinds \cup {"none"}
  BY DEF Secrets
<1> DEFINE s == SecretFor(c, old)
<1>3. s \in {"none", c.auth} /\ (c.auth = "agent" => s = "none")
  BY <1>1, <1>2 DEF SecretFor
<1> HIDE DEF s
<1>4. [auth |-> c.auth, secret |-> s] \in Secrets
  BY <1>1, <1>3 DEF Secrets
<1>5. [auth |-> c.auth, secret |-> s] # Nil
  BY <1>4, PickersAssumption DEF Secrets
<1>6. QED
  BY <1>3, <1>4, <1>5 DEF s

LEMMA ServeStores ==
  ASSUME Typed, NEW ret, ServeStep(ret)
  PROVE  StoreTypes'
<1> DEFINE c == Head(calls)
<1>1. IsCall(c) /\ CallKnown(c)
  BY CallIs DEF ServeStep
<1>2. \/ Looks(c, ret) \/ Refuses(c, ret) \/ SavesCredAs(c, ret) \/ SavesHostAs(c, ret)
      \/ DropsCred(c, ret) \/ DropsHost(c, ret)
  BY DEF ServeStep
<1> HIDE DEF c
<1>3. StoreTypes
  BY DEF Typed, PickersTypes
<1>4. CASE Looks(c, ret) \/ Refuses(c, ret)
  BY <1>3, <1>4 DEF Looks, Refuses, StoreTypes
<1>5. CASE SavesCredAs(c, ret)
  <2> DEFINE new == [auth |-> c.auth, secret |-> SecretFor(c, credStore[ret])]
  <2>1. /\ credStore[ret] \in Secrets \cup {Nil} /\ ret \in Creds
        /\ credStore[ret] # Nil => credStore[ret].secret \in {"none", credStore[ret].auth}
                                   /\ (credStore[ret].auth = "agent" => credStore[ret].secret = "none")
    BY <1>3, <1>5 DEF StoreTypes, SavesCredAs
  <2>2. /\ new \in Secrets /\ new.secret \in {"none", new.auth}
        /\ new.auth = "agent" => new.secret = "none"
    BY <1>1, <1>5, <2>1, SecretIs DEF SavesCredAs
  <2>3. credStore' = [credStore EXCEPT ![ret] = new] /\ hostStore' = hostStore
    BY <1>5 DEF SavesCredAs
  <2> HIDE DEF new
  <2>4. QED
    BY <1>3, <2>1, <2>2, <2>3 DEF StoreTypes
<1>6. CASE SavesHostAs(c, ret)
  BY <1>1, <1>3, <1>6 DEF SavesHostAs, StoreTypes, IsCall
<1>7. CASE DropsCred(c, ret)
  BY <1>1, <1>3, <1>7 DEF DropsCred, StoreTypes, IsCall
<1>8. CASE DropsHost(c, ret)
  BY <1>1, <1>3, <1>8 DEF DropsHost, StoreTypes, IsCall
<1>9. QED
  BY <1>2, <1>4, <1>5, <1>6, <1>7, <1>8

\* What was known stays known, and what is gone stays away.
LEMMA ServeKnows ==
  ASSUME Typed, NEW ret, ServeStep(ret)
  PROVE  /\ \A x : KnownCred(x) => KnownCred(x)'
         /\ \A x : KnownHost(x) => KnownHost(x)'
         /\ \A x : KnownCred(x) /\ x \in Present(credStore)' => x \in Present(credStore)
         /\ \A x : KnownHost(x) /\ x \in Present(hostStore)' => x \in Present(hostStore)
<1> DEFINE c == Head(calls)
<1>1. IsCall(c) /\ CallKnown(c)
  BY CallIs DEF ServeStep
<1>2. \/ Looks(c, ret) \/ Refuses(c, ret) \/ SavesCredAs(c, ret) \/ SavesHostAs(c, ret)
      \/ DropsCred(c, ret) \/ DropsHost(c, ret)
  BY DEF ServeStep
<1>3. StoreTypes /\ StoreTypes'
  BY ServeStores DEF Typed, PickersTypes
<1>4. /\ \A x : x \in Present(credStore)' <=> x \in Creds /\ credStore'[x] # Nil
      /\ \A x : x \in Present(hostStore)' <=> x \in Hosts /\ hostStore'[x] # Nil
      /\ \A x : x \in Present(credStore) <=> x \in Creds /\ credStore[x] # Nil
      /\ \A x : x \in Present(hostStore) <=> x \in Hosts /\ hostStore[x] # Nil
  BY <1>3 DEF StoreTypes, Present
<1> HIDE DEF c
<1>5. CASE Looks(c, ret) \/ Refuses(c, ret)
  BY <1>4, <1>5 DEF Looks, Refuses, KnownCred, KnownHost
<1>6. CASE SavesCredAs(c, ret)
  <2>1. /\ ret \in Creds /\ ret # Nil /\ hostStore' = hostStore /\ spent' = spent
        /\ \A x \in Creds : x # ret => credStore'[x] = credStore[x]
        /\ credStore[ret] = Nil => ret \notin spent
        /\ credStore'[ret] # Nil
    <3>1. IsCall(c) /\ c.op = "save cred" /\ credStore[ret] \in Secrets \cup {Nil} /\ ret \in Creds
      BY <1>1, <1>3, <1>6 DEF SavesCredAs, StoreTypes
    <3>2. [auth |-> c.auth, secret |-> SecretFor(c, credStore[ret])] # Nil
      BY <1>3, <3>1, SecretIs DEF StoreTypes
    <3>3. QED
      BY <1>3, <1>6, <3>2, PickersAssumption DEF SavesCredAs, StoreTypes
  <2>2. QED
    BY <1>4, <2>1 DEF KnownCred, KnownHost
<1>7. CASE SavesHostAs(c, ret)
  <2>1. /\ ret \in Hosts /\ ret # Nil /\ credStore' = credStore /\ spent' = spent
        /\ \A x \in Hosts : x # ret => hostStore'[x] = hostStore[x]
        /\ hostStore[ret] = Nil => ret \notin spent
        /\ hostStore'[ret] # Nil
    BY <1>1, <1>3, <1>7, PickersAssumption DEF SavesHostAs, StoreTypes, IsCall
  <2>2. QED
    BY <1>4, <2>1 DEF KnownCred, KnownHost
<1>8. CASE DropsCred(c, ret)
  <2>1. /\ ret \in Creds /\ hostStore' = hostStore /\ spent' = spent \cup {ret}
        /\ \A x \in Creds : x # ret => credStore'[x] = credStore[x]
        /\ credStore'[ret] = Nil
    BY <1>1, <1>3, <1>8 DEF DropsCred, StoreTypes, IsCall
  <2>2. QED
    BY <1>4, <2>1 DEF KnownCred, KnownHost
<1>9. CASE DropsHost(c, ret)
  <2>1. /\ ret \in Hosts /\ credStore' = credStore /\ spent' = spent \cup {ret}
        /\ \A x \in Hosts : x # ret => hostStore'[x] = hostStore[x]
        /\ hostStore'[ret] = Nil
    BY <1>1, <1>3, <1>9 DEF DropsHost, StoreTypes, IsCall
  <2>2. QED
    BY <1>4, <2>1 DEF KnownCred, KnownHost
<1>10. QED
  BY <1>2, <1>5, <1>6, <1>7, <1>8, <1>9

LEMMA ServeAnswers ==
  ASSUME Typed, NEW ret, ServeStep(ret), NEW c, c = Head(calls), NEW a, a = [call |-> c, ret |-> ret]
  PROVE  IsAnswer(a) /\ AnswerKnown(a)'
<1>1. IsCall(c) /\ CallKnown(c)
  BY CallIs DEF ServeStep
<1>2. \/ Looks(c, ret) \/ Refuses(c, ret) \/ SavesCredAs(c, ret) \/ SavesHostAs(c, ret)
      \/ DropsCred(c, ret) \/ DropsHost(c, ret)
  BY DEF ServeStep
<1>3. StoreTypes /\ StoreTypes'
  BY ServeStores DEF Typed, PickersTypes
<1>4. CallKnown(c)'
  <2>1. (\A x : KnownCred(x) => KnownCred(x)') /\ (\A x : KnownHost(x) => KnownHost(x)')
    BY ServeKnows
  <2>2. QED
    BY <1>1, <2>1 DEF CallKnown
<1>5. a.call = c /\ a.ret = ret
  OBVIOUS
<1>15. CallKnown(a.call)'
  BY <1>4, <1>5 DEF CallKnown, KnownCred, KnownHost
<1>6. Present(credStore) \subseteq Creds /\ Present(hostStore) \subseteq Hosts
  BY <1>3, PresentIs
<1>7. IsAnswer(a)
  BY <1>1, <1>2, <1>3, <1>5, <1>6
  DEF IsAnswer, IsCall, Looks, Refuses, SavesCredAs, SavesHostAs, DropsCred, DropsHost, StoreTypes
<1>8. CASE Looks(c, ret)
  <2>1. /\ \A x \in Present(credStore) : KnownCred(x)
        /\ \A x \in Present(hostStore) : KnownHost(x)
        /\ \A h \in Hosts : KnownCred(hostStore[h])
    BY <1>3, PresentIs DEF KnownCred, KnownHost, Typed, IdsKnown, WindowKnown, WireKnown
  <2>2. /\ \A x \in Present(credStore) : KnownCred(x)'
        /\ \A x \in Present(hostStore) : KnownHost(x)'
        /\ \A h \in Hosts : KnownCred(hostStore[h])'
    BY <1>8, <2>1 DEF KnownCred, KnownHost, Looks
  <2>3. c.op = "host" => c.id \in Hosts
    BY <1>1 DEF IsCall
  <2>4. c.op = "host" => KnownCred(ret)'
    BY <1>8, <2>2, <2>3 DEF Looks, KnownCred
  <2>5. c.op \in {"creds", "hosts", "cred", "host"}
    BY <1>8 DEF Looks
  <2>6. QED
    BY <1>15, <1>7, <1>5, <1>8, <2>2, <2>4, <2>5 DEF AnswerKnown, Looks, KnownCred, KnownHost
<1>9. CASE Refuses(c, ret)
  BY <1>15, <1>7, <1>5, <1>9 DEF AnswerKnown, Refuses, KnownCred, KnownHost
<1>10. CASE SavesCredAs(c, ret)
  <2>1. KnownCred(ret)'
    <3>1. IsCall(c) /\ c.op = "save cred" /\ credStore[ret] \in Secrets \cup {Nil} /\ ret \in Creds
      BY <1>1, <1>3, <1>10 DEF SavesCredAs, StoreTypes
    <3>2. [auth |-> c.auth, secret |-> SecretFor(c, credStore[ret])] # Nil
      BY <1>3, <3>1, SecretIs DEF StoreTypes
    <3>3. QED
      BY <1>3, <1>10, <3>2 DEF SavesCredAs, StoreTypes, KnownCred
  <2>2. QED
    BY <1>15, <1>7, <1>5, <1>10, <2>1 DEF AnswerKnown, SavesCredAs, KnownCred, KnownHost
<1>11. CASE SavesHostAs(c, ret)
  <2>1. KnownHost(ret)'
    BY <1>1, <1>3, <1>11, PickersAssumption DEF SavesHostAs, StoreTypes, KnownHost, IsCall
  <2>2. QED
    BY <1>15, <1>7, <1>5, <1>11, <2>1 DEF AnswerKnown, SavesHostAs, KnownCred, KnownHost
<1>12. CASE DropsCred(c, ret)
  BY <1>15, <1>7, <1>5, <1>12 DEF AnswerKnown, DropsCred, KnownCred, KnownHost
<1>13. CASE DropsHost(c, ret)
  BY <1>15, <1>7, <1>5, <1>13 DEF AnswerKnown, DropsHost, KnownCred, KnownHost
<1>14. QED
  BY <1>2, <1>5, <1>7, <1>8, <1>9, <1>10, <1>11, <1>12, <1>13

LEMMA KnowsPickCred ==
  ASSUME Typed, NEW f \in Forms, NEW id \in Creds \cup {Nil}, PickCred(f, id)
  PROVE  WindowKnown'
BY DEF Typed, PickersTypes, WindowTypes, IdsKnown, WindowKnown, KnownCred, KnownHost,
       stored, PickCred, Tell, Forms

LEMMA KnowsAskEditCred ==
  ASSUME Typed, NEW f \in Forms, AskEditCred(f)
  PROVE  WindowKnown'
BY DEF Typed, PickersTypes, WindowTypes, IdsKnown, WindowKnown, KnownCred, KnownHost,
       stored, AskEditCred, Forms

LEMMA KnowsAskDeleteCred ==
  ASSUME Typed, NEW f \in Forms, AskDeleteCred(f)
  PROVE  WindowKnown'
BY DEF Typed, PickersTypes, WindowTypes, IdsKnown, WindowKnown, KnownCred, KnownHost,
       stored, AskDeleteCred, Forms

LEMMA KnowsNewCred ==
  ASSUME Typed, NEW f \in Forms, NewCred(f)
  PROVE  WindowKnown'
<1> DEFINE d == LoadedCred(credDlg[f], Nil, Nil)
<1>1. credDlg[f] \in Editors /\ Nil \in Creds \cup {Nil} /\ Nil \in Secrets \cup {Nil}
  BY DEF Typed, PickersTypes, WindowTypes
<1>2. d.id = Nil
  BY <1>1, LoadedIs
<1>3. credDlg' = [credDlg EXCEPT ![f] = d] /\ credDlg \in [Forms -> Editors]
  BY DEF NewCred, Typed, PickersTypes, WindowTypes
<1> HIDE DEF d
<1>4. \A g \in Forms : credDlg'[g].id \in {Nil, credDlg[g].id}
  BY <1>2, <1>3
<1>5. UNCHANGED <<picker, wants, hostDlg, chain, credStore, hostStore, spent>>
  BY DEF NewCred, stored
<1>6. QED
  BY <1>4, <1>5 DEF Typed, IdsKnown, WindowKnown, KnownCred, KnownHost

LEMMA KnowsChangeType ==
  ASSUME Typed, NEW f \in Forms, NEW auth \in Auths, ChangeType(f, auth)
  PROVE  WindowKnown'
BY DEF Typed, PickersTypes, WindowTypes, IdsKnown, WindowKnown, KnownCred, KnownHost,
       stored, ChangeType, WithAuth, Forms, Editors

LEMMA KnowsTypeSecret ==
  ASSUME Typed, NEW f \in Forms, TypeSecret(f)
  PROVE  WindowKnown'
BY DEF Typed, PickersTypes, WindowTypes, IdsKnown, WindowKnown, KnownCred, KnownHost,
       stored, TypeSecret, Forms, Editors

LEMMA KnowsSaveCredential ==
  ASSUME Typed, NEW f \in Forms, SaveCredential(f)
  PROVE  WindowKnown'
BY DEF Typed, PickersTypes, WindowTypes, IdsKnown, WindowKnown, KnownCred, KnownHost,
       stored, SaveCredential, Forms, Editors

LEMMA KnowsCancelCred ==
  ASSUME Typed, NEW f \in Forms, CancelCred(f)
  PROVE  WindowKnown'
BY DEF Typed, PickersTypes, WindowTypes, IdsKnown, WindowKnown, KnownCred, KnownHost,
       stored, CancelCred, Forms, Editors

LEMMA KnowsFocus ==
  ASSUME Typed, NEW h \in Hosts, Focus(h)
  PROVE  WindowKnown'
BY DEF Typed, PickersTypes, WindowTypes, IdsKnown, WindowKnown, KnownCred, KnownHost,
       stored, Focus, Forms

LEMMA KnowsAddHop ==
  ASSUME Typed, AddHop
  PROVE  WindowKnown'
BY DEF Typed, PickersTypes, WindowTypes, IdsKnown, WindowKnown, KnownCred, KnownHost,
       stored, AddHop, Forms

LEMMA KnowsRemoveHop ==
  ASSUME Typed, NEW k \in DOMAIN chain.ids, RemoveHop(k)
  PROVE  WindowKnown'
BY DEF Typed, PickersTypes, WindowTypes, IdsKnown, WindowKnown, KnownCred, KnownHost,
       stored, RemoveHop, Forms

LEMMA KnowsMoveHop ==
  ASSUME Typed, NEW k \in DOMAIN chain.ids, MoveHop(k)
  PROVE  WindowKnown'
BY DEF Typed, PickersTypes, WindowTypes, IdsKnown, WindowKnown, KnownCred, KnownHost,
       stored, MoveHop, Forms

LEMMA KnowsNewHost ==
  ASSUME Typed, NewHost
  PROVE  WindowKnown'
BY DEF Typed, PickersTypes, WindowTypes, IdsKnown, WindowKnown, KnownCred, KnownHost,
       stored, NewHost, LoadHost, Forms

LEMMA KnowsAskEditHost ==
  ASSUME Typed, AskEditHost
  PROVE  WindowKnown'
BY DEF Typed, PickersTypes, WindowTypes, IdsKnown, WindowKnown, KnownCred, KnownHost,
       stored, AskEditHost, Forms

LEMMA KnowsAskDeleteHost ==
  ASSUME Typed, AskDeleteHost
  PROVE  WindowKnown'
BY DEF Typed, PickersTypes, WindowTypes, IdsKnown, WindowKnown, KnownCred, KnownHost,
       stored, AskDeleteHost, Forms

LEMMA KnowsSaveHost ==
  ASSUME Typed, SaveHost
  PROVE  WindowKnown'
BY DEF Typed, PickersTypes, WindowTypes, IdsKnown, WindowKnown, KnownCred, KnownHost,
       stored, SaveHost, Forms

LEMMA KnowsCancelHost ==
  ASSUME Typed, CancelHost
  PROVE  WindowKnown'
BY DEF Typed, PickersTypes, WindowTypes, IdsKnown, WindowKnown, KnownCred, KnownHost,
       stored, CancelHost, Forms


-----------------------------------------------------------------------------
LEMMA CredsListedIs ==
  ASSUME Typed, CredsListed, NEW a, a = Head(answers), NEW f, f = a.call.f
  PROVE  /\ f \in Forms /\ a.call.op = "creds" /\ a.ret \subseteq Creds /\ answers # <<>>
         /\ a.call.then \in {"keep", "open", "choose"}
         /\ picker'[f].options = a.ret /\ \A g \in Forms : g # f => picker'[g] = picker[g]
         /\ a.call.then = "keep" =>
              /\ picker'[f].value = IF picker[f].value \in a.ret THEN picker[f].value ELSE Nil
              /\ UNCHANGED <<hostDlg, wants>>
         /\ a.call.then = "open" =>
              /\ f = "host" /\ hostDlg' = [hostDlg EXCEPT !.open = TRUE] /\ UNCHANGED wants
              /\ picker'[f].value = IF hostDlg.cred \in a.ret THEN hostDlg.cred ELSE Nil
         /\ a.call.then = "choose" =>
              /\ a.call.id \in Creds
              /\ picker'[f].value = IF a.call.id \in a.ret THEN a.call.id ELSE Nil
              /\ Tell(f, picker'[f].value)
<1>1. answers # <<>> /\ a.call.op = "creds"
  BY DEF CredsListed, Answer
<1>2. IsAnswer(a)
  BY <1>1, HeadIs
<1>3. f \in Forms /\ a.ret \subseteq Creds /\ a.call.then \in {"keep", "open", "choose"}
      /\ (a.call.then = "open" => f = "host") /\ (a.call.then = "choose" => a.call.id \in Creds)
  BY <1>1, <1>2 DEF IsAnswer, IsCall
<1> DEFINE P == [value : Creds \cup {Nil}, options : SUBSET Creds]
           p == [picker[f] EXCEPT !.options = a.ret]
           hold == Shown(p, p.value)
<1>4. picker \in [Forms -> P]
  BY DEF Typed, PickersTypes, WindowTypes
<1>5. p \in P /\ p.options = a.ret /\ p.value = picker[f].value
  BY <1>3, <1>4
<1>6. \/ a.call.then = "keep" /\ picker' = [picker EXCEPT ![f] = hold] /\ UNCHANGED <<hostDlg, wants>>
      \/ a.call.then = "open" /\ picker' = [picker EXCEPT ![f] = Shown(hold, hostDlg.cred)]
         /\ hostDlg' = [hostDlg EXCEPT !.open = TRUE] /\ UNCHANGED wants
      \/ a.call.then = "choose" /\ picker' = [picker EXCEPT ![f] = Shown(hold, a.call.id)]
         /\ Tell(f, picker'[f].value)
  BY DEF CredsListed
<1> HIDE DEF p
<1>7. hold \in P /\ hold.options = a.ret /\ hold.value = IF picker[f].value \in a.ret THEN picker[f].value ELSE Nil
  BY <1>3, <1>5 DEF Shown
<1> HIDE DEF hold
<1>8. ASSUME NEW id
      PROVE  /\ Shown(hold, id).options = a.ret
             /\ Shown(hold, id).value = IF id \in a.ret THEN id ELSE Nil
  BY <1>7 DEF Shown
<1>9. \A q : picker' = [picker EXCEPT ![f] = q] => picker'[f] = q /\ \A g \in Forms : g # f => picker'[g] = picker[g]
  BY <1>3, <1>4
<1>10. CASE a.call.then = "keep"
  BY <1>1, <1>3, <1>6, <1>7, <1>9, <1>10
<1>11. CASE a.call.then = "open"
  <2> DEFINE s == Shown(hold, hostDlg.cred)
  <2>1. s.options = a.ret /\ s.value = IF hostDlg.cred \in a.ret THEN hostDlg.cred ELSE Nil
    BY <1>8
  <2>2. picker' = [picker EXCEPT ![f] = s]
    BY <1>6, <1>11
  <2> HIDE DEF s
  <2>3. picker'[f] = s /\ \A g \in Forms : g # f => picker'[g] = picker[g]
    BY <1>9, <2>2
  <2>4. QED
    BY <1>1, <1>3, <1>6, <1>11, <2>1, <2>3
<1>12. CASE a.call.then = "choose"
  <2> DEFINE s == Shown(hold, a.call.id)
  <2>1. s.options = a.ret /\ s.value = IF a.call.id \in a.ret THEN a.call.id ELSE Nil
    BY <1>8
  <2>2. picker' = [picker EXCEPT ![f] = s]
    BY <1>6, <1>12
  <2> HIDE DEF s
  <2>3. picker'[f] = s /\ \A g \in Forms : g # f => picker'[g] = picker[g]
    BY <1>9, <2>2
  <2>4. QED
    BY <1>1, <1>3, <1>6, <1>12, <2>1, <2>3
<1>13. QED
  BY <1>3, <1>10, <1>11, <1>12

LEMMA KnowsCreds ==
  ASSUME Typed, CredsListed
  PROVE  WindowKnown'
<1>1. PICK a : a = Head(answers)
  OBVIOUS
<1>2. PICK f : f = a.call.f
  OBVIOUS
<1>3. /\ f \in Forms /\ a.call.op = "creds" /\ a.ret \subseteq Creds /\ answers # <<>>
      /\ a.call.then \in {"keep", "open", "choose"}
      /\ picker'[f].options = a.ret /\ \A g \in Forms : g # f => picker'[g] = picker[g]
      /\ picker'[f].value \in a.ret \cup {Nil}
      /\ \/ UNCHANGED <<hostDlg, wants>>
         \/ hostDlg' = [hostDlg EXCEPT !.open = TRUE] /\ UNCHANGED wants
         \/ Tell(f, picker'[f].value)
  BY <1>1, <1>2, CredsListedIs
<1>4. AnswerKnown(a)
  BY <1>1, <1>3, HeadIs
<1>5. UNCHANGED <<credStore, hostStore, spent, credDlg, chain>>
  BY DEF CredsListed, Taken, stored
<1>6. \A x \in a.ret \cup {Nil} : KnownCred(x)
  BY <1>3, <1>4 DEF AnswerKnown, KnownCred
<1>7. /\ KnownCred(hostDlg'.cred) /\ KnownHost(hostDlg'.id) /\ wants'.hosts = wants.hosts
      /\ \A g \in Forms : KnownCred(wants'.cred[g])
  <2>1. CASE UNCHANGED <<hostDlg, wants>>
    BY <2>1 DEF Typed, IdsKnown, WindowKnown
  <2>2. CASE hostDlg' = [hostDlg EXCEPT !.open = TRUE] /\ UNCHANGED wants
    BY <2>2 DEF Typed, IdsKnown, WindowKnown, PickersTypes, WindowTypes
  <2>3. CASE Tell(f, picker'[f].value)
    <3>1. /\ hostDlg'.id = hostDlg.id /\ hostDlg'.cred \in {hostDlg.cred, picker'[f].value}
          /\ wants'.hosts = wants.hosts
          /\ \A g \in Forms : wants'.cred[g] \in {wants.cred[g], picker'[f].value}
      BY <1>3, <2>3 DEF Tell, Typed, PickersTypes, WindowTypes
    <3>2. QED
      BY <1>3, <1>6, <3>1 DEF Typed, IdsKnown, WindowKnown
  <2>4. QED
    BY <1>3, <2>1, <2>2, <2>3
<1>8. \A g \in Forms : KnownCred(picker'[g].value) /\ \A x \in picker'[g].options : KnownCred(x)
  BY <1>3, <1>6 DEF Typed, IdsKnown, WindowKnown
<1>9. QED
  BY <1>5, <1>7, <1>8 DEF Typed, IdsKnown, WindowKnown, KnownCred, KnownHost

LEMMA KnowsCred ==
  ASSUME Typed, CredGot
  PROVE  WindowKnown'
<1>1. PICK a : a = Head(answers)
  OBVIOUS
<1>2. PICK f : f = a.call.f
  OBVIOUS
<1>3. answers # <<>> /\ a.call.op = "cred" /\ UNCHANGED <<credStore, hostStore, spent, picker, chain, hostDlg, wants>>
  BY <1>1 DEF CredGot, Answer, stored
<1>4. IsAnswer(a) /\ AnswerKnown(a)
  BY <1>1, <1>3, HeadIs
<1>5. f \in Forms /\ a.ret \in Secrets \cup {Nil} /\ a.call.id \in Creds /\ KnownCred(a.call.id)
  BY <1>2, <1>3, <1>4 DEF IsAnswer, IsCall, AnswerKnown, CallKnown
<1> DEFINE d == LoadedCred(credDlg[f], a.call.id, a.ret)
<1>6. credDlg[f] \in Editors /\ credDlg \in [Forms -> Editors] /\ a.call.id \in Creds \cup {Nil}
  BY <1>5 DEF Typed, PickersTypes, WindowTypes
<1>7. d.id = a.call.id
  BY <1>5, <1>6, LoadedIs
<1>8. credDlg' = credDlg \/ credDlg' = [credDlg EXCEPT ![f] = d]
  BY <1>1, <1>2 DEF CredGot
<1> HIDE DEF d
<1>9. \A g \in Forms : credDlg'[g].id \in {a.call.id, credDlg[g].id}
  BY <1>6, <1>7, <1>8
<1>10. \A g \in Forms : KnownCred(credDlg'[g].id)
  BY <1>5, <1>9 DEF Typed, IdsKnown, WindowKnown
<1>11. QED
  BY <1>3, <1>10 DEF Typed, IdsKnown, WindowKnown, KnownCred, KnownHost

LEMMA KnowsSavedCred ==
  ASSUME Typed, CredSaved
  PROVE  WindowKnown'
<1>1. PICK a : a = Head(answers)
  OBVIOUS
<1>2. PICK f : f = a.call.f
  OBVIOUS
<1>3. answers # <<>> /\ a.call.op = "save cred" /\ UNCHANGED <<credStore, hostStore, spent, picker, chain, hostDlg>>
  BY <1>1 DEF CredSaved, Answer, Taken, stored
<1>4. IsAnswer(a) /\ AnswerKnown(a)
  BY <1>1, <1>3, HeadIs
<1>5. f \in Forms /\ KnownCred(a.ret)
  BY <1>2, <1>3, <1>4 DEF IsAnswer, IsCall, AnswerKnown
<1>6. credDlg' = [credDlg EXCEPT ![f].saving = FALSE, ![f].open = @ /\ a.ret = Nil]
  BY <1>1, <1>2 DEF CredSaved
<1>7. wants' = wants \/ wants' = [wants EXCEPT !.cred[f] = a.ret]
  BY <1>1, <1>2 DEF CredSaved
<1>8. \A g \in Forms : credDlg'[g].id = credDlg[g].id
  BY <1>6 DEF Typed, PickersTypes, WindowTypes, Editors
<1>9. wants'.hosts = wants.hosts /\ \A g \in Forms : wants'.cred[g] \in {wants.cred[g], a.ret}
  BY <1>5, <1>7 DEF Typed, PickersTypes, WindowTypes
<1>10. \A g \in Forms : KnownCred(wants'.cred[g])
  BY <1>5, <1>9 DEF Typed, IdsKnown, WindowKnown
<1>11. QED
  BY <1>3, <1>8, <1>9, <1>10 DEF Typed, IdsKnown, WindowKnown, KnownCred, KnownHost

LEMMA KnowsHosts ==
  ASSUME Typed, HostsListed
  PROVE  WindowKnown'
<1>1. PICK a : a = Head(answers)
  OBVIOUS
<1>3. answers # <<>> /\ a.call.op = "hosts" /\ UNCHANGED <<credStore, hostStore, spent, picker, credDlg, hostDlg>>
  BY <1>1 DEF HostsListed, Answer, Taken, stored
<1>4. IsAnswer(a) /\ AnswerKnown(a)
  BY <1>1, <1>3, HeadIs
<1>5. \A x \in a.ret : KnownHost(x)
  BY <1>3, <1>4 DEF AnswerKnown
<1>6. a.call.then \in {"keep", "joins", "focus"} /\ (a.call.then # "keep" => KnownHost(a.call.id))
  BY <1>3, <1>4 DEF AnswerKnown, CallKnown, IsAnswer, IsCall
<1> DEFINE hold == Only(chain.ids, a.ret)
           joins == a.call.then = "joins" /\ a.call.id \notin ToSet(hold)
           next == IF joins THEN Append(hold, a.call.id) ELSE hold
           focus == IF a.call.then # "keep" /\ a.call.id \in a.ret THEN a.call.id
                    ELSE IF chain.focus \in a.ret THEN chain.focus ELSE Nil
           w == IF joins THEN wants.hosts \cup {a.call.id} ELSE wants.hosts
<1>7. chain' = [chain EXCEPT !.known = a.ret, !.ids = next, !.focus = focus]
  BY <1>1 DEF HostsListed
<1>8. wants' = [wants EXCEPT !.hosts = w]
  BY <1>1 DEF HostsListed
<1>9. KnownHost(focus)
  BY <1>5 DEF KnownHost
<1>10. \A x \in w : KnownHost(x)
  BY <1>6 DEF Typed, IdsKnown, WindowKnown
<1> HIDE DEF next, w, focus
<1>11. chain'.known = a.ret /\ chain'.focus = focus /\ wants'.hosts = w /\ wants'.cred = wants.cred
  BY <1>7, <1>8 DEF Typed, PickersTypes, WindowTypes
<1>12. \A x \in chain'.known \cup wants'.hosts \cup {chain'.focus} : KnownHost(x)
  BY <1>5, <1>9, <1>10, <1>11
<1>13. QED
  BY <1>3, <1>11, <1>12 DEF Typed, IdsKnown, WindowKnown, KnownCred, KnownHost

LEMMA KnowsHost ==
  ASSUME Typed, HostGot
  PROVE  WindowKnown'
<1>1. PICK a : a = Head(answers)
  OBVIOUS
<1>2. answers # <<>> /\ a.call.op = "host" /\ UNCHANGED <<credStore, hostStore, spent, picker, credDlg>>
  BY <1>1 DEF HostGot, Answer, Taken, stored
<1>3. IsAnswer(a) /\ AnswerKnown(a)
  BY <1>1, <1>2, HeadIs
<1>4. KnownCred(a.ret) /\ KnownHost(a.call.id)
  BY <1>2, <1>3 DEF AnswerKnown, CallKnown
<1>5. \/ UNCHANGED <<chain, hostDlg, wants>>
      \/ chain' = [chain EXCEPT !.creating = FALSE] /\ LoadHost(a.call.id, a.ret)
  BY <1>1 DEF HostGot
<1>6. CASE UNCHANGED <<chain, hostDlg, wants>>
  BY <1>2, <1>6 DEF Typed, IdsKnown, WindowKnown, KnownCred, KnownHost
<1>7. CASE chain' = [chain EXCEPT !.creating = FALSE] /\ LoadHost(a.call.id, a.ret)
  <2>1. /\ chain'.known = chain.known /\ chain'.focus = chain.focus /\ wants'.hosts = wants.hosts
        /\ hostDlg'.id = a.call.id /\ hostDlg'.cred = a.ret
        /\ \A g \in Forms : wants'.cred[g] \in {wants.cred[g], a.ret}
    BY <1>7 DEF Typed, PickersTypes, WindowTypes, LoadHost, Forms
  <2>2. \A g \in Forms : KnownCred(wants'.cred[g])
    BY <1>4, <2>1 DEF Typed, IdsKnown, WindowKnown
  <2>3. QED
    BY <1>2, <1>4, <2>1, <2>2 DEF Typed, IdsKnown, WindowKnown, KnownCred, KnownHost
<1>8. QED
  BY <1>5, <1>6, <1>7

LEMMA KnowsRest ==
  ASSUME Typed, CredDropped \/ HostSaved \/ HostDropped
  PROVE  WindowKnown'
<1>1. UNCHANGED <<credStore, hostStore, spent, picker, credDlg, chain, wants>>
  BY DEF CredDropped, HostSaved, HostDropped, Taken, stored
<1>2. hostDlg' = hostDlg \/ \E o : hostDlg' = [hostDlg EXCEPT !.saving = FALSE, !.open = o]
  BY DEF CredDropped, HostSaved, HostDropped
<1>3. hostDlg'.id = hostDlg.id /\ hostDlg'.cred = hostDlg.cred
  BY <1>2 DEF Typed, PickersTypes, WindowTypes
<1>4. QED
  BY <1>1, <1>3 DEF Typed, IdsKnown, WindowKnown, KnownCred, KnownHost

LEMMA KnowsServed ==
  ASSUME Typed, NEW ret, ServeStep(ret)
  PROVE  WindowKnown'
<1>1. UNCHANGED <<picker, chain, credDlg, hostDlg, wants>>
  BY DEF ServeStep
<1>2. (\A x : KnownCred(x) => KnownCred(x)') /\ (\A x : KnownHost(x) => KnownHost(x)')
  BY ServeKnows
<1>3. \A h \in Hosts : KnownCred(hostStore'[h]) \/ hostStore'[h] = hostStore[h]
  <2> DEFINE c == Head(calls)
  <2>1. IsCall(c) /\ CallKnown(c)
    BY CallIs DEF ServeStep
  <2>2. \/ Looks(c, ret) \/ Refuses(c, ret) \/ SavesCredAs(c, ret) \/ SavesHostAs(c, ret)
        \/ DropsCred(c, ret) \/ DropsHost(c, ret)
    BY DEF ServeStep
  <2> HIDE DEF c
  <2>3. QED
    BY <2>1, <2>2 DEF IsCall, CallKnown, Looks, Refuses, SavesCredAs, SavesHostAs,
           DropsCred, DropsHost,
                      Typed, PickersTypes, StoreTypes, KnownCred
<1>4. \A h \in Hosts : KnownCred(hostStore'[h])
  BY <1>3 DEF Typed, IdsKnown, WindowKnown
<1>5. \A h \in Hosts : \A x : x = hostStore'[h] => KnownCred(x)'
  BY <1>2, <1>4
<1>6. QED
  BY <1>1, <1>2, <1>5 DEF Typed, IdsKnown, WindowKnown

-----------------------------------------------------------------------------
\* The three kinds of steps.
Clicks ==
  \/ \E f \in Forms :
       \/ \E id \in Creds \cup {Nil} : PickCred(f, id)
       \/ AskEditCred(f) \/ AskDeleteCred(f) \/ NewCred(f)
       \/ \E auth \in Auths : ChangeType(f, auth)
       \/ TypeSecret(f) \/ SaveCredential(f) \/ CancelCred(f)
  \/ \E h \in Hosts : Focus(h)
  \/ AddHop \/ (\E i \in DOMAIN chain.ids : RemoveHop(i) \/ MoveHop(i))
  \/ NewHost \/ AskEditHost \/ AskDeleteHost \/ SaveHost \/ CancelHost
Serves == ServeRead \/ ServeSaveCred \/ ServeSaveHost \/ ServeDrop
Takes == \/ CredsListed \/ CredGot \/ CredSaved \/ CredDropped
         \/ HostsListed \/ HostGot \/ HostSaved \/ HostDropped

LEMMA Kinds3 == PickersNext => Clicks \/ Serves \/ Takes
BY DEF PickersNext, Clicks, Serves, Takes

LEMMA ClicksAre ==
  ASSUME Typed, Clicks
  PROVE  (\E A : ClickStep(A)) /\ WindowTypes' /\ WindowKnown'
<1>1. ASSUME NEW f \in Forms, NEW id \in Creds \cup {Nil}, PickCred(f, id) PROVE (\E A : ClickStep(A)) /\ WindowTypes' /\ WindowKnown'
  BY <1>1, ClickPick, KnowsPickCred
<1>2. ASSUME NEW f \in Forms, AskEditCred(f) PROVE (\E A : ClickStep(A)) /\ WindowTypes' /\ WindowKnown'
  BY <1>2, ClickEditCred, KnowsAskEditCred
<1>3. ASSUME NEW f \in Forms, AskDeleteCred(f) PROVE (\E A : ClickStep(A)) /\ WindowTypes' /\ WindowKnown'
  BY <1>3, ClickDeleteCred, KnowsAskDeleteCred
<1>4. ASSUME NEW f \in Forms, NewCred(f) PROVE (\E A : ClickStep(A)) /\ WindowTypes' /\ WindowKnown'
  BY <1>4, ClickNewCred, KnowsNewCred
<1>5. ASSUME NEW f \in Forms, NEW auth \in Auths, ChangeType(f, auth) PROVE (\E A : ClickStep(A)) /\ WindowTypes' /\ WindowKnown'
  BY <1>5, ClickType, KnowsChangeType
<1>6. ASSUME NEW f \in Forms, TypeSecret(f) PROVE (\E A : ClickStep(A)) /\ WindowTypes' /\ WindowKnown'
  BY <1>6, ClickSecret, KnowsTypeSecret
<1>7. ASSUME NEW f \in Forms, SaveCredential(f) PROVE (\E A : ClickStep(A)) /\ WindowTypes' /\ WindowKnown'
  BY <1>7, ClickSaveCred, KnowsSaveCredential
<1>8. ASSUME NEW f \in Forms, CancelCred(f) PROVE (\E A : ClickStep(A)) /\ WindowTypes' /\ WindowKnown'
  BY <1>8, ClickCancel, KnowsCancelCred
<1>9. ASSUME NEW h \in Hosts, Focus(h) PROVE (\E A : ClickStep(A)) /\ WindowTypes' /\ WindowKnown'
  BY <1>9, ClickFocus, KnowsFocus
<1>10. ASSUME AddHop PROVE (\E A : ClickStep(A)) /\ WindowTypes' /\ WindowKnown'
  BY <1>10, ClickAddHop, KnowsAddHop
<1>11. ASSUME NEW k \in DOMAIN chain.ids, RemoveHop(k) PROVE (\E A : ClickStep(A)) /\ WindowTypes' /\ WindowKnown'
  BY <1>11, ClickRemoveHop, KnowsRemoveHop
<1>12. ASSUME NEW k \in DOMAIN chain.ids, MoveHop(k) PROVE (\E A : ClickStep(A)) /\ WindowTypes' /\ WindowKnown'
  BY <1>12, ClickMoveHop, KnowsMoveHop
<1>13. ASSUME NewHost PROVE (\E A : ClickStep(A)) /\ WindowTypes' /\ WindowKnown'
  BY <1>13, ClickNewHost, KnowsNewHost
<1>14. ASSUME AskEditHost PROVE (\E A : ClickStep(A)) /\ WindowTypes' /\ WindowKnown'
  BY <1>14, ClickEditHost, KnowsAskEditHost
<1>15. ASSUME AskDeleteHost PROVE (\E A : ClickStep(A)) /\ WindowTypes' /\ WindowKnown'
  BY <1>15, ClickDeleteHost, KnowsAskDeleteHost
<1>16. ASSUME SaveHost PROVE (\E A : ClickStep(A)) /\ WindowTypes' /\ WindowKnown'
  BY <1>16, ClickSaveHost, KnowsSaveHost
<1>17. ASSUME CancelHost PROVE (\E A : ClickStep(A)) /\ WindowTypes' /\ WindowKnown'
  BY <1>17, ClickCancelHost, KnowsCancelHost
<1>18. QED
  BY <1>1, <1>2, <1>3, <1>4, <1>5, <1>6, <1>7, <1>8, <1>9, <1>10, <1>11, <1>12, <1>13,
     <1>14, <1>15, <1>16, <1>17 DEF Clicks

LEMMA TakesAre ==
  ASSUME Typed, Takes
  PROVE  (\E A : TakeStep(A)) /\ WindowTypes' /\ WindowKnown'
<1>1. CASE CredsListed
  BY <1>1, TakeCreds, KnowsCreds
<1>2. CASE CredGot
  BY <1>2, TakeCred, KnowsCred
<1>3. CASE CredSaved
  BY <1>3, TakeSavedCred, KnowsSavedCred
<1>4. CASE CredDropped
  BY <1>4, TakeDroppedCred, KnowsRest
<1>5. CASE HostsListed
  BY <1>5, TakeHosts, KnowsHosts
<1>6. CASE HostGot
  BY <1>6, TakeHost, KnowsHost
<1>7. CASE HostSaved
  BY <1>7, TakeSavedHost, KnowsRest
<1>8. CASE HostDropped
  BY <1>8, TakeDroppedHost, KnowsRest
<1>9. QED
  BY <1>1, <1>2, <1>3, <1>4, <1>5, <1>6, <1>7, <1>8 DEF Takes

LEMMA ServesAre ==
  ASSUME Typed, Serves
  PROVE  (\E ret : ServeStep(ret)) /\ WindowTypes' /\ WindowKnown'
<1>1. PICK ret : ServeStep(ret)
  BY ServesRead, ServesSaveCred, ServesSaveHost, ServesDrop DEF Serves
<1>2. WindowTypes'
  BY <1>1 DEF ServeStep, Typed, PickersTypes, WindowTypes
<1>3. WindowKnown'
  BY <1>1, KnowsServed
<1>4. QED
  BY <1>1, <1>2, <1>3

LEMMA ClickKeepsWire ==
  ASSUME Typed, NEW A, ClickStep(A) PROVE StoreTypes' /\ WireTypes' /\ WireKnown'
<1>1. StoreTypes'
  BY DEF ClickStep, Typed, PickersTypes, StoreTypes
<1>2. ToSet(calls') = ToSet(calls) \cup A /\ calls' \in Seq(ToSet(calls')) /\ answers' = answers
      /\ UNCHANGED <<credStore, hostStore, spent>> /\ \A c \in A : IsCall(c) /\ CallKnown(c)
  BY DEF ClickStep, ClickAsk, Grows
<1>3. WireTypes'
  BY <1>2 DEF Typed, PickersTypes, WireTypes
<1>4. (\A c : CallKnown(c) => CallKnown(c)') /\ (\A a : AnswerKnown(a) => AnswerKnown(a)')
  <2>1. (\A x : KnownCred(x) => KnownCred(x)') /\ (\A x : KnownHost(x) => KnownHost(x)')
    BY <1>2 DEF KnownCred, KnownHost
  <2>2. \A c : CallKnown(c) => CallKnown(c)'
    BY <2>1 DEF CallKnown
  <2>3. QED
    BY <2>1, <2>2 DEF AnswerKnown
<1>5. WireKnown'
  BY <1>2, <1>4 DEF Typed, IdsKnown, WireKnown
<1>6. QED
  BY <1>1, <1>3, <1>5

LEMMA TakeKeepsWire ==
  ASSUME Typed, NEW A, TakeStep(A) PROVE StoreTypes' /\ WireTypes' /\ WireKnown'
<1>1. StoreTypes'
  BY DEF TakeStep, Typed, PickersTypes, StoreTypes
<1>2. ToSet(calls') = ToSet(calls) \cup A /\ calls' \in Seq(ToSet(calls'))
      /\ UNCHANGED <<credStore, hostStore, spent>> /\ \A c \in A : IsCall(c) /\ CallKnown(c)
  BY DEF TakeStep, TakeAsk, Grows
<1>3. answers' \in Seq(ToSet(answers')) /\ ToSet(answers') \subseteq ToSet(answers)
  BY Unqueued DEF TakeStep, Typed, PickersTypes, WireTypes
<1>4. WireTypes'
  BY <1>2, <1>3 DEF Typed, PickersTypes, WireTypes
<1>5. (\A c : CallKnown(c) => CallKnown(c)') /\ (\A a : AnswerKnown(a) => AnswerKnown(a)')
  <2>1. (\A x : KnownCred(x) => KnownCred(x)') /\ (\A x : KnownHost(x) => KnownHost(x)')
    BY <1>2 DEF KnownCred, KnownHost
  <2>2. \A c : CallKnown(c) => CallKnown(c)'
    BY <2>1 DEF CallKnown
  <2>3. QED
    BY <2>1, <2>2 DEF AnswerKnown
<1>6. WireKnown'
  BY <1>2, <1>3, <1>5 DEF Typed, IdsKnown, WireKnown
<1>7. QED
  BY <1>1, <1>4, <1>6

LEMMA ServeKeepsWire ==
  ASSUME Typed, NEW ret, ServeStep(ret) PROVE StoreTypes' /\ WireTypes' /\ WireKnown'
<1>1. PICK c : c = Head(calls)
  OBVIOUS
<1>2. PICK a : a = [call |-> c, ret |-> ret]
  OBVIOUS
<1>3. StoreTypes' /\ IsAnswer(a) /\ AnswerKnown(a)'
  BY <1>1, <1>2, ServeStores, ServeAnswers
<1>4. calls' \in Seq(ToSet(calls')) /\ ToSet(calls') \subseteq ToSet(calls)
  BY Unqueued DEF ServeStep, Typed, PickersTypes, WireTypes
<1>5. answers' = Append(answers, a)
  BY <1>1, <1>2 DEF ServeStep
<1>6. answers' \in Seq(ToSet(answers')) /\ ToSet(answers') = ToSet(answers) \cup {a}
  BY <1>5, Queued DEF Typed, PickersTypes, WireTypes
<1>7. WireTypes'
  BY <1>3, <1>4, <1>6 DEF Typed, PickersTypes, WireTypes
<1>8. (\A c2 : CallKnown(c2) => CallKnown(c2)') /\ (\A b : AnswerKnown(b) => AnswerKnown(b)')
  <2>1. (\A x : KnownCred(x) => KnownCred(x)') /\ (\A x : KnownHost(x) => KnownHost(x)')
    BY ServeKnows
  <2>2. \A c2 : CallKnown(c2) => CallKnown(c2)'
    BY <2>1 DEF CallKnown
  <2>3. QED
    BY <2>1, <2>2 DEF AnswerKnown
<1>9. WireKnown'
  BY <1>3, <1>4, <1>6, <1>8 DEF Typed, IdsKnown, WireKnown
<1>10. QED
  BY <1>3, <1>7, <1>9

LEMMA TypedKeeps == Typed /\ PickersNext => Typed'
<1> SUFFICES ASSUME Typed, PickersNext PROVE Typed'
  OBVIOUS
<1>1. CASE Clicks
  BY <1>1, ClicksAre, ClickKeepsWire DEF Typed, PickersTypes, IdsKnown
<1>2. CASE Takes
  BY <1>2, TakesAre, TakeKeepsWire DEF Typed, PickersTypes, IdsKnown
<1>3. CASE Serves
  BY <1>3, ServesAre, ServeKeepsWire DEF Typed, PickersTypes, IdsKnown
<1>4. QED
  BY <1>1, <1>2, <1>3, Kinds3

LEMMA FadesTaken ==
  ASSUME NEW q, q \in Seq(ToSet(q)), q # <<>>, NEW op, NEW now, NEW S, Fades(q, op, now, S, 0)
  PROVE  Fades(Tail(q), op, now, S, 0)
<1>1. Fades(q, op, now, S, 0 + 1)
  <2>1. 0 \in Nat /\ 0 + 1 \in Nat /\ 0 <= 0 + 1
    OBVIOUS
  <2>2. QED
    BY <2>1, FadesWithin
<1>2. QED
  BY <1>1, FadesTail

LEMMA InOrderTaken ==
  ASSUME NEW q, q \in Seq(ToSet(q)), q # <<>>, NEW op, NEW now, InOrder(q, op, now)
  PROVE  /\ InOrder(Tail(q), op, now)
         /\ Head(q).call.op = op => Fades(Tail(q), op, now, Head(q).ret, 0)
<1> DEFINE r == Tail(q)
<1>1. /\ Len(q) \in Nat /\ Len(q) > 0 /\ Len(r) = Len(q) - 1 /\ \A i \in 1 .. Len(r) : r[i] = q[i + 1]
      /\ DOMAIN q = 1 .. Len(q) /\ Head(q) = q[1] /\ r \in Seq(ToSet(r))
  BY Unqueued
<1>2. DOMAIN r = 1 .. Len(r)
  BY <1>1
<1> HIDE DEF r
<1>3. ASSUME NEW i \in DOMAIN r, r[i].call.op = op PROVE Fades(r, op, now, r[i].ret, i)
  <2>1. i \in Nat /\ i + 1 \in DOMAIN q /\ r[i] = q[i + 1]
    BY <1>1, <1>2
  <2>2. Fades(q, op, now, r[i].ret, i + 1)
    BY <1>3, <2>1 DEF InOrder
  <2>3. QED
    BY <2>1, <2>2, FadesTail DEF r
<1>4. ASSUME q[1].call.op = op PROVE Fades(r, op, now, q[1].ret, 0)
  <2>1. 1 \in DOMAIN q /\ 0 \in Nat /\ 0 + 1 = 1
    BY <1>1
  <2>2. Fades(q, op, now, q[1].ret, 0 + 1)
    BY <1>4, <2>1 DEF InOrder
  <2>3. QED
    BY <2>1, <2>2, FadesTail DEF r
<1>5. InOrder(r, op, now)
  BY <1>3 DEF InOrder
<1>6. QED
  BY <1>1, <1>4, <1>5 DEF r

LEMMA InOrderQueued ==
  ASSUME NEW q, q \in Seq(ToSet(q)), NEW a, NEW op, NEW now, NEW next, InOrder(q, op, now),
         a.call.op = op => a.ret = now /\ next = now,
         \A b \in ToSet(q) : b.call.op = op => b.ret \cap next \subseteq now
  PROVE  InOrder(Append(q, a), op, next)
<1> DEFINE r == Append(q, a)
           n == Len(q)
<1>1. /\ n \in Nat /\ Len(r) = n + 1 /\ r[n + 1] = a /\ \A i \in 1 .. n : r[i] = q[i]
      /\ r \in Seq(ToSet(r))
  BY Queued
<1>2. DOMAIN q = 1 .. n /\ DOMAIN r = 1 .. n + 1
  BY <1>1
<1> HIDE DEF r
<1>3. ASSUME NEW i \in 1 .. n, q[i].call.op = op PROVE Fades(r, op, next, r[i].ret, i)
  <2>1. i \in DOMAIN q /\ i \in Nat /\ q[i] \in ToSet(q) /\ r[i] = q[i]
    BY <1>1, <1>2 DEF ToSet
  <2>2. Fades(q, op, now, q[i].ret, i)
    BY <1>3, <2>1 DEF InOrder
  <2>3. q[i].ret \cap next \subseteq now
    BY <1>3, <2>1
  <2>4. Fades(Append(q, a), op, next, q[i].ret, i)
    BY <2>1, <2>2, <2>3, FadesQueued
  <2>5. QED
    BY <2>1, <2>4 DEF r
<1>4. \A S : Fades(r, op, next, S, n + 1)
  <2>1. \A j, k \in n + 1 + 1 .. Len(r) + 1 : ~(j < k)
    BY <1>1
  <2>2. QED
    BY <2>1 DEF Fades
<1>5. ASSUME NEW i \in DOMAIN r, r[i].call.op = op PROVE Fades(r, op, next, r[i].ret, i)
  <2>1. CASE i \in 1 .. n
    BY <1>1, <1>3, <1>5, <2>1
  <2>2. CASE i = n + 1
    BY <1>4, <2>2
  <2>3. QED
    BY <1>1, <1>2, <2>1, <2>2
<1>6. QED
  BY <1>5 DEF InOrder, r

LEMMA ClickNoneReturns ==
  ASSUME Typed, NoneReturns, NEW A, ClickStep(A) PROVE NoneReturns'
BY DEF ClickStep, NoneReturns

LEMMA TakeNoneReturns ==
  ASSUME Typed, NoneReturns, NEW A, TakeStep(A) PROVE NoneReturns'
<1>1. PICK a : a = Head(answers)
  OBVIOUS
<1>2. PICK q : q = answers
  OBVIOUS
<1>3. PICK creds : creds = Present(credStore)
  OBVIOUS
<1>4. PICK hosts : hosts = Present(hostStore)
  OBVIOUS
<1>5. /\ q \in Seq(ToSet(q)) /\ q # <<>> /\ answers' = Tail(q) /\ Head(q) = a
      /\ credStore' = credStore /\ hostStore' = hostStore
      /\ \A f \in Forms : picker'[f].options =
                            IF a.call.op = "creds" /\ a.call.f = f THEN a.ret ELSE picker[f].options
      /\ chain'.known = IF a.call.op = "hosts" THEN a.ret ELSE chain.known
  BY <1>1, <1>2 DEF TakeStep, Typed, PickersTypes, WireTypes
<1>6. /\ InOrder(q, "creds", creds) /\ InOrder(q, "hosts", hosts)
      /\ \A f \in Forms : Fades(q, "creds", creds, picker[f].options, 0)
      /\ Fades(q, "hosts", hosts, chain.known, 0)
      /\ \A i \in DOMAIN q : q[i].call.op = "host" => Fades(q, "creds", creds, {q[i].ret}, i)
  BY <1>2, <1>3, <1>4 DEF NoneReturns
<1> DEFINE r == Tail(q)
<1>7. /\ Len(q) \in Nat /\ Len(q) > 0 /\ Len(r) = Len(q) - 1 /\ \A i \in 1 .. Len(r) : r[i] = q[i + 1]
      /\ DOMAIN q = 1 .. Len(q) /\ r \in Seq(ToSet(r))
  BY <1>5, Unqueued
<1>8. DOMAIN r = 1 .. Len(r)
  BY <1>7
<1>9. /\ InOrder(r, "creds", creds) /\ InOrder(r, "hosts", hosts)
      /\ a.call.op = "creds" => Fades(r, "creds", creds, a.ret, 0)
      /\ a.call.op = "hosts" => Fades(r, "hosts", hosts, a.ret, 0)
  BY <1>5, <1>6, InOrderTaken
<1>10. /\ \A f \in Forms : Fades(r, "creds", creds, picker[f].options, 0)
       /\ Fades(r, "hosts", hosts, chain.known, 0)
  BY <1>5, <1>6, FadesTaken
<1> HIDE DEF r
<1>11. ASSUME NEW i \in DOMAIN r, r[i].call.op = "host" PROVE Fades(r, "creds", creds, {r[i].ret}, i)
  <2>1. i \in Nat /\ i + 1 \in DOMAIN q /\ r[i] = q[i + 1]
    BY <1>7, <1>8
  <2>2. Fades(q, "creds", creds, {r[i].ret}, i + 1)
    BY <1>6, <1>11, <2>1
  <2>3. QED
    BY <1>5, <2>1, <2>2, FadesTail DEF r
<1>12. answers' = r /\ Present(credStore)' = creds /\ Present(hostStore)' = hosts
  BY <1>3, <1>4, <1>5 DEF r
<1>13. /\ \A f \in Forms : Fades(r, "creds", creds, picker'[f].options, 0)
       /\ Fades(r, "hosts", hosts, chain'.known, 0)
  BY <1>5, <1>9, <1>10
<1>14. QED
  BY <1>9, <1>11, <1>12, <1>13 DEF NoneReturns

-----------------------------------------------------------------------------
\* An answer is queued that is a list only if the list is the stored one.
LEMMA ServeQueues ==
  ASSUME Typed, NEW ret, ServeStep(ret), NEW a, a = [call |-> Head(calls), ret |-> ret]
  PROVE  /\ a.call.op = "creds" => a.ret = Present(credStore) /\ Present(credStore)' = Present(credStore)
         /\ a.call.op = "hosts" => a.ret = Present(hostStore) /\ Present(hostStore)' = Present(hostStore)
         /\ a.ret = Nil \/ a.call.op \notin {"save cred", "drop cred"} => Present(credStore)' = Present(credStore)
         /\ a.ret = Nil \/ a.call.op \notin {"save host", "drop host"} => Present(hostStore)' = Present(hostStore)
<1>1. PICK c : c = Head(calls)
  OBVIOUS
<1>2. \/ Looks(c, ret) \/ Refuses(c, ret) \/ SavesCredAs(c, ret) \/ SavesHostAs(c, ret)
      \/ DropsCred(c, ret) \/ DropsHost(c, ret)
  BY <1>1 DEF ServeStep
<1>3. a.call = c /\ a.ret = ret
  BY <1>1
<1>4. IsCall(c)
  BY <1>1, CallIs DEF ServeStep
<1>5. Nil \notin Creds /\ Nil \notin Hosts
  BY PickersAssumption
<1>6. CASE Looks(c, ret) \/ Refuses(c, ret)
  BY <1>3, <1>6 DEF Looks, Refuses
<1>7. CASE SavesCredAs(c, ret)
  BY <1>3, <1>5, <1>7 DEF SavesCredAs
<1>8. CASE SavesHostAs(c, ret)
  BY <1>3, <1>5, <1>8 DEF SavesHostAs
<1>9. CASE DropsCred(c, ret)
  BY <1>3, <1>4, <1>5, <1>9 DEF DropsCred, IsCall
<1>10. CASE DropsHost(c, ret)
  BY <1>3, <1>4, <1>5, <1>10 DEF DropsHost, IsCall
<1>11. QED
  BY <1>2, <1>6, <1>7, <1>8, <1>9, <1>10

LEMMA ServeNoneReturns ==
  ASSUME Typed, NoneReturns, NEW ret, ServeStep(ret) PROVE NoneReturns'
<1>1. PICK a : a = [call |-> Head(calls), ret |-> ret]
  OBVIOUS
<1>2. PICK q : q = answers
  OBVIOUS
<1>3. PICK creds, hosts : creds = Present(credStore) /\ hosts = Present(hostStore)
  OBVIOUS
<1>4. PICK next, hold : next = Present(credStore)' /\ hold = Present(hostStore)'
  OBVIOUS
<1>5. q \in Seq(ToSet(q)) /\ answers' = Append(q, a) /\ UNCHANGED <<picker, chain>>
  BY <1>1, <1>2 DEF ServeStep, Typed, PickersTypes, WireTypes
<1>6. /\ a.call.op = "creds" => a.ret = creds /\ next = creds
      /\ a.call.op = "hosts" => a.ret = hosts /\ hold = hosts
  BY <1>1, <1>3, <1>4, ServeQueues
<1>7. /\ \A x : KnownCred(x) /\ x \in next => x \in creds
      /\ \A x : KnownHost(x) /\ x \in hold => x \in hosts
  BY <1>3, <1>4, ServeKnows
<1>8. /\ InOrder(q, "creds", creds) /\ InOrder(q, "hosts", hosts)
      /\ \A f \in Forms : Fades(q, "creds", creds, picker[f].options, 0)
      /\ Fades(q, "hosts", hosts, chain.known, 0)
      /\ \A i \in DOMAIN q : q[i].call.op = "host" => Fades(q, "creds", creds, {q[i].ret}, i)
  BY <1>2, <1>3 DEF NoneReturns
<1>9. \A b \in ToSet(q) :
        /\ b.call.op = "creds" => b.ret \cap next \subseteq creds
        /\ b.call.op = "hosts" => b.ret \cap hold \subseteq hosts
        /\ b.call.op = "host" => {b.ret} \cap next \subseteq creds
  BY <1>2, <1>7 DEF Typed, IdsKnown, WireKnown, AnswerKnown
<1>10. /\ \A f \in Forms : picker[f].options \cap next \subseteq creds
       /\ chain.known \cap hold \subseteq hosts
  BY <1>7 DEF Typed, IdsKnown, WindowKnown
<1> DEFINE r == Append(q, a)
<1>11. InOrder(r, "creds", next) /\ InOrder(r, "hosts", hold)
  BY <1>5, <1>6, <1>8, <1>9, InOrderQueued
<1>12. /\ \A f \in Forms : Fades(r, "creds", next, picker[f].options, 0)
       /\ Fades(r, "hosts", hold, chain.known, 0)
  <2>1. 0 \in Nat
    OBVIOUS
  <2>2. QED
    BY <1>5, <1>6, <1>8, <1>10, <2>1, FadesQueued
<1>13. /\ Len(q) \in Nat /\ Len(r) = Len(q) + 1 /\ r[Len(q) + 1] = a /\ \A i \in 1 .. Len(q) : r[i] = q[i]
       /\ r \in Seq(ToSet(r))
  BY <1>5, Queued
<1>14. DOMAIN q = 1 .. Len(q) /\ DOMAIN r = 1 .. Len(q) + 1
  BY <1>5, <1>13
<1> HIDE DEF r
<1>15. ASSUME NEW i \in DOMAIN r, r[i].call.op = "host" PROVE Fades(r, "creds", next, {r[i].ret}, i)
  <2>1. CASE i \in 1 .. Len(q)
    <3>1. i \in DOMAIN q /\ i \in Nat /\ q[i] \in ToSet(q) /\ r[i] = q[i]
      BY <1>13, <1>14, <2>1 DEF ToSet
    <3>2. Fades(q, "creds", creds, {q[i].ret}, i) /\ {q[i].ret} \cap next \subseteq creds
      BY <1>8, <1>9, <1>15, <3>1
    <3>3. Fades(Append(q, a), "creds", next, {q[i].ret}, i)
      BY <1>5, <1>6, <3>1, <3>2, FadesQueued
    <3>4. QED
      BY <3>1, <3>3 DEF r
  <2>2. CASE i = Len(q) + 1
    <3>1. \A j, k \in i + 1 .. Len(r) + 1 : ~(j < k)
      BY <1>13, <2>2
    <3>2. QED
      BY <3>1 DEF Fades
  <2>3. QED
    BY <1>13, <1>14, <2>1, <2>2
<1>16. answers' = r /\ Present(credStore)' = next /\ Present(hostStore)' = hold
  BY <1>4, <1>5 DEF r
<1>17. QED
  BY <1>5, <1>11, <1>12, <1>15, <1>16 DEF NoneReturns

LEMMA ClickListsComing ==
  ASSUME Typed, ListsComing, NEW A, ClickStep(A) PROVE ListsComing'
<1>1. ToSet(calls) \subseteq ToSet(calls') /\ answers' = answers /\ credStore' = credStore /\ hostStore' = hostStore
      /\ (\A f \in Forms : picker'[f].options = picker[f].options) /\ chain'.known = chain.known
      /\ (hostDlg'.open => hostDlg.open)
  BY DEF ClickStep, Grows
<1>2. HostsOwed => HostsOwed'
  BY <1>1 DEF HostsOwed
<1>3. \A f \in Forms : CredsOwed(f) => CredsOwed(f)'
  BY <1>1 DEF CredsOwed
<1>4. Present(credStore)' = Present(credStore) /\ Present(hostStore)' = Present(hostStore)
  BY <1>1
<1>5. \A i, f : (ListsCreds(i, f) <=> ListsCreds(i, f)') /\ (ListsHosts(i) <=> ListsHosts(i)')
  BY <1>1 DEF ListsCreds, ListsHosts
<1>6. QED
  BY <1>1, <1>2, <1>3, <1>4, <1>5 DEF ListsComing

LEMMA TakeListsComing ==
  ASSUME Typed, ListsComing, NEW A, TakeStep(A) PROVE ListsComing'
<1>1. PICK a : a = Head(answers)
  OBVIOUS
<1>2. PICK q : q = answers
  OBVIOUS
<1>3. PICK r : r = Tail(q)
  OBVIOUS
<1>4. /\ q \in Seq(ToSet(q)) /\ q # <<>> /\ answers' = r /\ Head(q) = a
      /\ credStore' = credStore /\ hostStore' = hostStore
      /\ \A f \in Forms : picker'[f].options =
                            IF a.call.op = "creds" /\ a.call.f = f THEN a.ret ELSE picker[f].options
      /\ chain'.known = IF a.call.op = "hosts" THEN a.ret ELSE chain.known
      /\ hostDlg'.open => hostDlg.open \/ (a.call.op = "creds" /\ a.call.f = "host")
  BY <1>1, <1>2, <1>3 DEF TakeStep, Typed, PickersTypes, WireTypes
<1>5. /\ ToSet(calls') = ToSet(calls) \cup A
      /\ Changes(a, {"save cred", "drop cred"}) => \A f \in Forms : \E c \in A : c.op = "creds" /\ c.f = f
      /\ Changes(a, {"save host", "drop host"}) => \E c \in A : c.op = "hosts"
  BY <1>1 DEF TakeStep, Grows
<1>6. /\ Len(q) \in Nat /\ Len(q) > 0 /\ Len(r) = Len(q) - 1 /\ \A i \in 1 .. Len(r) : r[i] = q[i + 1]
      /\ DOMAIN q = 1 .. Len(q) /\ r \in Seq(ToSet(r)) /\ q[1] = a /\ ToSet(q) \subseteq ToSet(r) \cup {a}
  BY <1>3, <1>4, Unqueued
<1>7. DOMAIN r = 1 .. Len(r)
  BY <1>6
<1>8. \A f \in Forms : CredsOwed(f) => CredsOwed(f)'
  BY <1>2, <1>4, <1>5, <1>6 DEF CredsOwed
<1>9. HostsOwed => HostsOwed'
  BY <1>2, <1>4, <1>5, <1>6 DEF HostsOwed
<1>10. PICK creds, hosts : creds = Present(credStore) /\ hosts = Present(hostStore)
  OBVIOUS
<1>11. Present(credStore)' = creds /\ Present(hostStore)' = hosts
  BY <1>4, <1>10
<1>12. \A i \in 1 .. Len(r) : i + 1 \in 1 .. Len(q) /\ \A j \in 1 .. Len(q) : j > i + 1 => j - 1 \in 1 .. Len(r) /\ j - 1 > i /\ (j - 1) + 1 = j
  BY <1>6
<1>13. \A j \in 1 .. Len(q) : j > 1 => j - 1 \in 1 .. Len(r) /\ (j - 1) + 1 = j
  BY <1>6
<1>14. ASSUME NEW f \in Forms, ~CredsOwed(f)'
       PROVE  /\ \A i \in DOMAIN r :
                   r[i].call.op = "creds" /\ r[i].call.f = f
                   /\ (\A j \in DOMAIN r : j > i => ~(r[j].call.op = "creds" /\ r[j].call.f = f))
                     => r[i].ret = creds
              /\ (\A i \in DOMAIN r : ~(r[i].call.op = "creds" /\ r[i].call.f = f))
                 /\ (f = "outer" \/ hostDlg'.open) => picker'[f].options = creds
  <2>1. /\ \A i \in DOMAIN q :
             q[i].call.op = "creds" /\ q[i].call.f = f
             /\ (\A j \in DOMAIN q : j > i => ~(q[j].call.op = "creds" /\ q[j].call.f = f))
               => q[i].ret = creds
        /\ (\A i \in DOMAIN q : ~(q[i].call.op = "creds" /\ q[i].call.f = f))
           /\ (f = "outer" \/ hostDlg.open) => picker[f].options = creds
    BY <1>2, <1>8, <1>10, <1>14 DEF ListsComing, ListsCreds
  <2>2. ASSUME NEW i \in 1 .. Len(r), r[i].call.op = "creds" /\ r[i].call.f = f,
               \A j \in 1 .. Len(r) : j > i => ~(r[j].call.op = "creds" /\ r[j].call.f = f)
        PROVE  r[i].ret = creds
    <3>1. i + 1 \in DOMAIN q /\ q[i + 1] = r[i]
      BY <1>6, <1>12
    <3>2. ASSUME NEW j \in DOMAIN q, j > i + 1 PROVE ~(q[j].call.op = "creds" /\ q[j].call.f = f)
      <4>1. j - 1 \in 1 .. Len(r) /\ j - 1 > i /\ q[j] = r[j - 1]
        BY <1>6, <1>12, <3>2
      <4>2. QED
        BY <2>2, <4>1
    <3>3. QED
      BY <2>1, <2>2, <3>1, <3>2
  <2>3. ASSUME \A i \in 1 .. Len(r) : ~(r[i].call.op = "creds" /\ r[i].call.f = f),
               f = "outer" \/ hostDlg'.open
        PROVE  picker'[f].options = creds
    <3>1. ASSUME NEW j \in DOMAIN q, j > 1 PROVE ~(q[j].call.op = "creds" /\ q[j].call.f = f)
      <4>1. j - 1 \in 1 .. Len(r) /\ (j - 1) + 1 = j
        BY <1>6, <1>13, <3>1
      <4>2. r[j - 1] = q[j]
        BY <1>6, <4>1
      <4>3. QED
        BY <2>3, <4>1, <4>2
    <3>2. CASE a.call.op = "creds" /\ a.call.f = f
      <4>1. 1 \in DOMAIN q /\ q[1] = a
        BY <1>6
      <4>2. a.ret = creds
        BY <2>1, <3>1, <3>2, <4>1
      <4>3. QED
        BY <1>4, <3>2, <4>2
    <3>3. CASE ~(a.call.op = "creds" /\ a.call.f = f)
      <4>1. \A j \in DOMAIN q : ~(q[j].call.op = "creds" /\ q[j].call.f = f)
        BY <1>6, <3>1, <3>3
      <4>2. f = "outer" \/ hostDlg.open
        BY <1>4, <2>3, <3>3 DEF Forms
      <4>3. QED
        BY <1>4, <2>1, <3>3, <4>1, <4>2
    <3>4. QED
      BY <3>2, <3>3
  <2>4. QED
    BY <1>7, <2>2, <2>3
<1>15. ASSUME ~HostsOwed'
       PROVE  /\ \A i \in DOMAIN r :
                   r[i].call.op = "hosts" /\ (\A j \in DOMAIN r : j > i => r[j].call.op # "hosts")
                     => r[i].ret = hosts
              /\ (\A i \in DOMAIN r : r[i].call.op # "hosts") => chain'.known = hosts
  <2>1. /\ \A i \in DOMAIN q :
             q[i].call.op = "hosts" /\ (\A j \in DOMAIN q : j > i => q[j].call.op # "hosts")
               => q[i].ret = hosts
        /\ (\A i \in DOMAIN q : q[i].call.op # "hosts") => chain.known = hosts
    BY <1>2, <1>9, <1>10, <1>15 DEF ListsComing, ListsHosts
  <2>2. ASSUME NEW i \in 1 .. Len(r), r[i].call.op = "hosts",
               \A j \in 1 .. Len(r) : j > i => r[j].call.op # "hosts"
        PROVE  r[i].ret = hosts
    <3>1. i + 1 \in DOMAIN q /\ q[i + 1] = r[i]
      BY <1>6, <1>12
    <3>2. ASSUME NEW j \in DOMAIN q, j > i + 1 PROVE q[j].call.op # "hosts"
      <4>1. j - 1 \in 1 .. Len(r) /\ j - 1 > i /\ q[j] = r[j - 1]
        BY <1>6, <1>12, <3>2
      <4>2. QED
        BY <2>2, <4>1
    <3>3. QED
      BY <2>1, <2>2, <3>1, <3>2
  <2>3. ASSUME \A i \in 1 .. Len(r) : r[i].call.op # "hosts" PROVE chain'.known = hosts
    <3>1. ASSUME NEW j \in DOMAIN q, j > 1 PROVE q[j].call.op # "hosts"
      <4>1. j - 1 \in 1 .. Len(r) /\ (j - 1) + 1 = j
        BY <1>6, <1>13, <3>1
      <4>2. r[j - 1] = q[j]
        BY <1>6, <4>1
      <4>3. QED
        BY <2>3, <4>1, <4>2
    <3>2. CASE a.call.op = "hosts"
      <4>1. 1 \in DOMAIN q /\ q[1] = a
        BY <1>6
      <4>2. a.ret = hosts
        BY <2>1, <3>1, <3>2, <4>1
      <4>3. QED
        BY <1>4, <3>2, <4>2
    <3>3. CASE a.call.op # "hosts"
      <4>1. \A j \in DOMAIN q : q[j].call.op # "hosts"
        BY <1>6, <3>1, <3>3
      <4>2. QED
        BY <1>4, <2>1, <3>3, <4>1
    <3>4. QED
      BY <3>2, <3>3
  <2>4. QED
    BY <1>7, <2>2, <2>3
<1>16. QED
  BY <1>4, <1>11, <1>14, <1>15 DEF ListsComing, ListsCreds, ListsHosts

LEMMA ServeListsComing ==
  ASSUME Typed, ListsComing, NEW ret, ServeStep(ret) PROVE ListsComing'
<1>1. PICK a : a = [call |-> Head(calls), ret |-> ret]
  OBVIOUS
<1>2. PICK q : q = answers
  OBVIOUS
<1>3. PICK r : r = Append(q, a)
  OBVIOUS
<1>4. /\ q \in Seq(ToSet(q)) /\ answers' = r /\ UNCHANGED <<picker, chain, hostDlg>>
      /\ calls # <<>> /\ calls' = Tail(calls) /\ calls \in Seq(ToSet(calls)) /\ a.call = Head(calls)
  BY <1>1, <1>2, <1>3 DEF ServeStep, Typed, PickersTypes, WireTypes
<1>5. /\ Len(q) \in Nat /\ Len(r) = Len(q) + 1 /\ r[Len(q) + 1] = a /\ \A i \in 1 .. Len(q) : r[i] = q[i]
      /\ r \in Seq(ToSet(r)) /\ ToSet(r) = ToSet(q) \cup {a}
  BY <1>3, <1>4, Queued
<1>6. DOMAIN q = 1 .. Len(q) /\ DOMAIN r = 1 .. Len(q) + 1
  BY <1>4, <1>5
<1>7. ToSet(calls) \subseteq ToSet(calls') \cup {a.call}
  BY <1>4, Unqueued
<1>8. PICK creds, hosts : creds = Present(credStore) /\ hosts = Present(hostStore)
  OBVIOUS
<1>9. /\ a.call.op = "creds" => a.ret = creds /\ Present(credStore)' = creds
      /\ a.call.op = "hosts" => a.ret = hosts /\ Present(hostStore)' = hosts
      /\ ~Changes(a, {"save cred", "drop cred"}) => Present(credStore)' = creds
      /\ ~Changes(a, {"save host", "drop host"}) => Present(hostStore)' = hosts
  BY <1>1, <1>8, ServeQueues DEF Changes
<1>10. ASSUME NEW f \in Forms, ~CredsOwed(f)'
       PROVE  /\ \A i \in DOMAIN r :
                   r[i].call.op = "creds" /\ r[i].call.f = f
                   /\ (\A j \in DOMAIN r : j > i => ~(r[j].call.op = "creds" /\ r[j].call.f = f))
                     => r[i].ret = Present(credStore)'
              /\ (\A i \in DOMAIN r : ~(r[i].call.op = "creds" /\ r[i].call.f = f))
                 /\ (f = "outer" \/ hostDlg'.open) => picker'[f].options = Present(credStore)'
  <2>1. ~Changes(a, {"save cred", "drop cred"})
    BY <1>4, <1>5, <1>10 DEF CredsOwed
  <2>2. Present(credStore)' = creds
    BY <1>9, <2>1
  <2>3. CASE a.call.op = "creds" /\ a.call.f = f
    <3>1. ASSUME NEW i \in DOMAIN r, i # Len(q) + 1 PROVE Len(q) + 1 > i /\ Len(q) + 1 \in DOMAIN r
      BY <1>5, <1>6, <3>1
    <3>2. r[Len(q) + 1] = a /\ Len(q) + 1 \in DOMAIN r
      BY <1>5, <1>6
    <3>3. a.ret = creds
      BY <1>9, <2>3
    <3>4. QED
      BY <2>2, <2>3, <3>1, <3>2, <3>3
  <2>4. CASE ~(a.call.op = "creds" /\ a.call.f = f)
    <3>1. ~CredsOwed(f)
      BY <1>2, <1>4, <1>5, <1>7, <1>10, <2>4 DEF CredsOwed
    <3>2. /\ \A i \in DOMAIN q :
               q[i].call.op = "creds" /\ q[i].call.f = f
               /\ (\A j \in DOMAIN q : j > i => ~(q[j].call.op = "creds" /\ q[j].call.f = f))
                 => q[i].ret = creds
          /\ (\A i \in DOMAIN q : ~(q[i].call.op = "creds" /\ q[i].call.f = f))
             /\ (f = "outer" \/ hostDlg.open) => picker[f].options = creds
      BY <1>2, <1>8, <3>1 DEF ListsComing, ListsCreds
    <3>3. ASSUME NEW i \in DOMAIN r, r[i].call.op = "creds" /\ r[i].call.f = f,
                 \A j \in DOMAIN r : j > i => ~(r[j].call.op = "creds" /\ r[j].call.f = f)
          PROVE  r[i].ret = creds
      <4>1. i # Len(q) + 1
        BY <1>5, <2>4, <3>3
      <4>2. i \in DOMAIN q /\ r[i] = q[i] /\ \A j \in DOMAIN q : j \in DOMAIN r /\ r[j] = q[j]
        BY <1>5, <1>6, <4>1
      <4>3. QED
        BY <3>2, <3>3, <4>2
    <3>4. ASSUME \A i \in DOMAIN r : ~(r[i].call.op = "creds" /\ r[i].call.f = f),
                 f = "outer" \/ hostDlg'.open
          PROVE  picker'[f].options = creds
      <4>1. \A j \in DOMAIN q : j \in DOMAIN r /\ r[j] = q[j]
        BY <1>5, <1>6
      <4>2. QED
        BY <1>4, <3>2, <3>4, <4>1
    <3>5. QED
      BY <2>2, <3>3, <3>4
  <2>5. QED
    BY <2>3, <2>4
<1>11. ASSUME ~HostsOwed'
       PROVE  /\ \A i \in DOMAIN r :
                   r[i].call.op = "hosts" /\ (\A j \in DOMAIN r : j > i => r[j].call.op # "hosts")
                     => r[i].ret = Present(hostStore)'
              /\ (\A i \in DOMAIN r : r[i].call.op # "hosts") => chain'.known = Present(hostStore)'
  <2>1. ~Changes(a, {"save host", "drop host"})
    BY <1>4, <1>5, <1>11 DEF HostsOwed
  <2>2. Present(hostStore)' = hosts
    BY <1>9, <2>1
  <2>3. CASE a.call.op = "hosts"
    <3>1. ASSUME NEW i \in DOMAIN r, i # Len(q) + 1 PROVE Len(q) + 1 > i /\ Len(q) + 1 \in DOMAIN r
      BY <1>5, <1>6, <3>1
    <3>2. r[Len(q) + 1] = a /\ Len(q) + 1 \in DOMAIN r
      BY <1>5, <1>6
    <3>3. a.ret = hosts
      BY <1>9, <2>3
    <3>4. QED
      BY <2>2, <2>3, <3>1, <3>2, <3>3
  <2>4. CASE a.call.op # "hosts"
    <3>1. ~HostsOwed
      BY <1>2, <1>4, <1>5, <1>7, <1>11, <2>4 DEF HostsOwed
    <3>2. /\ \A i \in DOMAIN q :
               q[i].call.op = "hosts" /\ (\A j \in DOMAIN q : j > i => q[j].call.op # "hosts")
                 => q[i].ret = hosts
          /\ (\A i \in DOMAIN q : q[i].call.op # "hosts") => chain.known = hosts
      BY <1>2, <1>8, <3>1 DEF ListsComing, ListsHosts
    <3>3. ASSUME NEW i \in DOMAIN r, r[i].call.op = "hosts",
                 \A j \in DOMAIN r : j > i => r[j].call.op # "hosts"
          PROVE  r[i].ret = hosts
      <4>1. i # Len(q) + 1
        BY <1>5, <2>4, <3>3
      <4>2. i \in DOMAIN q /\ r[i] = q[i] /\ \A j \in DOMAIN q : j \in DOMAIN r /\ r[j] = q[j]
        BY <1>5, <1>6, <4>1
      <4>3. QED
        BY <3>2, <3>3, <4>2
    <3>4. ASSUME \A i \in DOMAIN r : r[i].call.op # "hosts" PROVE chain'.known = hosts
      <4>1. \A j \in DOMAIN q : j \in DOMAIN r /\ r[j] = q[j]
        BY <1>5, <1>6
      <4>2. QED
        BY <1>4, <3>2, <3>4, <4>1
    <3>5. QED
      BY <2>2, <3>3, <3>4
  <2>5. QED
    BY <2>3, <2>4
<1>12. QED
  BY <1>4, <1>10, <1>11 DEF ListsComing, ListsCreds, ListsHosts

LEMMA ClickNewHosts ==
  ASSUME Typed, NewHostsJoin, ChainFollows, NEW A, ClickStep(A) PROVE NewHostsJoin'
<1>1. /\ answers' = answers /\ hostStore' = hostStore /\ chain'.known = chain.known
      /\ Len(calls) \in Nat /\ Len(calls') \in Nat /\ DOMAIN calls = 1 .. Len(calls) /\ DOMAIN calls' = 1 .. Len(calls')
      /\ \A i \in 1 .. Len(calls) : calls'[i] = calls[i]
      /\ \A i \in Len(calls) + 1 .. Len(calls') : calls'[i] \in A
      /\ ToSet(calls') = ToSet(calls) \cup A
  BY DEF ClickStep, Grows
<1>2. \A c \in A : ~Joining(c) /\ \A h : Drops(c, h) => h = chain.focus /\ h \in Hosts
  BY DEF ClickStep, ClickAsk, Joining, Drops, IsCall
<1>3. chain.focus \in chain.known \cup {Nil}
  BY DEF ChainFollows
<1>4. ASSUME NEW i \in DOMAIN calls', Joining(calls'[i])
      PROVE  /\ calls'[i].id \in Present(hostStore)
             /\ \A j \in DOMAIN calls' : j < i => ~Drops(calls'[j], calls'[i].id)
  <2>1. i \in 1 .. Len(calls)
    BY <1>1, <1>2, <1>4
  <2>2. \A j \in DOMAIN calls' : j < i => j \in DOMAIN calls /\ calls'[j] = calls[j]
    BY <1>1, <2>1
  <2>3. calls'[i] = calls[i] /\ i \in DOMAIN calls
    BY <1>1, <2>1
  <2>4. QED
    BY <1>4, <2>2, <2>3 DEF NewHostsJoin
<1>5. ASSUME NEW i \in DOMAIN answers, NEW a, a = answers[i], a.call.op = "save host", a.call.id = Nil, a.ret # Nil
      PROVE  \A c \in ToSet(calls') : ~Drops(c, a.ret)
  <2>1. a.ret \in Present(hostStore) \ chain.known /\ \A c \in ToSet(calls) : ~Drops(c, a.ret)
    BY <1>5 DEF NewHostsJoin
  <2>2. QED
    BY <1>1, <1>2, <1>3, <1>5, <2>1
<1>6. Present(hostStore)' = Present(hostStore)
  BY <1>1
<1>7. QED
  BY <1>1, <1>4, <1>5, <1>6 DEF NewHostsJoin

LEMMA TakeNewHosts ==
  ASSUME Typed, NewHostsJoin, SavesAreOwn, NEW A, TakeStep(A) PROVE NewHostsJoin'
<1>1. PICK a : a = Head(answers)
  OBVIOUS
<1>2. PICK q : q = answers
  OBVIOUS
<1>3. PICK r : r = Tail(q)
  OBVIOUS
<1>4. /\ q \in Seq(ToSet(q)) /\ q # <<>> /\ answers' = r /\ Head(q) = a /\ hostStore' = hostStore
      /\ chain'.known = IF a.call.op = "hosts" THEN a.ret ELSE chain.known
  BY <1>1, <1>2, <1>3 DEF TakeStep, Typed, PickersTypes, WireTypes
<1>5. /\ Len(q) \in Nat /\ Len(q) > 0 /\ Len(r) = Len(q) - 1 /\ \A i \in 1 .. Len(r) : r[i] = q[i + 1]
      /\ DOMAIN q = 1 .. Len(q) /\ r \in Seq(ToSet(r)) /\ q[1] = a
  BY <1>3, <1>4, Unqueued
<1>6. DOMAIN r = 1 .. Len(r)
  BY <1>5
<1>7. \A i \in DOMAIN r : i + 1 \in DOMAIN q /\ q[i + 1] = r[i] /\ 1 \in DOMAIN q /\ 1 < i + 1
  BY <1>5, <1>6
<1>8. /\ Len(calls) \in Nat /\ Len(calls') \in Nat /\ DOMAIN calls = 1 .. Len(calls) /\ DOMAIN calls' = 1 .. Len(calls')
      /\ \A i \in 1 .. Len(calls) : calls'[i] = calls[i]
      /\ \A i \in Len(calls) + 1 .. Len(calls') : calls'[i] \in A
      /\ ToSet(calls') = ToSet(calls) \cup A
  BY DEF TakeStep, Grows
<1>9. \A c \in A : /\ Joining(c) => a.call.op = "save host" /\ a.ret # Nil /\ c.id = a.ret /\ chain.creating
                   /\ \A h : ~Drops(c, h)
  BY <1>1 DEF TakeStep, TakeAsk, Drops
<1>10. Present(hostStore)' = Present(hostStore)
  BY <1>4
<1>11. \A i \in DOMAIN r : Joining(r[i].call) => r[i].call.id \in r[i].ret
  BY <1>2, <1>7 DEF NewHostsJoin
<1>12. ASSUME a.call.op = "save host", a.ret # Nil, chain.creating
       PROVE  a.ret \in Present(hostStore) /\ \A c \in ToSet(calls) : ~Drops(c, a.ret)
  <2>1. 1 \in DOMAIN answers /\ answers[1] = a
    BY <1>2, <1>5
  <2>2. a.call.id = Nil
    <3>1. a.call \in UnderWay /\ SavesFor(a.call, "hop") /\ "hop" \in Editing
      <4>1. a \in ToSet(answers)
        BY <1>1, <1>2, <1>4, HeadIs
      <4>2. QED
        BY <1>12, <4>1 DEF UnderWay, SavesFor, Editing
    <3>2. QED
      BY <1>12, <3>1 DEF SavesAreOwn, Waits
  <2>3. QED
    BY <1>12, <2>1, <2>2 DEF NewHostsJoin
<1>13. ASSUME NEW i \in DOMAIN calls', Joining(calls'[i])
       PROVE  /\ calls'[i].id \in Present(hostStore)
              /\ \A j \in DOMAIN calls' : j < i => ~Drops(calls'[j], calls'[i].id)
  <2>1. CASE i \in 1 .. Len(calls)
    <3>1. calls'[i] = calls[i] /\ i \in DOMAIN calls
      BY <1>8, <2>1
    <3>2. \A j \in DOMAIN calls' : j < i => j \in DOMAIN calls /\ calls'[j] = calls[j]
      BY <1>8, <2>1
    <3>3. QED
      BY <1>13, <3>1, <3>2 DEF NewHostsJoin
  <2>2. CASE i \in Len(calls) + 1 .. Len(calls')
    <3>1. calls'[i].id = a.ret /\ a.call.op = "save host" /\ a.ret # Nil /\ chain.creating
      BY <1>8, <1>9, <1>13, <2>2
    <3>2. \A j \in DOMAIN calls' : calls'[j] \in ToSet(calls) \cup A
      BY <1>8 DEF ToSet
    <3>3. QED
      BY <1>9, <1>12, <3>1, <3>2
  <2>3. QED
    BY <1>8, <2>1, <2>2
<1>14. ASSUME NEW i \in DOMAIN r, r[i].call.op = "save host", r[i].call.id = Nil, r[i].ret # Nil
       PROVE  /\ r[i].ret \in Present(hostStore) \ chain'.known
              /\ \A c \in ToSet(calls') : ~Drops(c, r[i].ret)
              /\ \A j \in DOMAIN r : j < i /\ r[j].call.op = "hosts" => r[i].ret \notin r[j].ret
  <2>1. /\ r[i].ret \in Present(hostStore) \ chain.known
        /\ \A c \in ToSet(calls) : ~Drops(c, r[i].ret)
        /\ \A j \in DOMAIN q : j < i + 1 /\ q[j].call.op = "hosts" => r[i].ret \notin q[j].ret
    BY <1>2, <1>7, <1>14 DEF NewHostsJoin
  <2>2. r[i].ret \notin chain'.known
    BY <1>4, <1>5, <1>7, <2>1
  <2>3. \A j \in DOMAIN r : j < i => j + 1 < i + 1
    BY <1>6
  <2>4. QED
    BY <1>7, <1>8, <1>9, <2>1, <2>2, <2>3
<1>15. QED
  BY <1>4, <1>10, <1>11, <1>13, <1>14 DEF NewHostsJoin

LEMMA ServeNewHosts ==
  ASSUME Typed, NewHostsJoin, NEW ret, ServeStep(ret) PROVE NewHostsJoin'
<1>1. PICK c : c = Head(calls)
  OBVIOUS
<1>2. PICK a : a = [call |-> c, ret |-> ret]
  OBVIOUS
<1>3. PICK q : q = answers
  OBVIOUS
<1>4. PICK r : r = Append(q, a)
  OBVIOUS
<1>5. /\ q \in Seq(ToSet(q)) /\ answers' = r /\ UNCHANGED chain
      /\ calls # <<>> /\ calls' = Tail(calls) /\ calls \in Seq(ToSet(calls)) /\ a.call = c /\ a.ret = ret
      /\ \/ Looks(c, ret) \/ Refuses(c, ret) \/ SavesCredAs(c, ret) \/ SavesHostAs(c, ret)
         \/ DropsCred(c, ret) \/ DropsHost(c, ret)
  BY <1>1, <1>2, <1>3, <1>4 DEF ServeStep, Typed, PickersTypes, WireTypes
<1>6. /\ Len(q) \in Nat /\ r[Len(q) + 1] = a /\ \A i \in 1 .. Len(q) : r[i] = q[i]
      /\ DOMAIN r = 1 .. Len(q) + 1 /\ DOMAIN q = 1 .. Len(q)
  <2>1. /\ Len(q) \in Nat /\ Len(r) = Len(q) + 1 /\ r[Len(q) + 1] = a /\ \A i \in 1 .. Len(q) : r[i] = q[i]
        /\ r \in Seq(ToSet(r))
    BY <1>4, <1>5, Queued
  <2>2. QED
    BY <1>5, <2>1
<1>7. /\ Len(calls) \in Nat /\ Len(calls) > 0 /\ \A i \in DOMAIN calls' : i + 1 \in DOMAIN calls /\ calls'[i] = calls[i + 1] /\ 1 < i + 1
      /\ c = calls[1] /\ 1 \in DOMAIN calls /\ ToSet(calls') \subseteq ToSet(calls) /\ DOMAIN calls' \subseteq Nat /\ c \in ToSet(calls)
  <2>1. /\ Len(calls) \in Nat /\ Len(calls) > 0 /\ Len(calls') = Len(calls) - 1 /\ \A i \in 1 .. Len(calls') : calls'[i] = calls[i + 1]
        /\ calls' \in Seq(ToSet(calls')) /\ ToSet(calls') \subseteq ToSet(calls) /\ c = calls[1] /\ c \in ToSet(calls)
    BY <1>1, <1>5, Unqueued
  <2>2. DOMAIN calls' = 1 .. Len(calls') /\ DOMAIN calls = 1 .. Len(calls)
    BY <1>5, <2>1
  <2>3. QED
    BY <2>1, <2>2
<1>8. StoreTypes /\ StoreTypes' /\ IsCall(c) /\ CallKnown(c) /\ Nil \notin Hosts
  BY <1>1, <1>5, CallIs, ServeStores, PickersAssumption DEF Typed, PickersTypes
<1>9. /\ \A x : x \in Present(hostStore)' <=> x \in Hosts /\ hostStore'[x] # Nil
      /\ \A x : x \in Present(hostStore) <=> x \in Hosts /\ hostStore[x] # Nil
  BY <1>8 DEF StoreTypes, Present
<1>10. \A h \in Present(hostStore) : ~Drops(c, h) => h \in Present(hostStore)'
  <2>1. CASE Looks(c, ret) \/ Refuses(c, ret) \/ SavesCredAs(c, ret) \/ DropsCred(c, ret)
    BY <1>9, <2>1 DEF Looks, Refuses, SavesCredAs, DropsCred
  <2>2. CASE SavesHostAs(c, ret)
    BY <1>8, <1>9, <2>2, PickersAssumption DEF SavesHostAs, StoreTypes, IsCall
  <2>3. CASE DropsHost(c, ret)
    BY <1>8, <1>9, <2>3 DEF DropsHost, StoreTypes, IsCall, Drops
  <2>4. QED
    BY <1>5, <2>1, <2>2, <2>3
<1>11. Joining(c) => c.id \in ret
  <2>1. c.op = "hosts" => ret = Present(hostStore)
    BY <1>5 DEF Looks, Refuses, SavesCredAs, SavesHostAs, DropsCred, DropsHost
  <2>2. Joining(c) => c.op = "hosts" /\ c.id \in Present(hostStore)
    BY <1>7 DEF NewHostsJoin, Joining
  <2>3. QED
    BY <2>1, <2>2
<1>12. \A i \in DOMAIN r : Joining(r[i].call) => r[i].call.id \in r[i].ret
  <2>1. \A i \in DOMAIN q : Joining(q[i].call) => q[i].call.id \in q[i].ret
    BY <1>3 DEF NewHostsJoin
  <2>2. QED
    BY <1>5, <1>6, <1>11, <2>1
<1>13. ASSUME NEW i \in DOMAIN calls', Joining(calls'[i])
       PROVE  /\ calls'[i].id \in Present(hostStore)'
              /\ \A j \in DOMAIN calls' : j < i => ~Drops(calls'[j], calls'[i].id)
  <2>1. calls[i + 1].id \in Present(hostStore) /\ \A j \in DOMAIN calls : j < i + 1 => ~Drops(calls[j], calls[i + 1].id)
    BY <1>7, <1>13 DEF NewHostsJoin
  <2>2. ~Drops(c, calls[i + 1].id)
    BY <1>7, <2>1
  <2>3. \A j \in DOMAIN calls' : j < i => j + 1 < i + 1
    BY <1>7
  <2>4. QED
    BY <1>7, <1>10, <2>1, <2>2, <2>3
<1>14. ASSUME NEW i \in DOMAIN r, r[i].call.op = "save host", r[i].call.id = Nil, r[i].ret # Nil
       PROVE  /\ r[i].ret \in Present(hostStore)' \ chain.known
              /\ \A d \in ToSet(calls) : ~Drops(d, r[i].ret)
              /\ \A j \in DOMAIN r : j < i /\ r[j].call.op = "hosts" => r[i].ret \notin r[j].ret
  <2>1. CASE i \in 1 .. Len(q)
    <3>1. i \in DOMAIN q /\ r[i] = q[i] /\ \A j \in DOMAIN r : j < i => j \in DOMAIN q /\ r[j] = q[j]
      BY <1>6, <2>1
    <3>2. /\ q[i].ret \in Present(hostStore) \ chain.known
          /\ \A d \in ToSet(calls) : ~Drops(d, q[i].ret)
          /\ \A j \in DOMAIN q : j < i /\ q[j].call.op = "hosts" => q[i].ret \notin q[j].ret
      BY <1>3, <1>14, <3>1 DEF NewHostsJoin
    <3>3. q[i].ret \in Present(hostStore)'
      BY <1>7, <1>10, <3>2
    <3>4. QED
      BY <3>1, <3>2, <3>3
  <2>2. CASE i = Len(q) + 1
    <3>1. r[i] = a /\ c.op = "save host" /\ c.id = Nil /\ ret # Nil
      BY <1>5, <1>6, <1>14, <2>2
    <3>2. SavesHostAs(c, ret)
      BY <1>5, <3>1 DEF Looks, Refuses, SavesCredAs, DropsCred, DropsHost
    <3>3. ret \in Hosts /\ hostStore[ret] = Nil /\ ret \notin spent /\ c.cred # Nil
          /\ hostStore' = [hostStore EXCEPT ![ret] = c.cred]
      BY <1>8, <3>1, <3>2, PickersAssumption DEF SavesHostAs, IsCall
    <3>4. ret \in Present(hostStore)' /\ ~KnownHost(ret)
      BY <1>8, <1>9, <3>1, <3>3 DEF StoreTypes, KnownHost
    <3>5. ret \notin chain.known
      BY <3>4 DEF Typed, IdsKnown, WindowKnown
    <3>6. \A d \in ToSet(calls) : ~Drops(d, ret)
      BY <3>4 DEF Typed, IdsKnown, WireKnown, CallKnown, Drops
    <3>7. \A b \in ToSet(q) : b.call.op = "hosts" => ret \notin b.ret
      BY <1>3, <3>4 DEF Typed, IdsKnown, WireKnown, AnswerKnown
    <3>8. \A j \in DOMAIN r : j < i => r[j] \in ToSet(q)
      BY <1>6, <2>2 DEF ToSet
    <3>9. QED
      BY <1>5, <3>1, <3>4, <3>5, <3>6, <3>7, <3>8
  <2>3. QED
    BY <1>6, <2>1, <2>2
<1>15. QED
  BY <1>5, <1>7, <1>12, <1>13, <1>14 DEF NewHostsJoin

LEMMA AloneGrown ==
  ASSUME NEW q, NEW r, NEW k, Alone(q, r, k), NEW p, NEW A, Grows(q, p, A), \A c \in A : ~SavesFor(c, k)
  PROVE  Alone(p, r, k)
<1>1. \A i \in DOMAIN p : SavesFor(p[i], k) => i \in DOMAIN q /\ p[i] = q[i]
  BY DEF Grows
<1>2. QED
  BY <1>1 DEF Alone

LEMMA AloneFirst ==
  ASSUME NEW q, q \in Seq(ToSet(q)), NEW r, NEW k, NEW c,
         \A i \in DOMAIN q : ~SavesFor(q[i], k), \A i \in DOMAIN r : ~SavesFor(r[i].call, k)
  PROVE  Alone(Append(q, c), r, k)
<1> DEFINE p == Append(q, c)
<1>1. /\ Len(q) \in Nat /\ Len(p) = Len(q) + 1 /\ \A i \in 1 .. Len(q) : p[i] = q[i]
      /\ p \in Seq(ToSet(p))
  BY Queued
<1>2. DOMAIN p = 1 .. Len(q) + 1 /\ DOMAIN q = 1 .. Len(q)
  BY <1>1
<1> HIDE DEF p
<1>3. \A i \in DOMAIN p : SavesFor(p[i], k) => i = Len(q) + 1
  BY <1>1, <1>2
<1>4. QED
  BY <1>3 DEF Alone, p

LEMMA AloneTaken ==
  ASSUME NEW q, NEW r, r \in Seq(ToSet(r)), r # <<>>, NEW k, Alone(q, r, k)
  PROVE  /\ Alone(q, Tail(r), k)
         /\ SavesFor(Head(r).call, k) => /\ \A i \in DOMAIN q : ~SavesFor(q[i], k)
                                         /\ \A i \in DOMAIN Tail(r) : ~SavesFor(Tail(r)[i].call, k)
<1> DEFINE p == Tail(r)
<1>1. /\ Len(r) \in Nat /\ Len(r) > 0 /\ Len(p) = Len(r) - 1 /\ \A i \in 1 .. Len(p) : p[i] = r[i + 1]
      /\ Head(r) = r[1] /\ p \in Seq(ToSet(p))
  BY Unqueued
<1>2. DOMAIN p = 1 .. Len(p) /\ DOMAIN r = 1 .. Len(r)
  BY <1>1
<1> HIDE DEF p
<1>3. 1 \in DOMAIN r /\ \A i \in DOMAIN p : i + 1 \in DOMAIN r /\ p[i] = r[i + 1] /\ i + 1 # 1
  BY <1>1, <1>2
<1>4. \A i, j \in DOMAIN p : i + 1 = j + 1 => i = j
  BY <1>2
<1>5. Alone(q, p, k)
  BY <1>3, <1>4 DEF Alone
<1>6. SavesFor(r[1].call, k) => /\ \A i \in DOMAIN q : ~SavesFor(q[i], k)
                                /\ \A i \in DOMAIN p : ~SavesFor(p[i].call, k)
  BY <1>3 DEF Alone
<1>7. QED
  BY <1>1, <1>5, <1>6 DEF p

LEMMA AloneServed ==
  ASSUME NEW q, q \in Seq(ToSet(q)), q # <<>>, NEW r, r \in Seq(ToSet(r)), NEW k, Alone(q, r, k),
         NEW a, a.call = Head(q)
  PROVE  Alone(Tail(q), Append(r, a), k)
<1> DEFINE p == Tail(q)
           s == Append(r, a)
<1>1. /\ Len(q) \in Nat /\ Len(q) > 0 /\ Len(p) = Len(q) - 1 /\ \A i \in 1 .. Len(p) : p[i] = q[i + 1]
      /\ Head(q) = q[1] /\ p \in Seq(ToSet(p))
  BY Unqueued
<1>2. DOMAIN p = 1 .. Len(p) /\ DOMAIN q = 1 .. Len(q)
  BY <1>1
<1>3. /\ Len(r) \in Nat /\ Len(s) = Len(r) + 1 /\ s[Len(r) + 1] = a /\ \A i \in 1 .. Len(r) : s[i] = r[i]
      /\ s \in Seq(ToSet(s))
  BY Queued
<1>4. DOMAIN s = 1 .. Len(r) + 1 /\ DOMAIN r = 1 .. Len(r)
  BY <1>3
<1> HIDE DEF p, s
<1>5. 1 \in DOMAIN q /\ \A i \in DOMAIN p : i + 1 \in DOMAIN q /\ p[i] = q[i + 1] /\ i + 1 # 1
  BY <1>1, <1>2
<1>6. \A i, j \in DOMAIN p : i + 1 = j + 1 => i = j
  BY <1>2
<1>7. \A j \in DOMAIN s : (j \in DOMAIN r /\ s[j] = r[j]) \/ (j = Len(r) + 1 /\ s[j].call = q[1])
  BY <1>1, <1>3, <1>4
<1>8. ASSUME NEW i \in DOMAIN p, SavesFor(p[i], k)
      PROVE  /\ \A j \in DOMAIN p : SavesFor(p[j], k) => j = i
             /\ \A j \in DOMAIN s : ~SavesFor(s[j].call, k)
  <2>1. /\ \A j \in DOMAIN q : SavesFor(q[j], k) => j = i + 1
        /\ \A j \in DOMAIN r : ~SavesFor(r[j].call, k)
    BY <1>5, <1>8 DEF Alone
  <2>2. QED
    BY <1>5, <1>6, <1>7, <1>8, <2>1
<1>9. ASSUME NEW i \in DOMAIN s, NEW j \in DOMAIN s, SavesFor(s[i].call, k), SavesFor(s[j].call, k) PROVE i = j
  <2>1. CASE SavesFor(q[1], k)
    <3>1. \A l \in DOMAIN r : ~SavesFor(r[l].call, k)
      BY <1>5, <2>1 DEF Alone
    <3>2. QED
      BY <1>7, <1>9, <3>1
  <2>2. CASE ~SavesFor(q[1], k)
    <3>1. i \in DOMAIN r /\ j \in DOMAIN r /\ s[i] = r[i] /\ s[j] = r[j]
      BY <1>7, <1>9, <2>2
    <3>2. QED
      BY <1>9, <3>1 DEF Alone
  <2>3. QED
    BY <2>1, <2>2
<1>10. QED
  BY <1>8, <1>9 DEF Alone, p, s

-----------------------------------------------------------------------------
\* No save is heard of that nothing waits for.
LEMMA Unwaited ==
  ASSUME SavesAreOwn, NEW k \in Editing, \A id : ~Waits(k, id)
  PROVE  /\ \A i \in DOMAIN calls : ~SavesFor(calls[i], k)
         /\ \A i \in DOMAIN answers : ~SavesFor(answers[i].call, k)
<1>1. \A c \in UnderWay : ~SavesFor(c, k)
  BY DEF SavesAreOwn
<1>2. (\A i \in DOMAIN calls : calls[i] \in UnderWay) /\ (\A i \in DOMAIN answers : answers[i].call \in UnderWay)
  BY DEF UnderWay, ToSet
<1>3. QED
  BY <1>1, <1>2

LEMMA ClickUnderWay ==
  ASSUME Typed, NEW A, ClickStep(A) PROVE UnderWay' = UnderWay \cup A
BY DEF ClickStep, Grows, UnderWay

LEMMA TakeUnderWay ==
  ASSUME Typed, NEW A, TakeStep(A) PROVE UnderWay' \subseteq UnderWay \cup A
<1>1. ToSet(answers') \subseteq ToSet(answers)
  BY Unqueued DEF TakeStep, Typed, PickersTypes, WireTypes
<1>2. ToSet(calls') = ToSet(calls) \cup A
  BY DEF TakeStep, Grows
<1>3. QED
  BY <1>1, <1>2 DEF UnderWay

LEMMA ServeUnderWay ==
  ASSUME Typed, NEW ret, ServeStep(ret) PROVE UnderWay' \subseteq UnderWay
<1>1. PICK a : a = [call |-> Head(calls), ret |-> ret]
  OBVIOUS
<1>2. ToSet(calls') \subseteq ToSet(calls) /\ a.call \in ToSet(calls)
  BY <1>1, Unqueued DEF ServeStep, Typed, PickersTypes, WireTypes
<1>3. ToSet(answers') = ToSet(answers) \cup {a}
  BY <1>1, Queued DEF ServeStep, Typed, PickersTypes, WireTypes
<1>4. QED
  BY <1>2, <1>3 DEF UnderWay

\* Nothing but the answer makes an editor that is saving stop waiting.
LEMMA ClickWaits ==
  ASSUME Typed, Clicks, ~crossed'
  PROVE  \A k \in Editing : \A id : Waits(k, id) => Waits(k, id)'
<1> SUFFICES ASSUME NEW k \in Editing, NEW id, Waits(k, id) PROVE Waits(k, id)'
  OBVIOUS
<1> USE DEF Waits, Typed, PickersTypes, WindowTypes, Editors
<1>1. ASSUME NEW f \in Forms, NEW x \in Creds \cup {Nil}, PickCred(f, x) PROVE Waits(k, id)'
  BY <1>1 DEF PickCred, Tell
<1>2. ASSUME NEW f \in Forms, AskEditCred(f) \/ AskDeleteCred(f) PROVE Waits(k, id)'
  BY <1>2 DEF AskEditCred, AskDeleteCred
<1>3. ASSUME NEW f \in Forms, NewCred(f) PROVE Waits(k, id)'
  BY <1>3 DEF NewCred
<1>4. ASSUME NEW f \in Forms, NEW auth \in Auths, ChangeType(f, auth) PROVE Waits(k, id)'
  BY <1>4 DEF ChangeType
<1>5. ASSUME NEW f \in Forms, TypeSecret(f) PROVE Waits(k, id)'
  BY <1>5 DEF TypeSecret
<1>6. ASSUME NEW f \in Forms, SaveCredential(f) PROVE Waits(k, id)'
  <2>1. ~credDlg[f].saving /\ hostDlg' = hostDlg /\ credDlg' = [credDlg EXCEPT ![f].saving = TRUE]
    BY <1>6 DEF SaveCredential
  <2>2. k \in Forms => k # f /\ credDlg'[k] = credDlg[k]
    BY <2>1 DEF Forms
  <2>3. QED
    BY <2>1, <2>2 DEF Editing
<1>7. ASSUME NEW f \in Forms, CancelCred(f) PROVE Waits(k, id)'
  BY <1>7 DEF CancelCred
<1>8. ASSUME NEW h \in Hosts, Focus(h) PROVE Waits(k, id)'
  BY <1>8 DEF Focus
<1>9. ASSUME NEW i \in DOMAIN chain.ids, RemoveHop(i) \/ MoveHop(i) PROVE Waits(k, id)'
  BY <1>9 DEF RemoveHop, MoveHop
<1>10. CASE NewHost
  BY <1>10 DEF NewHost, LoadHost
<1>11. CASE AddHop \/ AskEditHost \/ AskDeleteHost
  BY <1>11 DEF AddHop, AskEditHost, AskDeleteHost
<1>12. CASE SaveHost
  BY <1>12 DEF SaveHost
<1>13. CASE CancelHost
  BY <1>13 DEF CancelHost
<1>14. QED
  BY <1>1, <1>2, <1>3, <1>4, <1>5, <1>6, <1>7, <1>8, <1>9, <1>10, <1>11, <1>12, <1>13 DEF Clicks

LEMMA TakeWaits ==
  ASSUME Typed, Takes, ~crossed'
  PROVE  \A k \in Editing : \A id : Waits(k, id) => Waits(k, id)' \/ SavesFor(Head(answers).call, k)
<1> SUFFICES ASSUME NEW k \in Editing, NEW id, Waits(k, id), ~SavesFor(Head(answers).call, k)
             PROVE  Waits(k, id)'
  OBVIOUS
<1> PICK a : a = Head(answers)
  OBVIOUS
<1>1. CASE CredsListed
  <2>1. PICK f : f = a.call.f
    OBVIOUS
  <2>2. credDlg' = credDlg
    BY <1>1 DEF CredsListed
  <2>3. hostDlg'.saving = hostDlg.saving /\ hostDlg'.id = hostDlg.id
    <3>1. \/ UNCHANGED hostDlg
          \/ hostDlg' = [hostDlg EXCEPT !.open = TRUE]
          \/ Tell(f, picker'[f].value)
      BY <1>1, <2>1, CredsListedIs
    <3>2. QED
      BY <3>1 DEF Tell, Typed, PickersTypes, WindowTypes
  <2>4. QED
    BY <2>2, <2>3 DEF Waits
<1>2. CASE CredGot
  <2>1. PICK f : f = a.call.f
    OBVIOUS
  <2>2. hostDlg' = hostDlg
    BY <1>2 DEF CredGot
  <2>3. credDlg' = credDlg \/ (~credDlg[f].saving /\ \E d : credDlg' = [credDlg EXCEPT ![f] = d])
    BY <1>2, <2>1 DEF CredGot
  <2>4. k \in Forms => credDlg'[k] = credDlg[k]
    <3>1. CASE credDlg' = credDlg
      BY <3>1
    <3>2. CASE credDlg' # credDlg
      <4>1. PICK d : credDlg' = [credDlg EXCEPT ![f] = d]
        BY <2>3, <3>2
      <4>2. k \in Forms => k # f
        BY <2>3, <3>2 DEF Waits, Forms
      <4>3. QED
        BY <4>1, <4>2 DEF Typed, PickersTypes, WindowTypes
    <3>3. QED
      BY <3>1, <3>2
  <2>5. QED
    BY <2>2, <2>4 DEF Waits, Editing
<1>3. CASE CredSaved
  <2>1. PICK f : f = a.call.f
    OBVIOUS
  <2>2. a.call.op = "save cred" /\ hostDlg' = hostDlg
    BY <1>3 DEF CredSaved, Answer
  <2>3. f # k \/ k = "hop"
    BY <2>1, <2>2 DEF SavesFor
  <2>4. credDlg' = [credDlg EXCEPT ![f].saving = FALSE, ![f].open = @ /\ a.ret = Nil]
    BY <1>3, <2>1 DEF CredSaved
  <2>5. k # "hop" => k \in Forms /\ credDlg'[k] = credDlg[k]
    BY <2>3, <2>4 DEF Typed, PickersTypes, WindowTypes, Editing
  <2>6. QED
    BY <2>2, <2>5 DEF Waits
<1>4. CASE CredDropped \/ HostDropped
  BY <1>4 DEF CredDropped, HostDropped, Waits
<1>5. CASE HostsListed
  BY <1>5 DEF HostsListed, Waits
<1>6. CASE HostGot
  <2>1. credDlg' = credDlg /\ (hostDlg' = hostDlg \/ ~hostDlg.saving)
    BY <1>6 DEF HostGot
  <2>2. QED
    BY <2>1 DEF Waits
<1>7. CASE HostSaved
  BY <1>7 DEF HostSaved, Answer, SavesFor, Waits
<1>8. QED
  BY <1>1, <1>2, <1>3, <1>4, <1>5, <1>6, <1>7 DEF Takes

\* Two editors are never open on one record, and a record that is being made has no id.
OneEach == \A f, g \in Forms : f # g /\ credDlg[f].open /\ credDlg[g].open /\ credDlg[f].id = credDlg[g].id
             => credDlg[f].id = Nil
Making == chain.creating => hostDlg.id = Nil

LEMMA LoadedNil ==
  ASSUME Typed, NEW f \in Forms PROVE LoadedCred(credDlg[f], Nil, Nil).id = Nil
<1>1. credDlg[f] \in Editors
  BY DEF Typed, PickersTypes, WindowTypes
<1>2. Nil \in Creds \cup {Nil} /\ Nil \in Secrets \cup {Nil}
  OBVIOUS
<1>3. QED
  BY <1>1, <1>2, LoadedIs

LEMMA ClickOnce ==
  ASSUME Typed, OneEach, Making, Clicks
  PROVE  OneEach' /\ Making'
<1> USE DEF OneEach, Making, Typed, PickersTypes, WindowTypes, Editors
<1>1. ASSUME NEW f \in Forms, NEW x \in Creds \cup {Nil}, PickCred(f, x) PROVE OneEach' /\ Making'
  BY <1>1 DEF PickCred, Tell
<1>2. ASSUME NEW f \in Forms, AskEditCred(f) \/ AskDeleteCred(f) PROVE OneEach' /\ Making'
  BY <1>2 DEF AskEditCred, AskDeleteCred
<1>3. ASSUME NEW f \in Forms, NewCred(f) PROVE OneEach' /\ Making'
  <2>1. PICK d : d = LoadedCred(credDlg[f], Nil, Nil)
    OBVIOUS
  <2>2. d.id = Nil
    BY <2>1, LoadedNil
  <2>3. credDlg' = [credDlg EXCEPT ![f] = d] /\ chain' = chain /\ hostDlg' = hostDlg
    BY <1>3, <2>1 DEF NewCred
  <2>4. QED
    BY <2>2, <2>3
<1>4. ASSUME NEW f \in Forms, NEW auth \in Auths, ChangeType(f, auth) PROVE OneEach' /\ Making'
  BY <1>4 DEF ChangeType, WithAuth
<1>5. ASSUME NEW f \in Forms, TypeSecret(f) PROVE OneEach' /\ Making'
  BY <1>5 DEF TypeSecret
<1>6. ASSUME NEW f \in Forms, SaveCredential(f) PROVE OneEach' /\ Making'
  BY <1>6 DEF SaveCredential
<1>7. ASSUME NEW f \in Forms, CancelCred(f) PROVE OneEach' /\ Making'
  BY <1>7 DEF CancelCred
<1>8. ASSUME NEW h \in Hosts, Focus(h) PROVE OneEach' /\ Making'
  BY <1>8 DEF Focus
<1>9. ASSUME NEW i \in DOMAIN chain.ids, RemoveHop(i) \/ MoveHop(i) PROVE OneEach' /\ Making'
  BY <1>9 DEF RemoveHop, MoveHop
<1>10. CASE NewHost
  BY <1>10 DEF NewHost, LoadHost
<1>11. CASE AddHop \/ AskEditHost \/ AskDeleteHost
  BY <1>11 DEF AddHop, AskEditHost, AskDeleteHost
<1>12. CASE SaveHost
  BY <1>12 DEF SaveHost
<1>13. CASE CancelHost
  BY <1>13 DEF CancelHost
<1>14. QED
  BY <1>1, <1>2, <1>3, <1>4, <1>5, <1>6, <1>7, <1>8, <1>9, <1>10, <1>11, <1>12, <1>13 DEF Clicks

\* An editor that asks to be saved was not waiting, and waits then.
LEMMA ClickSaves ==
  ASSUME Typed, NEW A, ClickStep(A), NEW k \in Editing, NEW c \in A, SavesFor(c, k)
  PROVE  calls' = Append(calls, c) /\ (\A id : ~Waits(k, id)) /\ Waits(k, c.id)'
<1>1. ClickAsk(c)
  BY DEF ClickStep
<1>2. CASE k = "hop"
  <2>1. c = HostCall /\ SaveHost
    BY <1>1, <1>2 DEF ClickAsk, SavesFor
  <2>2. calls' = Append(calls, c) /\ ~hostDlg.saving /\ hostDlg' = [hostDlg EXCEPT !.saving = TRUE]
        /\ c.id = hostDlg.id
    BY <2>1 DEF SaveHost, HostCall, Call
  <2>3. hostDlg'.saving /\ hostDlg'.id = hostDlg.id
    BY <2>2 DEF Typed, PickersTypes, WindowTypes
  <2>4. QED
    BY <1>2, <2>2, <2>3 DEF Waits
<1>3. CASE k # "hop"
  <2>1. k \in Forms
    BY <1>3 DEF Editing
  <2>2. c.f = k /\ c = CredCall(k) /\ SaveCredential(k)
    BY <1>1, <1>3 DEF ClickAsk, SavesFor
  <2>3. c.id = credDlg[k].id
    <3>1. PICK id : id = credDlg[k].id
      OBVIOUS
    <3>2. PICK r : r.id = id /\ CredCall(k) = r
      <4>1. PICK au, ty, ke : CredCall(k) = [op |-> "save cred", f |-> k, id |-> id, auth |-> au,
                                             typed |-> ty, keep |-> ke]
        BY Zenon, <3>1 DEF CredCall
      <4>2. PICK r : r = [op |-> "save cred", f |-> k, id |-> id, auth |-> au, typed |-> ty, keep |-> ke]
        OBVIOUS
      <4>3. r.id = id
        BY <4>2
      <4>4. QED
        BY <4>1, <4>2, <4>3
    <3>3. QED
      BY <2>2, <3>1, <3>2
  <2>4. calls' = Append(calls, c)
    BY <2>2 DEF SaveCredential, CredCall, Call
  <2>5. ~credDlg[k].saving /\ credDlg[k].open /\ credDlg' = [credDlg EXCEPT ![k].saving = TRUE]
    BY <2>2 DEF SaveCredential
  <2>6. credDlg'[k].saving /\ credDlg'[k].open /\ credDlg'[k].id = c.id
    BY <2>1, <2>3, <2>5 DEF Typed, PickersTypes, WindowTypes, Editors
  <2>7. QED
    BY <1>3, <2>4, <2>5, <2>6 DEF Waits
<1>4. QED
  BY <1>2, <1>3

LEMMA ClickSavesAreOwn ==
  ASSUME Typed, SavesAreOwn, Clicks, NEW A, ClickStep(A), ~crossed'
  PROVE  SavesAreOwn'
<1>1. OneEach' /\ Making'
  BY ClickOnce DEF SavesAreOwn, OneEach, Making
<1>2. /\ calls \in Seq(ToSet(calls)) /\ answers' = answers /\ UnderWay' = UnderWay \cup A
      /\ Grows(calls, calls', A)
  BY ClickUnderWay DEF Typed, PickersTypes, WireTypes, ClickStep
<1>3. ASSUME NEW k \in Editing
      PROVE  Alone(calls', answers', k) /\ \A c \in UnderWay' : SavesFor(c, k) => Waits(k, c.id)'
  <2>1. Alone(calls, answers, k) /\ \A c \in UnderWay : SavesFor(c, k) => Waits(k, c.id)
    BY DEF SavesAreOwn
  <2>2. CASE \A c \in A : ~SavesFor(c, k)
    <3>1. Alone(calls', answers', k)
      BY <1>2, <2>1, <2>2, AloneGrown
    <3>2. \A c \in UnderWay' : SavesFor(c, k) => Waits(k, c.id)
      BY <1>2, <2>1, <2>2
    <3>3. QED
      BY <3>1, <3>2, ClickWaits
  <2>3. ASSUME NEW b \in A, SavesFor(b, k)
        PROVE  Alone(calls', answers', k) /\ \A c \in UnderWay' : SavesFor(c, k) => Waits(k, c.id)'
    <3>1. calls' = Append(calls, b) /\ (\A id : ~Waits(k, id))
      BY <2>3, ClickSaves
    <3>2. /\ \A i \in DOMAIN calls : ~SavesFor(calls[i], k)
          /\ \A i \in DOMAIN answers : ~SavesFor(answers[i].call, k)
      BY <3>1, Unwaited
    <3>3. Alone(calls', answers', k)
      BY <1>2, <3>1, <3>2, AloneFirst
    <3>4. \A c \in UnderWay : ~SavesFor(c, k)
      BY <2>1, <3>1
    <3>5. \A c \in A : SavesFor(c, k) => Waits(k, c.id)'
      BY ClickSaves
    <3>6. QED
      BY <1>2, <3>3, <3>4, <3>5
  <2>4. QED
    BY <2>2, <2>3
<1>4. QED
  BY <1>1, <1>3 DEF SavesAreOwn, OneEach, Making

LEMMA TakeOnce ==
  ASSUME Typed, OneEach, Making, Takes, ~crossed'
  PROVE  OneEach' /\ Making'
<1> PICK a : a = Head(answers)
  OBVIOUS
<1> USE DEF OneEach, Making
<1>1. CASE CredsListed
  <2>1. PICK f : f = a.call.f
    OBVIOUS
  <2>2. credDlg' = credDlg /\ chain' = chain
    BY <1>1 DEF CredsListed
  <2>3. hostDlg'.id = hostDlg.id
    <3>1. \/ UNCHANGED hostDlg
          \/ hostDlg' = [hostDlg EXCEPT !.open = TRUE]
          \/ Tell(f, picker'[f].value)
      BY <1>1, <2>1, CredsListedIs
    <3>2. QED
      BY <3>1 DEF Tell, Typed, PickersTypes, WindowTypes
  <2>4. QED
    BY <2>2, <2>3
<1>2. CASE CredGot
  <2>1. PICK f : f = a.call.f
    OBVIOUS
  <2>2. hostDlg' = hostDlg /\ chain' = chain
    BY <1>2 DEF CredGot
  <2>3. CASE a.ret = Nil
    <3>1. credDlg' = credDlg
      BY <1>2, <2>1, <2>3 DEF CredGot
    <3>2. QED
      BY <2>2, <3>1
  <2>4. CASE a.ret # Nil
    <3>1. /\ IsAnswer(a) /\ a.call.op = "cred"
      BY <1>2, HeadIs DEF CredGot, Answer
    <3>2. f \in Forms /\ a.call.id \in Creds /\ a.ret \in Secrets
      BY <2>1, <2>4, <3>1 DEF IsAnswer, IsCall
    <3>3. PICK d : d = LoadedCred(credDlg[f], a.call.id, a.ret)
      OBVIOUS
    <3>4. credDlg[f] \in Editors
      BY <3>2 DEF Typed, PickersTypes, WindowTypes
    <3>5. d.id = a.call.id
      BY <3>2, <3>3, <3>4, LoadedIs
    <3>6. credDlg' = [credDlg EXCEPT ![f] = d] /\ \A g \in Forms : credDlg[g].open => credDlg[g].id # d.id
      BY <1>2, <2>1, <2>4, <3>3, <3>5 DEF CredGot
    <3>7. OneEach'
      BY <3>2, <3>6 DEF Typed, PickersTypes, WindowTypes
    <3>8. QED
      BY <2>2, <3>7
  <2>5. QED
    BY <2>3, <2>4
<1>3. CASE CredSaved
  <2>1. PICK f : f = a.call.f
    OBVIOUS
  <2>2. hostDlg' = hostDlg /\ chain' = chain
    BY <1>3 DEF CredSaved
  <2>3. credDlg' = [credDlg EXCEPT ![f].saving = FALSE, ![f].open = @ /\ a.ret = Nil]
    BY <1>3, <2>1 DEF CredSaved
  <2>4. \A g \in Forms : credDlg'[g].id = credDlg[g].id /\ (credDlg'[g].open => credDlg[g].open)
    <3>1. PICK d : d = [[credDlg[f] EXCEPT !.saving = FALSE] EXCEPT !.open = credDlg[f].open /\ a.ret = Nil]
      OBVIOUS
    <3>2. f \in Forms
      <4>1. IsAnswer(a) /\ a.call.op = "save cred"
        BY <1>3, HeadIs DEF CredSaved, Answer
      <4>2. QED
        BY <2>1, <4>1 DEF IsAnswer, IsCall
    <3>3. credDlg' = [credDlg EXCEPT ![f] = d]
      BY <2>3, <3>1, <3>2 DEF Typed, PickersTypes, WindowTypes, Editors
    <3>4. d.id = credDlg[f].id /\ (d.open => credDlg[f].open)
      BY <3>1, <3>2 DEF Typed, PickersTypes, WindowTypes, Editors
    <3>5. QED
      BY <3>2, <3>3, <3>4 DEF Typed, PickersTypes, WindowTypes
  <2>5. QED
    BY <2>2, <2>4
<1>4. CASE CredDropped \/ HostDropped
  BY <1>4 DEF CredDropped, HostDropped
<1>5. CASE HostsListed
  BY <1>5 DEF HostsListed, Typed, PickersTypes, WindowTypes
<1>6. CASE HostGot
  <2>1. credDlg' = credDlg /\ ((hostDlg' = hostDlg /\ chain' = chain) \/ chain' = [chain EXCEPT !.creating = FALSE])
    BY <1>6 DEF HostGot
  <2>2. QED
    BY <2>1 DEF Typed, PickersTypes, WindowTypes
<1>7. CASE HostSaved
  BY <1>7 DEF HostSaved, Typed, PickersTypes, WindowTypes
<1>8. QED
  BY <1>1, <1>2, <1>3, <1>4, <1>5, <1>6, <1>7 DEF Takes

LEMMA TakeSavesAreOwn ==
  ASSUME Typed, SavesAreOwn, Takes, NEW A, TakeStep(A), ~crossed'
  PROVE  SavesAreOwn'
<1>1. OneEach' /\ Making'
  BY TakeOnce DEF SavesAreOwn, OneEach, Making
<1>2. /\ answers \in Seq(ToSet(answers)) /\ answers # <<>> /\ answers' = Tail(answers)
      /\ Grows(calls, calls', A) /\ \A c \in A : c.op \in {"creds", "hosts"}
  BY DEF Typed, PickersTypes, WireTypes, TakeStep, TakeAsk
<1>3. ASSUME NEW k \in Editing
      PROVE  Alone(calls', answers', k) /\ \A c \in UnderWay' : SavesFor(c, k) => Waits(k, c.id)'
  <2>1. Alone(calls, answers, k) /\ \A c \in UnderWay : SavesFor(c, k) => Waits(k, c.id)
    BY DEF SavesAreOwn
  <2>2. \A c \in A : ~SavesFor(c, k)
    BY <1>2 DEF SavesFor
  <2>3. Alone(calls, answers', k)
    BY <1>2, <2>1, AloneTaken
  <2>4. Alone(calls', answers', k)
    BY <1>2, <2>2, <2>3, AloneGrown
  <2>5. CASE ~SavesFor(Head(answers).call, k)
    <3>1. \A c \in UnderWay' : SavesFor(c, k) => Waits(k, c.id)
      BY <2>1, <2>2, TakeUnderWay
    <3>2. QED
      BY <2>4, <2>5, <3>1, TakeWaits
  <2>6. CASE SavesFor(Head(answers).call, k)
    <3>1. /\ \A i \in DOMAIN calls : ~SavesFor(calls[i], k)
          /\ \A i \in DOMAIN answers' : ~SavesFor(answers'[i].call, k)
      BY <1>2, <2>1, <2>6, AloneTaken
    <3>2. \A c \in ToSet(calls') : ~SavesFor(c, k)
      BY <1>2, <2>2, <3>1 DEF Grows, ToSet
    <3>3. \A c \in UnderWay' : ~SavesFor(c, k)
      BY <3>1, <3>2 DEF UnderWay, ToSet
    <3>4. QED
      BY <2>4, <3>3
  <2>7. QED
    BY <2>5, <2>6
<1>4. QED
  BY <1>1, <1>3 DEF SavesAreOwn, OneEach, Making

LEMMA ServeSavesAreOwn ==
  ASSUME Typed, SavesAreOwn, NEW ret, ServeStep(ret)
  PROVE  SavesAreOwn'
<1>1. PICK a : a = [call |-> Head(calls), ret |-> ret]
  OBVIOUS
<1>2. /\ calls \in Seq(ToSet(calls)) /\ answers \in Seq(ToSet(answers)) /\ a.call = Head(calls)
      /\ calls # <<>> /\ calls' = Tail(calls) /\ answers' = Append(answers, a)
      /\ credDlg' = credDlg /\ hostDlg' = hostDlg /\ chain' = chain
  BY <1>1 DEF ServeStep, Typed, PickersTypes, WireTypes
<1>3. ASSUME NEW k \in Editing
      PROVE  Alone(calls', answers', k) /\ \A c \in UnderWay' : SavesFor(c, k) => Waits(k, c.id)'
  <2>1. Alone(calls, answers, k) /\ \A c \in UnderWay : SavesFor(c, k) => Waits(k, c.id)
    BY DEF SavesAreOwn
  <2>2. Alone(calls', answers', k)
    BY <1>2, <2>1, AloneServed
  <2>3. \A id : Waits(k, id)' <=> Waits(k, id)
    BY <1>2 DEF Waits
  <2>4. QED
    BY <2>1, <2>2, <2>3, ServeUnderWay
<1>4. QED
  BY <1>2, <1>3 DEF SavesAreOwn

LEMMA OvertakenTaken ==
  ASSUME Typed, NEW A, TakeStep(A), NEW i \in Nat, NEW id
  PROVE  /\ Overtaken(i + 1, id) => Overtaken(i, id)'
         /\ Overtaken(0, id) => Overtaken(0, id)'
              \/ (Head(answers).call.op = "save cred" /\ Head(answers).call.id = id /\ Head(answers).ret # Nil)
<1>1. answers \in Seq(ToSet(answers)) /\ answers # <<>> /\ answers' = Tail(answers)
  BY DEF Typed, PickersTypes, WireTypes, TakeStep
<1>2. /\ Len(answers) \in Nat /\ Len(answers') = Len(answers) - 1 /\ \A j \in 1 .. Len(answers') : answers'[j] = answers[j + 1]
      /\ Head(answers) = answers[1] /\ DOMAIN answers = 1 .. Len(answers) /\ DOMAIN answers' = 1 .. Len(answers')
  <2>1. PICK p : p = Tail(answers)
    OBVIOUS
  <2>2. Len(p) = Len(answers) - 1 /\ (\A j \in 1 .. Len(p) : p[j] = answers[j + 1]) /\ p \in Seq(ToSet(p))
        /\ Len(answers) \in Nat /\ Head(answers) = answers[1]
    BY <1>1, <2>1, Unqueued
  <2>3. QED
    BY <1>1, <2>1, <2>2
<1>3. ASSUME NEW n \in Nat, NEW j \in DOMAIN answers, j > n + 1,
             answers[j].call.op = "save cred", answers[j].call.id = id, answers[j].ret # Nil
      PROVE  Overtaken(n, id)'
  <2>1. PICK k : k = j - 1
    OBVIOUS
  <2>2. k \in 1 .. Len(answers') /\ k > n /\ k + 1 = j
    <3>1. Len(answers') = Len(answers) - 1 /\ j \in 1 .. Len(answers) /\ Len(answers) \in Nat
      BY <1>2
    <3>2. PICK l, m : l = Len(answers) /\ m = Len(answers')
      OBVIOUS
    <3>3. j > n + 1
      BY <1>3
    <3>4. l \in Nat /\ m = l - 1 /\ j \in 1 .. l
      BY <3>1, <3>2
    <3>5. k \in 1 .. m /\ k > n /\ k + 1 = j
      BY <2>1, <3>3, <3>4
    <3>6. QED
      BY <3>2, <3>5
  <2>3. k \in DOMAIN answers' /\ answers'[k] = answers[j]
    BY <1>2, <2>2
  <2>4. QED
    BY <1>3, <2>2, <2>3 DEF Overtaken
<1>4. Overtaken(i + 1, id) => Overtaken(i, id)'
  BY <1>3 DEF Overtaken
<1>5. ASSUME Overtaken(0, id)
      PROVE  Overtaken(0, id)'
               \/ (Head(answers).call.op = "save cred" /\ Head(answers).call.id = id /\ Head(answers).ret # Nil)
  <2>1. PICK j \in DOMAIN answers : answers[j].call.op = "save cred" /\ answers[j].call.id = id /\ answers[j].ret # Nil
    BY <1>5 DEF Overtaken
  <2>2. j = 1 \/ j > 0 + 1
    BY <1>2
  <2>3. QED
    BY <1>2, <1>3, <2>1, <2>2
<1>6. QED
  BY <1>4, <1>5

LEMMA OvertakenServed ==
  ASSUME Typed, NEW ret, ServeStep(ret), NEW id
  PROVE  /\ \A i \in Nat : Overtaken(i, id) => Overtaken(i, id)'
         /\ Head(calls).op = "save cred" /\ Head(calls).id = id /\ ret # Nil
              => \A i \in 0 .. Len(answers) : Overtaken(i, id)'
<1>1. PICK a : a = [call |-> Head(calls), ret |-> ret]
  OBVIOUS
<1>2. answers \in Seq(ToSet(answers)) /\ answers' = Append(answers, a) /\ a.call = Head(calls) /\ a.ret = ret
  BY <1>1 DEF ServeStep, Typed, PickersTypes, WireTypes
<1>3. /\ Len(answers) \in Nat /\ \A i \in DOMAIN answers : i \in DOMAIN answers' /\ answers'[i] = answers[i]
      /\ Len(answers) + 1 \in DOMAIN answers' /\ answers'[Len(answers) + 1] = a
  BY <1>2, Queued
<1>4. \A i \in Nat : Overtaken(i, id) => Overtaken(i, id)'
  BY <1>3 DEF Overtaken
<1>5. ASSUME Head(calls).op = "save cred", Head(calls).id = id, ret # Nil, NEW i \in 0 .. Len(answers)
      PROVE  Overtaken(i, id)'
  <2>1. Len(answers) + 1 > i
    BY <1>3
  <2>2. QED
    BY <1>2, <1>3, <1>5, <2>1 DEF Overtaken
<1>6. QED
  BY <1>4, <1>5

\* A saved record is the one of the editor that waits, and of no other.
LEMMA OwnSave ==
  ASSUME Typed, SavesAreOwn, NEW c \in UnderWay, c.op = "save cred", NEW g \in Forms, credDlg[g].open,
         credDlg[g].id = c.id, c.id # Nil
  PROVE  c.f = g /\ credDlg[g].saving
<1>1. IsCall(c)
  <2>1. CASE c \in ToSet(calls)
    BY <2>1 DEF Typed, PickersTypes, WireTypes
  <2>2. CASE c \notin ToSet(calls)
    <3>1. PICK a \in ToSet(answers) : c = a.call
      BY <2>2 DEF UnderWay
    <3>2. QED
      BY <3>1 DEF Typed, PickersTypes, WireTypes, IsAnswer
  <2>3. QED
    BY <2>1, <2>2
<1>2. PICK f : f = c.f
  OBVIOUS
<1>3. f \in Forms
  BY <1>1, <1>2 DEF IsCall
<1>4. f \in Editing /\ f # "hop" /\ SavesFor(c, f)
  BY <1>2, <1>3 DEF Editing, SavesFor, Forms
<1>5. Waits(f, c.id)
  BY <1>4 DEF SavesAreOwn
<1>6. credDlg[f].saving /\ credDlg[f].open /\ credDlg[f].id = c.id
  BY <1>4, <1>5 DEF Waits
<1>7. f = g
  BY <1>3, <1>6 DEF SavesAreOwn
<1>8. QED
  BY <1>2, <1>6, <1>7

-----------------------------------------------------------------------------
\* What an editor knows of its record.
Knows(d) ==
  d.open /\ d.id # Nil =>
    \/ credStore[d.id] = Nil
    \/ d.loaded = credStore[d.id].auth /\ (d.had <=> credStore[d.id].secret # "none")
    \/ Overtaken(0, d.id)
Recalls(i) ==
  answers[i].call.op = "cred" /\ answers[i].ret # Nil =>
    \/ credStore[answers[i].call.id] \in {Nil, answers[i].ret}
    \/ Overtaken(i, answers[i].call.id)
Keeps(c) ==
  /\ c.op = "save cred" /\ c.id # Nil /\ c.typed = "none" /\ credStore[c.id] # Nil
  /\ credStore[c.id].auth = c.auth /\ credStore[c.id].secret # "none"
  => c.keep

LEMMA EditorsKnowIs ==
  EditorsKnow <=> /\ \A f \in Forms : Knows(credDlg[f])
                  /\ \A i \in DOMAIN answers : Recalls(i)
                  /\ \A c \in ToSet(calls) : Keeps(c)
BY DEF EditorsKnow, Knows, Recalls, Keeps

LEMMA ClickRecords ==
  ASSUME Typed, Clicks
  PROVE  \A g \in Forms : credDlg'[g].open /\ credDlg'[g].id # Nil =>
           /\ credDlg[g].open /\ credDlg'[g].id = credDlg[g].id
           /\ credDlg'[g].loaded = credDlg[g].loaded /\ credDlg'[g].had = credDlg[g].had
<1> SUFFICES ASSUME NEW g \in Forms, credDlg'[g].open, credDlg'[g].id # Nil
             PROVE  /\ credDlg[g].open /\ credDlg'[g].id = credDlg[g].id
                    /\ credDlg'[g].loaded = credDlg[g].loaded /\ credDlg'[g].had = credDlg[g].had
  OBVIOUS
<1> DEFINE Same == /\ credDlg[g].open /\ credDlg'[g].id = credDlg[g].id
                   /\ credDlg'[g].loaded = credDlg[g].loaded /\ credDlg'[g].had = credDlg[g].had
<1> SUFFICES Same
  OBVIOUS
<1>0. credDlg \in [Forms -> Editors]
  BY DEF Typed, PickersTypes, WindowTypes
<1>1. CASE credDlg' = credDlg
  BY <1>1
<1>2. ASSUME NEW f \in Forms, NewCred(f) PROVE Same
  <2>1. PICK d : d = LoadedCred(credDlg[f], Nil, Nil)
    OBVIOUS
  <2>2. d.id = Nil
    BY <2>1, LoadedNil
  <2>3. credDlg' = [credDlg EXCEPT ![f] = d]
    BY <1>2, <2>1 DEF NewCred
  <2>4. QED
    BY <1>0, <2>2, <2>3
<1>3. ASSUME NEW f \in Forms, NEW auth \in Auths, ChangeType(f, auth) PROVE Same
  BY <1>0, <1>3 DEF ChangeType, WithAuth, Editors
<1>4. ASSUME NEW f \in Forms, TypeSecret(f) PROVE Same
  BY <1>0, <1>4 DEF TypeSecret, Editors
<1>5. ASSUME NEW f \in Forms, SaveCredential(f) PROVE Same
  BY <1>0, <1>5 DEF SaveCredential, Editors
<1>6. ASSUME NEW f \in Forms, CancelCred(f) PROVE Same
  BY <1>0, <1>6 DEF CancelCred, Editors
<1> HIDE DEF Same
<1>7. ASSUME NEW f \in Forms, NEW x \in Creds \cup {Nil}, PickCred(f, x) PROVE Same
  BY <1>1, <1>7 DEF PickCred
<1>8. ASSUME NEW f \in Forms, AskEditCred(f) \/ AskDeleteCred(f) PROVE Same
  BY <1>1, <1>8 DEF AskEditCred, AskDeleteCred
<1>9. ASSUME NEW h \in Hosts, Focus(h) PROVE Same
  BY <1>1, <1>9 DEF Focus
<1>10. ASSUME NEW i \in DOMAIN chain.ids, RemoveHop(i) \/ MoveHop(i) PROVE Same
  BY <1>1, <1>10 DEF RemoveHop, MoveHop
<1>11. CASE AddHop \/ NewHost \/ AskEditHost \/ AskDeleteHost \/ SaveHost \/ CancelHost
  BY <1>1, <1>11 DEF AddHop, NewHost, AskEditHost, AskDeleteHost, SaveHost, CancelHost
<1>12. QED
  BY <1>2, <1>3, <1>4, <1>5, <1>6, <1>7, <1>8, <1>9, <1>10, <1>11 DEF Clicks

\* A save that types nothing keeps what is there.
LEMMA SavedKeeps ==
  ASSUME Typed, SavesAreOwn, EditorsKnow, NEW g \in Forms, SaveCredential(g)
  PROVE  Keeps(CredCall(g))
<1>1. PICK d : d = credDlg[g]
  OBVIOUS
<1>2. PICK ty : ty = IF HoldsText(d.auth) THEN d.typed ELSE "none"
  OBVIOUS
<1>3. PICK ke : ke = (HoldsText(d.auth) /\ d.typed = "none" /\ d.auth = d.loaded /\ d.had)
  OBVIOUS
<1>4. PICK c : c = [op |-> "save cred", f |-> g, id |-> d.id, auth |-> d.auth, typed |-> ty, keep |-> ke]
  OBVIOUS
<1>5. c = CredCall(g)
  BY <1>1, <1>2, <1>3, <1>4 DEF CredCall, Retainable
<1>6. c.id = d.id /\ c.auth = d.auth /\ c.typed = ty /\ c.keep = ke
  BY <1>4
<1>7. d.open /\ ~d.saving /\ d \in Editors
  BY <1>1 DEF SaveCredential, Typed, PickersTypes, WindowTypes
<1>8. SUFFICES ASSUME c.id # Nil, c.typed = "none", credStore[c.id] # Nil,
                      credStore[c.id].auth = c.auth, credStore[c.id].secret # "none"
               PROVE  c.keep
  BY <1>5 DEF Keeps
<1>9. ~Overtaken(0, d.id)
  <2>1. SUFFICES ASSUME NEW j \in DOMAIN answers, answers[j].call.op = "save cred", answers[j].call.id = d.id
                 PROVE  FALSE
    BY DEF Overtaken
  <2>2. answers[j].call \in UnderWay
    BY DEF UnderWay, ToSet
  <2>3. credDlg[g].saving
    BY <1>1, <1>6, <1>7, <1>8, <2>1, <2>2, OwnSave
  <2>4. QED
    BY <1>1, <1>7, <2>3
<1>10. d.loaded = d.auth /\ d.had
  <2>1. Knows(credDlg[g])
    BY EditorsKnowIs
  <2>2. QED
    BY <1>1, <1>6, <1>7, <1>8, <1>9, <2>1 DEF Knows, Editors
<1>11. HoldsText(d.auth)
  <2>1. d.id \in Creds
    BY <1>6, <1>7, <1>8 DEF Editors
  <2>2. QED
    BY <1>6, <1>8, <2>1 DEF HoldsText, Typed, PickersTypes, StoreTypes
<1>12. d.typed = "none"
  BY <1>2, <1>6, <1>8, <1>11
<1>13. QED
  BY <1>3, <1>6, <1>10, <1>11, <1>12

LEMMA ClickEditorsKnow ==
  ASSUME Typed, SavesAreOwn, EditorsKnow, Clicks, NEW A, ClickStep(A)
  PROVE  EditorsKnow'
<1>1. /\ answers' = answers /\ credStore' = credStore /\ ToSet(calls') = ToSet(calls) \cup A
      /\ \A c \in A : ClickAsk(c)
  BY DEF ClickStep, Grows
<1>2. /\ \A f \in Forms : Knows(credDlg[f])
      /\ \A i \in DOMAIN answers : Recalls(i)
      /\ \A c \in ToSet(calls) : Keeps(c)
  BY EditorsKnowIs
<1>3. \A i, id : Overtaken(i, id)' <=> Overtaken(i, id)
  BY <1>1 DEF Overtaken
<1>4. ASSUME NEW f \in Forms PROVE Knows(credDlg[f])'
  BY <1>1, <1>2, <1>3, ClickRecords DEF Knows
<1>5. \A i \in DOMAIN answers' : Recalls(i)'
  BY <1>1, <1>2, <1>3 DEF Recalls
<1>6. ASSUME NEW c \in A PROVE Keeps(c)
  <2>1. CASE c.op = "save cred"
    <3>1. c = CredCall(c.f) /\ SaveCredential(c.f) /\ c.f \in Forms
      BY <1>1, <2>1 DEF ClickAsk, IsCall
    <3>2. QED
      BY <3>1, SavedKeeps
  <2>2. CASE c.op # "save cred"
    BY <2>2 DEF Keeps
  <2>3. QED
    BY <2>1, <2>2
<1>7. \A c \in ToSet(calls') : Keeps(c)'
  BY <1>1, <1>2, <1>6 DEF Keeps
<1>8. QED
  BY <1>4, <1>5, <1>7 DEF EditorsKnow, Knows, Recalls, Keeps

LEMMA TakeEditorsKnow ==
  ASSUME Typed, SavesAreOwn, EditorsKnow, Takes, NEW A, TakeStep(A)
  PROVE  EditorsKnow'
<1> PICK a : a = Head(answers)
  OBVIOUS
<1>1. /\ credStore' = credStore /\ ToSet(calls') = ToSet(calls) \cup A
      /\ \A c \in A : c.op \in {"creds", "hosts"}
      /\ answers \in Seq(ToSet(answers)) /\ answers # <<>> /\ answers' = Tail(answers)
  BY DEF TakeStep, TakeAsk, Grows, Typed, PickersTypes, WireTypes
<1>2. /\ Len(answers) \in Nat /\ \A i \in DOMAIN answers' : i \in Nat /\ i + 1 \in DOMAIN answers /\ answers'[i] = answers[i + 1]
      /\ a = answers[1] /\ 1 \in DOMAIN answers /\ a \in ToSet(answers)
  <2>1. PICK p : p = Tail(answers)
    OBVIOUS
  <2>2. Len(p) = Len(answers) - 1 /\ (\A j \in 1 .. Len(p) : p[j] = answers[j + 1]) /\ p \in Seq(ToSet(p))
        /\ Len(answers) \in Nat /\ Len(answers) > 0 /\ Head(answers) = answers[1] /\ Head(answers) \in ToSet(answers)
    BY <1>1, <2>1, Unqueued
  <2>3. DOMAIN p = 1 .. Len(p) /\ DOMAIN answers = 1 .. Len(answers)
    BY <1>1, <2>2
  <2>4. QED
    BY <1>1, <2>1, <2>2, <2>3
<1>3. /\ \A f \in Forms : Knows(credDlg[f])
      /\ \A i \in DOMAIN answers : Recalls(i)
      /\ \A c \in ToSet(calls) : Keeps(c)
  BY EditorsKnowIs
<1>4. \A c \in ToSet(calls') : Keeps(c)'
  BY <1>1, <1>3 DEF Keeps
<1>5. ASSUME NEW i \in DOMAIN answers' PROVE Recalls(i)'
  <2>1. i \in Nat /\ Recalls(i + 1) /\ answers'[i] = answers[i + 1]
    BY <1>2, <1>3
  <2>2. PICK b : b = answers[i + 1]
    OBVIOUS
  <2>3. PICK id : id = b.call.id
    OBVIOUS
  <2>4. Overtaken(i + 1, id) => Overtaken(i, id)'
    BY <2>1, OvertakenTaken
  <2>5. b.call.op = "cred" /\ b.ret # Nil => credStore[id] \in {Nil, b.ret} \/ Overtaken(i + 1, id)
    BY <2>1, <2>2, <2>3 DEF Recalls
  <2>6. answers'[i] = b
    BY <2>1, <2>2
  <2>7. QED
    BY <1>1, <2>3, <2>4, <2>5, <2>6 DEF Recalls, Overtaken
<1>6. ASSUME NEW f \in Forms, credDlg'[f].open, credDlg'[f].id # Nil,
             credDlg[f].open, credDlg'[f].id = credDlg[f].id, credDlg'[f].loaded = credDlg[f].loaded,
             credDlg'[f].had = credDlg[f].had,
             ~(a.call.op = "save cred" /\ a.call.id = credDlg[f].id /\ a.ret # Nil)
      PROVE  Knows(credDlg[f])'
  <2>1. PICK d : d = credDlg[f]
    OBVIOUS
  <2>2. PICK id : id = d.id
    OBVIOUS
  <2>3. Overtaken(0, id) => Overtaken(0, id)'
    BY <1>6, <2>1, <2>2, OvertakenTaken
  <2>4. \/ credStore[id] = Nil
        \/ d.loaded = credStore[id].auth /\ (d.had <=> credStore[id].secret # "none")
        \/ Overtaken(0, id)
    BY <1>3, <1>6, <2>1, <2>2 DEF Knows
  <2>5. credDlg'[f].id = id /\ credDlg'[f].loaded = d.loaded /\ credDlg'[f].had = d.had
    BY <1>6, <2>1, <2>2
  <2>6. QED
    BY <1>1, <2>3, <2>4, <2>5 DEF Knows, Overtaken
<1>7. CASE credDlg' = credDlg /\ a.call.op # "save cred"
  <2>1. ASSUME NEW f \in Forms PROVE Knows(credDlg[f])'
    BY <1>6, <1>7 DEF Knows
  <2>2. QED
    BY <1>4, <1>5, <2>1 DEF EditorsKnow, Knows, Recalls, Keeps
<1>8. CASE CredGot /\ a.ret # Nil
  <2>1. PICK f : f = a.call.f
    OBVIOUS
  <2>2. a.call.op = "cred"
    BY <1>8 DEF CredGot, Answer
  <2>3. f \in Forms /\ a.call.id \in Creds /\ a.ret \in Secrets
    BY <1>1, <1>8, <2>1, <2>2, HeadIs DEF IsAnswer, IsCall
  <2>4. PICK d : d = LoadedCred(credDlg[f], a.call.id, a.ret)
    OBVIOUS
  <2>5. credDlg \in [Forms -> Editors]
    BY DEF Typed, PickersTypes, WindowTypes
  <2>6. d.id = a.call.id /\ d.loaded = a.ret.auth /\ (d.had <=> a.ret.secret # "none") /\ d \in Editors
    BY <1>8, <2>3, <2>4, <2>5, LoadedIs
  <2>7. credDlg' = [credDlg EXCEPT ![f] = d]
    BY <1>8, <2>1, <2>4 DEF CredGot
  <2>8. Recalls(1)
    BY <1>2, <1>3
  <2>9. PICK id : id = a.call.id
    OBVIOUS
  <2>10. Overtaken(1, id) => Overtaken(0, id)'
    <3>1. Overtaken(0 + 1, id) => Overtaken(0, id)'
      BY OvertakenTaken
    <3>2. 0 + 1 = 1
      OBVIOUS
    <3>3. QED
      BY <3>1, <3>2
  <2>11. ASSUME NEW g \in Forms PROVE Knows(credDlg[g])'
    <3>1. CASE g = f
      <4>1. credDlg'[g] = d
        BY <2>3, <2>5, <2>7, <3>1
      <4>2. credStore[id] \in {Nil, a.ret} \/ Overtaken(0, id)'
        BY <1>2, <1>8, <2>2, <2>8, <2>9, <2>10 DEF Recalls
      <4>3. credDlg'[g].id = id /\ credDlg'[g].loaded = a.ret.auth
            /\ (credDlg'[g].had <=> a.ret.secret # "none")
        BY <2>6, <2>9, <4>1
      <4>4. QED
        BY <1>1, <4>2, <4>3 DEF Knows, Overtaken
    <3>2. CASE g # f
      <4>1. credDlg'[g] = credDlg[g]
        BY <2>5, <2>7, <3>2
      <4>2. QED
        BY <1>6, <2>2, <4>1 DEF Knows
    <3>3. QED
      BY <3>1, <3>2
  <2>12. QED
    BY <1>4, <1>5, <2>11 DEF EditorsKnow, Knows, Recalls, Keeps
<1>9. CASE CredSaved
  <2>1. PICK f : f = a.call.f
    OBVIOUS
  <2>2. a.call.op = "save cred"
    BY <1>9 DEF CredSaved, Answer
  <2>3. f \in Forms
    BY <1>1, <2>1, <2>2, HeadIs DEF IsAnswer, IsCall
  <2>4. credDlg \in [Forms -> Editors]
    BY DEF Typed, PickersTypes, WindowTypes
  <2>5. credDlg' = [credDlg EXCEPT ![f].saving = FALSE, ![f].open = @ /\ a.ret = Nil]
    BY <1>9, <2>1 DEF CredSaved
  <2>6. PICK d : d = [[credDlg[f] EXCEPT !.saving = FALSE] EXCEPT !.open = credDlg[f].open /\ a.ret = Nil]
    OBVIOUS
  <2>7. credDlg' = [credDlg EXCEPT ![f] = d]
    BY <2>3, <2>4, <2>5, <2>6 DEF Editors
  <2>8. d.id = credDlg[f].id /\ (d.open => credDlg[f].open /\ a.ret = Nil)
        /\ d.loaded = credDlg[f].loaded /\ d.had = credDlg[f].had
    BY <2>3, <2>4, <2>6 DEF Editors
  <2>9. ASSUME NEW g \in Forms PROVE Knows(credDlg[g])'
    <3>1. CASE g = f
      <4>1. credDlg'[g] = d
        BY <2>3, <2>4, <2>7, <3>1
      <4>2. QED
        BY <1>6, <2>8, <3>1, <4>1 DEF Knows
    <3>2. CASE g # f
      <4>1. credDlg'[g] = credDlg[g]
        BY <2>4, <2>7, <3>2
      <4>2. ASSUME credDlg[g].open, credDlg[g].id # Nil PROVE a.call.id # credDlg[g].id
        <5>1. a.call \in UnderWay
          BY <1>2 DEF UnderWay
        <5>2. QED
          BY <2>1, <2>2, <3>2, <4>2, <5>1, OwnSave
      <4>3. QED
        BY <1>6, <4>1, <4>2 DEF Knows
    <3>3. QED
      BY <3>1, <3>2
  <2>10. QED
    BY <1>4, <1>5, <2>9 DEF EditorsKnow, Knows, Recalls, Keeps
<1>10. CASE (CredGot /\ a.ret = Nil) \/ CredsListed \/ CredDropped \/ HostsListed \/ HostGot \/ HostSaved \/ HostDropped
  <2>1. credDlg' = credDlg /\ a.call.op # "save cred"
    BY <1>10 DEF CredGot, CredsListed, CredDropped, HostsListed, HostGot, HostSaved,
           HostDropped, Answer
  <2>2. QED
    BY <1>7, <2>1
<1>11. QED
  BY <1>8, <1>9, <1>10 DEF Takes

LEMMA ServeEditorsKnow ==
  ASSUME Typed, SavesAreOwn, EditorsKnow, NEW ret, ServeStep(ret)
  PROVE  EditorsKnow'
<1> PICK c : c = Head(calls)
  OBVIOUS
<1> PICK a : a = [call |-> c, ret |-> ret]
  OBVIOUS
<1>1. /\ calls \in Seq(ToSet(calls)) /\ answers \in Seq(ToSet(answers)) /\ a.call = c /\ a.ret = ret
      /\ calls # <<>> /\ calls' = Tail(calls) /\ answers' = Append(answers, a) /\ credDlg' = credDlg
  BY DEF ServeStep, Typed, PickersTypes, WireTypes
<1>2. /\ Len(answers) \in Nat /\ (\A i \in DOMAIN answers : i \in Nat /\ answers'[i] = answers[i])
      /\ answers'[Len(answers) + 1] = a
      /\ \A i \in DOMAIN answers' : i \in DOMAIN answers \/ i = Len(answers) + 1
  <2>1. PICK p : p = Append(answers, a)
    OBVIOUS
  <2>2. Len(p) = Len(answers) + 1 /\ (\A j \in 1 .. Len(answers) : p[j] = answers[j]) /\ p \in Seq(ToSet(p))
        /\ Len(answers) \in Nat /\ p[Len(answers) + 1] = a
    BY <1>1, <2>1, Queued
  <2>3. DOMAIN p = 1 .. Len(p) /\ DOMAIN answers = 1 .. Len(answers)
    BY <1>1, <2>2
  <2>4. QED
    BY <1>1, <2>1, <2>2, <2>3
<1>3. /\ \A f \in Forms : Knows(credDlg[f])
      /\ \A i \in DOMAIN answers : Recalls(i)
      /\ \A b \in ToSet(calls) : Keeps(b)
  BY EditorsKnowIs
<1>4. ToSet(calls') \subseteq ToSet(calls) /\ IsCall(c) /\ CallKnown(c) /\ c \in ToSet(calls)
  BY <1>1, Unqueued, CallIs
<1>5. Looks(c, ret) \/ Refuses(c, ret) \/ SavesCredAs(c, ret) \/ SavesHostAs(c, ret)
      \/ DropsCred(c, ret) \/ DropsHost(c, ret)
  BY DEF ServeStep
<1>6. credStore \in [Creds -> Secrets \cup {Nil}]
  BY DEF Typed, PickersTypes, StoreTypes
\* It is enough to know what becomes of the records the window has ids of.
<1>7. ASSUME \A x \in Creds : KnownCred(x) =>
               \/ credStore'[x] = credStore[x] \/ credStore'[x] = Nil
               \/ \A i \in 0 .. Len(answers) : Overtaken(i, x)',
             a.call.op = "cred" => credStore' = credStore /\ ret = credStore[c.id],
             \A b \in ToSet(calls') : Keeps(b)'
      PROVE  EditorsKnow'
  <2>1. ASSUME NEW f \in Forms PROVE Knows(credDlg[f])'
    <3>1. PICK d : d = credDlg[f]
      OBVIOUS
    <3>2. PICK id : id = d.id
      OBVIOUS
    <3>3. KnownCred(id) /\ (id # Nil => id \in Creds)
      BY <3>1, <3>2 DEF Typed, PickersTypes, WindowTypes, IdsKnown, WindowKnown, Editors
    <3>4. d.open /\ id # Nil => \/ credStore[id] = Nil
                                \/ d.loaded = credStore[id].auth /\ (d.had <=> credStore[id].secret # "none")
                                \/ Overtaken(0, id)
      BY <1>3, <3>1, <3>2 DEF Knows
    <3>5. Overtaken(0, id) => Overtaken(0, id)'
      BY OvertakenServed
    <3>6. 0 \in 0 .. Len(answers)
      BY <1>2
    <3>7. credStore[id] = Nil /\ id \in Creds => credStore'[id] = Nil \/ Overtaken(0, id)'
      BY <1>7, <3>3, <3>6
    <3>8. d.open /\ id # Nil => \/ credStore'[id] = Nil
                                \/ d.loaded = credStore'[id].auth /\ (d.had <=> credStore'[id].secret # "none")
                                \/ Overtaken(0, id)'
      BY <1>7, <3>3, <3>4, <3>5, <3>6, <3>7
    <3>9. credDlg'[f] = d
      BY <1>1, <3>1
    <3>10. QED
      BY <3>2, <3>8, <3>9 DEF Knows, Overtaken
  <2>2. ASSUME NEW i \in DOMAIN answers' PROVE Recalls(i)'
    <3>1. CASE i \in DOMAIN answers
      <4>1. PICK b : b = answers[i]
        OBVIOUS
      <4>2. PICK id : id = b.call.id
        OBVIOUS
      <4>3. b \in ToSet(answers)
        BY <3>1, <4>1 DEF ToSet
      <4>4. b.call.op = "cred" => KnownCred(id) /\ id \in Creds
        BY <4>2, <4>3 DEF Typed, PickersTypes, WireTypes, IdsKnown, WireKnown, IsAnswer,
               AnswerKnown, IsCall, CallKnown
      <4>5. b.call.op = "cred" /\ b.ret # Nil => credStore[id] \in {Nil, b.ret} \/ Overtaken(i, id)
        BY <1>3, <3>1, <4>1, <4>2 DEF Recalls
      <4>6. i \in Nat /\ i \in 0 .. Len(answers)
        BY <1>1, <1>2, <3>1
      <4>7. Overtaken(i, id) => Overtaken(i, id)'
        BY <4>6, OvertakenServed
      <4>8. b.call.op = "cred" /\ b.ret # Nil => credStore'[id] \in {Nil, b.ret} \/ Overtaken(i, id)'
        BY <1>7, <4>4, <4>5, <4>6, <4>7
      <4>9. answers'[i] = b
        BY <1>2, <3>1, <4>1
      <4>10. QED
        BY <4>2, <4>8, <4>9 DEF Recalls, Overtaken
    <3>2. CASE i = Len(answers) + 1
      <4>1. answers'[i] = a
        BY <1>2, <3>2
      <4>2. QED
        BY <1>1, <1>7, <4>1 DEF Recalls
    <3>3. QED
      BY <1>2, <3>1, <3>2
  <2>3. QED
    BY <1>7, <2>1, <2>2 DEF EditorsKnow, Knows, Recalls, Keeps
<1>8. CASE Looks(c, ret) \/ Refuses(c, ret) \/ SavesHostAs(c, ret) \/ DropsHost(c, ret)
  <2>1. credStore' = credStore /\ (c.op = "cred" => ret = credStore[c.id])
    BY <1>8 DEF Looks, Refuses, SavesHostAs, DropsHost
  <2>2. \A b \in ToSet(calls') : Keeps(b)'
    BY <1>3, <1>4, <2>1 DEF Keeps
  <2>3. QED
    BY <1>1, <1>7, <2>1, <2>2
<1>9. CASE DropsCred(c, ret)
  <2>1. credStore' = [credStore EXCEPT ![ret] = Nil] /\ c.op # "cred"
    BY <1>9 DEF DropsCred
  <2>2. \A x : x \in Creds => credStore'[x] = credStore[x] \/ credStore'[x] = Nil
    BY <1>6, <2>1
  <2>3. ASSUME NEW b \in ToSet(calls') PROVE Keeps(b)'
    <3>1. b.op = "save cred" /\ b.id # Nil => b.id \in Creds
      BY <1>4 DEF Typed, PickersTypes, WireTypes, IsCall
    <3>2. QED
      BY <1>3, <1>4, <2>2, <3>1 DEF Keeps
  <2>4. QED
    BY <1>1, <1>7, <2>1, <2>2, <2>3
<1>10. CASE SavesCredAs(c, ret)
  <2>1. /\ c.op = "save cred" /\ ret \in Creds /\ ret # Nil
        /\ \A x \in Creds : x # ret => credStore'[x] = credStore[x]
    BY <1>6, <1>10, PickersAssumption DEF SavesCredAs
  <2>2. c.id = Nil => ~KnownCred(ret)
    BY <1>10, <2>1 DEF SavesCredAs, KnownCred
  <2>3. c.id # Nil => c.id = ret
    BY <1>10 DEF SavesCredAs
  <2>4. c.id # Nil => \A i \in 0 .. Len(answers) : Overtaken(i, ret)'
    BY <2>1, <2>3, OvertakenServed
  <2>5. \A x \in Creds : KnownCred(x) => credStore'[x] = credStore[x] \/ \A i \in 0 .. Len(answers) : Overtaken(i, x)'
    BY <2>1, <2>2, <2>4
  <2>6. ASSUME NEW b \in ToSet(calls'), b.op = "save cred", b.id # Nil PROVE b.id \in Creds /\ b.id # ret
    <3>1. IsCall(b) /\ CallKnown(b)
      BY <1>4 DEF Typed, PickersTypes, WireTypes, IdsKnown, WireKnown
    <3>2. CASE c.id = Nil
      BY <2>2, <2>6, <3>1, <3>2 DEF IsCall, CallKnown
    <3>3. CASE c.id # Nil /\ b.id = ret
      <4>1. PICK f : f = c.f
        OBVIOUS
      <4>2. f \in Forms /\ f \in Editing /\ f # "hop" /\ SavesFor(c, f)
        BY <1>4, <2>1, <4>1 DEF IsCall, Editing, SavesFor, Forms
      <4>3. c \in UnderWay /\ b \in UnderWay
        BY <1>4 DEF UnderWay
      <4>4. Waits(f, c.id)
        BY <4>2, <4>3 DEF SavesAreOwn
      <4>5. credDlg[f].open /\ credDlg[f].id = b.id
        BY <2>3, <3>3, <4>2, <4>4 DEF Waits
      <4>6. b.f = f
        BY <2>6, <4>2, <4>3, <4>5, OwnSave
      <4>7. Alone(calls, answers, f)
        BY <4>2 DEF SavesAreOwn
      <4>8. PICK p : p = Tail(calls)
        OBVIOUS
      <4>9. /\ Len(calls) \in Nat /\ Len(calls) > 0 /\ Len(p) = Len(calls) - 1 /\ calls[1] = c
            /\ (\A i \in 1 .. Len(p) : p[i] = calls[i + 1]) /\ p \in Seq(ToSet(p))
        BY <1>1, <4>8, Unqueued
      <4>10. DOMAIN p = 1 .. Len(p) /\ DOMAIN calls = 1 .. Len(calls)
        BY <1>1, <4>9
      <4>11. PICK i \in DOMAIN p : p[i] = b
        BY <1>1, <4>8 DEF ToSet
      <4>12. 1 \in DOMAIN calls /\ i + 1 \in DOMAIN calls /\ calls[i + 1] = b /\ i + 1 # 1
        BY <4>9, <4>10, <4>11
      <4>13. SavesFor(calls[1], f) /\ SavesFor(calls[i + 1], f)
        BY <2>6, <4>2, <4>6, <4>9, <4>12 DEF SavesFor
      <4>14. QED
        BY <4>7, <4>12, <4>13 DEF Alone
    <3>4. QED
      BY <2>6, <3>1, <3>2, <3>3 DEF IsCall
  <2>7. ASSUME NEW b \in ToSet(calls') PROVE Keeps(b)'
    BY <1>3, <1>4, <2>1, <2>6 DEF Keeps
  <2>8. QED
    BY <1>1, <1>7, <2>1, <2>5, <2>7
<1>11. QED
  BY <1>5, <1>8, <1>9, <1>10

-----------------------------------------------------------------------------
\* What is on its way of S is in o.
Covered(q, op, now, S, o) ==
  \A i \in 1 .. Len(q) + 1 : IsOffer(q, op, i) => S \cap Offer(q, now, i) \subseteq o

LEMMA TailOffers ==
  ASSUME NEW q, q \in Seq(ToSet(q)), q # <<>>, NEW op, NEW now
  PROVE  /\ \A i \in 1 .. Len(Tail(q)) + 1 :
              /\ i \in Nat /\ i + 1 \in 1 .. Len(q) + 1 /\ 1 < i + 1
              /\ IsOffer(Tail(q), op, i) => IsOffer(q, op, i + 1)
              /\ IsOffer(Tail(q), op, i) => Offer(Tail(q), now, i) = Offer(q, now, i + 1)
         /\ 1 \in 1 .. Len(q) + 1
         /\ Head(q).call.op = op => IsOffer(q, op, 1) /\ Offer(q, now, 1) = Head(q).ret
<1> DEFINE r == Tail(q)
<1>1. /\ Len(q) \in Nat /\ Len(q) > 0 /\ Len(r) = Len(q) - 1 /\ \A i \in 1 .. Len(r) : r[i] = q[i + 1]
      /\ r \in Seq(ToSet(r)) /\ Head(q) = q[1]
  BY Unqueued
<1>2. DOMAIN q = 1 .. Len(q) /\ DOMAIN r = 1 .. Len(r)
  BY <1>1
<1> HIDE DEF r
<1>3. \A i \in 1 .. Len(r) + 1 : /\ i \in Nat /\ i + 1 \in 1 .. Len(q) + 1 /\ 1 < i + 1
                                 /\ IsOffer(r, op, i) => IsOffer(q, op, i + 1)
                                 /\ IsOffer(r, op, i) => Offer(r, now, i) = Offer(q, now, i + 1)
  BY <1>1, <1>2 DEF IsOffer, Offer
<1>4. 1 \in DOMAIN q /\ 1 # Len(q) + 1 /\ 1 \in 1 .. Len(q) + 1
  BY <1>1, <1>2
<1>5. q[1].call.op = op => IsOffer(q, op, 1) /\ Offer(q, now, 1) = q[1].ret
  BY <1>4 DEF IsOffer, Offer
<1>6. QED
  BY <1>1, <1>3, <1>4, <1>5 DEF r

LEMMA CoveredTaken ==
  ASSUME NEW q, q \in Seq(ToSet(q)), q # <<>>, NEW op, NEW now, NEW S, NEW o, Covered(q, op, now, S, o)
  PROVE  /\ Covered(Tail(q), op, now, S, o)
         /\ Head(q).call.op = op => S \cap Head(q).ret \subseteq o
<1>1. ASSUME NEW i \in 1 .. Len(Tail(q)) + 1, IsOffer(Tail(q), op, i)
      PROVE  S \cap Offer(Tail(q), now, i) \subseteq o
  <2>1. i + 1 \in 1 .. Len(q) + 1 /\ IsOffer(q, op, i + 1) /\ Offer(Tail(q), now, i) = Offer(q, now, i + 1)
    BY <1>1, TailOffers
  <2>2. QED
    BY <2>1 DEF Covered
<1>2. ASSUME Head(q).call.op = op PROVE S \cap Head(q).ret \subseteq o
  <2>1. 1 \in 1 .. Len(q) + 1 /\ IsOffer(q, op, 1) /\ Offer(q, now, 1) = Head(q).ret
    BY <1>2, TailOffers
  <2>2. QED
    BY <2>1 DEF Covered
<1>3. QED
  BY <1>1, <1>2 DEF Covered

LEMMA CoveredListed ==
  ASSUME NEW q, q \in Seq(ToSet(q)), q # <<>>, NEW op, NEW now, NEW S, Fades(q, op, now, S, 0),
         Head(q).call.op = op
  PROVE  Covered(Tail(q), op, now, S, Head(q).ret)
<1> SUFFICES ASSUME NEW i \in 1 .. Len(Tail(q)) + 1, IsOffer(Tail(q), op, i)
             PROVE  S \cap Offer(Tail(q), now, i) \subseteq Head(q).ret
  BY DEF Covered
<1>1. /\ i + 1 \in 1 .. Len(q) + 1 /\ 1 \in 1 .. Len(q) + 1 /\ 1 < i + 1 /\ IsOffer(q, op, i + 1) /\ IsOffer(q, op, 1)
      /\ Offer(Tail(q), now, i) = Offer(q, now, i + 1) /\ Offer(q, now, 1) = Head(q).ret
  BY TailOffers
<1>2. 0 + 1 = 1
  OBVIOUS
<1>3. S \cap Offer(q, now, i + 1) \subseteq Offer(q, now, 1)
  BY <1>1, <1>2 DEF Fades
<1>4. QED
  BY <1>1, <1>3

LEMMA QueuedOffers ==
  ASSUME NEW q, q \in Seq(ToSet(q)), NEW a, NEW op, NEW now, NEW next, a.call.op = op => a.ret = now
  PROVE  LET r == Append(q, a)
         IN  \A i \in 1 .. Len(r) + 1 : IsOffer(r, op, i) =>
               \/ Offer(r, next, i) = next
               \/ i \in 1 .. Len(q) + 1 /\ IsOffer(q, op, i) /\ Offer(r, next, i) = Offer(q, now, i)
<1> DEFINE r == Append(q, a)
           n == Len(q)
<1>1. n \in Nat /\ Len(r) = n + 1 /\ r[n + 1] = a /\ \A i \in 1 .. n : r[i] = q[i]
  BY Queued
<1>2. DOMAIN q = 1 .. n /\ DOMAIN r = 1 .. n + 1
  BY <1>1, Queued
<1> HIDE DEF r, n
<1>3. SUFFICES ASSUME NEW i \in 1 .. Len(r) + 1, IsOffer(r, op, i)
               PROVE  \/ Offer(r, next, i) = next
                      \/ i \in 1 .. n + 1 /\ IsOffer(q, op, i) /\ Offer(r, next, i) = Offer(q, now, i)
  BY DEF r, n
<1>4. CASE i = n + 2
  BY <1>1, <1>4 DEF Offer
<1>5. CASE i = n + 1
  <2>1. a.call.op = op /\ Offer(r, next, i) = a.ret
    BY <1>1, <1>3, <1>5 DEF IsOffer, Offer
  <2>2. IsOffer(q, op, i) /\ Offer(q, now, i) = now
    BY <1>5 DEF IsOffer, Offer, n
  <2>3. QED
    BY <1>1, <1>5, <2>1, <2>2
<1>6. CASE i \in 1 .. n
  <2>1. i # n + 1 /\ i # Len(r) + 1 /\ r[i] = q[i] /\ i \in DOMAIN q /\ i \in 1 .. n + 1
    BY <1>1, <1>2, <1>6
  <2>2. QED
    BY <1>3, <2>1 DEF IsOffer, Offer, n
<1>7. QED
  BY <1>1, <1>3, <1>4, <1>5, <1>6

LEMMA CoveredQueued ==
  ASSUME NEW q, q \in Seq(ToSet(q)), NEW a, NEW op, NEW now, NEW next, a.call.op = op => a.ret = now,
         NEW S, NEW o, Covered(q, op, now, S, o), S \cap next \subseteq now
  PROVE  Covered(Append(q, a), op, next, S, o)
<1>1. S \cap now \subseteq o
  <2>1. Len(q) \in Nat /\ Len(q) + 1 \in 1 .. Len(q) + 1
    BY Queued
  <2>2. IsOffer(q, op, Len(q) + 1) /\ Offer(q, now, Len(q) + 1) = now
    BY DEF IsOffer, Offer
  <2>3. QED
    BY <2>1, <2>2 DEF Covered
<1>2. SUFFICES ASSUME NEW i \in 1 .. Len(Append(q, a)) + 1, IsOffer(Append(q, a), op, i)
               PROVE  S \cap Offer(Append(q, a), next, i) \subseteq o
  BY DEF Covered
<1>3. \/ Offer(Append(q, a), next, i) = next
      \/ /\ i \in 1 .. Len(q) + 1 /\ IsOffer(q, op, i)
         /\ Offer(Append(q, a), next, i) = Offer(q, now, i)
  BY <1>2, QueuedOffers
<1>4. QED
  BY <1>1, <1>3 DEF Covered

\* A list holds ids, and Nil is none.
LEMMA NilFades ==
  ASSUME NEW q, NEW op, NEW now, NEW m \in Nat,
         \A i : i \in 1 .. Len(q) + 1 /\ IsOffer(q, op, i) => Nil \notin Offer(q, now, i)
  PROVE  /\ Fades(q, op, now, {Nil}, m)
         /\ \A o : Covered(q, op, now, {Nil}, o)
<1>1. \A i : i \in m + 1 .. Len(q) + 1 => i \in 1 .. Len(q) + 1
  OBVIOUS
<1>2. Fades(q, op, now, {Nil}, m)
  BY <1>1 DEF Fades
<1>3. QED
  BY <1>2 DEF Covered

LEMMA NilNotOffered ==
  ASSUME Typed
  PROVE  \A i : i \in 1 .. Len(answers) + 1 /\ IsOffer(answers, "creds", i)
                  => Nil \notin Offer(answers, Present(credStore), i)
<1>1. Nil \notin Present(credStore)
  BY PresentIs, PickersAssumption DEF Typed, PickersTypes
<1>2. ASSUME NEW i \in DOMAIN answers, answers[i].call.op = "creds" PROVE Nil \notin answers[i].ret
  <2>1. answers[i] \in ToSet(answers)
    BY DEF ToSet
  <2>2. answers[i].ret \subseteq Creds
    BY <1>2, <2>1 DEF Typed, PickersTypes, WireTypes, IsAnswer
  <2>3. QED
    BY <2>2, PickersAssumption
<1>3. QED
  BY <1>1, <1>2 DEF IsOffer, Offer

\* A picker with the options o and the value v, of which the user wants w.
Shows(q, now, o, v, w) ==
  /\ Fades(q, "creds", now, {w}, 0) /\ Covered(q, "creds", now, {w}, o)
  /\ v = IF w \in o THEN w ELSE Nil
Opening(q, now, w) ==
  \A i \in DOMAIN q : q[i].call.op = "creds" /\ q[i].call.then = "open" => Fades(q, "creds", now, {w}, i - 1)

LEMMA ShowsWantIs ==
  ASSUME NEW f
  PROVE  ShowsWant(f) <=> Shows(answers, Present(credStore), picker[f].options, picker[f].value, wants.cred[f])
BY DEF ShowsWant, Shows, Covered

LEMMA ShowsTaken ==
  ASSUME NEW q, q \in Seq(ToSet(q)), q # <<>>, NEW now, NEW o, NEW v, NEW w, Shows(q, now, o, v, w)
  PROVE  Shows(Tail(q), now, o, v, w)
<1>1. Fades(Tail(q), "creds", now, {w}, 0)
  BY FadesTaken DEF Shows
<1>2. Covered(Tail(q), "creds", now, {w}, o)
  BY CoveredTaken DEF Shows
<1>3. QED
  BY <1>1, <1>2 DEF Shows

LEMMA ShowsListed ==
  ASSUME NEW q, q \in Seq(ToSet(q)), q # <<>>, NEW now, NEW w, Fades(q, "creds", now, {w}, 0),
         Head(q).call.op = "creds", NEW v, v = IF w \in Head(q).ret THEN w ELSE Nil
  PROVE  Shows(Tail(q), now, Head(q).ret, v, w)
<1>1. Fades(Tail(q), "creds", now, {w}, 0)
  BY FadesTaken
<1>2. Covered(Tail(q), "creds", now, {w}, Head(q).ret)
  BY CoveredListed
<1>3. QED
  BY <1>1, <1>2 DEF Shows

LEMMA ShowsKept ==
  ASSUME NEW q, q \in Seq(ToSet(q)), q # <<>>, NEW now, NEW o, NEW v, NEW w, Shows(q, now, o, v, w),
         Head(q).call.op = "creds", Nil \notin Head(q).ret
  PROVE  Shows(Tail(q), now, Head(q).ret, IF v \in Head(q).ret THEN v ELSE Nil, w)
<1>1. w \in Head(q).ret => w \in o
  BY CoveredTaken DEF Shows
<1>2. (IF v \in Head(q).ret THEN v ELSE Nil) = IF w \in Head(q).ret THEN w ELSE Nil
  BY <1>1 DEF Shows
<1>3. QED
  BY <1>2, ShowsListed DEF Shows

LEMMA ShowsQueued ==
  ASSUME NEW q, q \in Seq(ToSet(q)), NEW a, NEW now, NEW next, a.call.op = "creds" => a.ret = now /\ next = now,
         NEW o, NEW v, NEW w, Shows(q, now, o, v, w), w \in next => w \in now
  PROVE  Shows(Append(q, a), next, o, v, w)
<1>1. {w} \cap next \subseteq now
  OBVIOUS
<1>2. Fades(Append(q, a), "creds", next, {w}, 0)
  BY <1>1, FadesQueued DEF Shows
<1>3. Covered(Append(q, a), "creds", next, {w}, o)
  BY <1>1, CoveredQueued DEF Shows
<1>4. QED
  BY <1>2, <1>3 DEF Shows

LEMMA OpeningTaken ==
  ASSUME NEW q, q \in Seq(ToSet(q)), q # <<>>, NEW now, NEW w, Opening(q, now, w)
  PROVE  /\ Opening(Tail(q), now, w)
         /\ Head(q).call.op = "creds" /\ Head(q).call.then = "open" => Fades(q, "creds", now, {w}, 0)
<1> PICK r : r = Tail(q)
  OBVIOUS
<1>1. /\ Len(q) \in Nat /\ Len(q) > 0 /\ Len(r) = Len(q) - 1 /\ \A i \in 1 .. Len(r) : r[i] = q[i + 1]
      /\ DOMAIN q = 1 .. Len(q) /\ Head(q) = q[1] /\ r \in Seq(ToSet(r))
  BY Unqueued
<1>2. DOMAIN r = 1 .. Len(r)
  BY <1>1
<1>3. ASSUME NEW i \in DOMAIN r, r[i].call.op = "creds", r[i].call.then = "open"
      PROVE  Fades(r, "creds", now, {w}, i - 1)
  <2>1. i + 1 \in DOMAIN q /\ r[i] = q[i + 1] /\ (i + 1) - 1 = (i - 1) + 1 /\ i - 1 \in Nat
    BY <1>1, <1>2
  <2>2. Fades(q, "creds", now, {w}, (i - 1) + 1)
    BY <1>3, <2>1 DEF Opening
  <2>3. QED
    BY <2>1, <2>2, FadesTail
<1>4. 1 \in DOMAIN q /\ 1 - 1 = 0
  BY <1>1
<1>5. QED
  BY <1>1, <1>3, <1>4 DEF Opening

LEMMA OpeningQueued ==
  ASSUME NEW q, q \in Seq(ToSet(q)), NEW a, NEW now, NEW next, a.call.op = "creds" => a.ret = now /\ next = now,
         NEW w, Opening(q, now, w), w \in next => w \in now
  PROVE  Opening(Append(q, a), next, w)
<1> PICK n : n = Len(q)
  OBVIOUS
<1> PICK r : r = Append(q, a)
  OBVIOUS
<1>1. n \in Nat /\ Len(r) = n + 1 /\ r[n + 1] = a /\ (\A i \in 1 .. n : r[i] = q[i]) /\ r \in Seq(ToSet(r))
  BY Queued
<1>2. DOMAIN q = 1 .. n /\ DOMAIN r = 1 .. n + 1
  BY <1>1
<1>3. {w} \cap next \subseteq now
  OBVIOUS
<1>4. ASSUME NEW i \in 1 .. n, q[i].call.op = "creds", q[i].call.then = "open"
      PROVE  Fades(r, "creds", next, {w}, i - 1)
  <2>0. i \in DOMAIN q /\ i - 1 \in Nat
    BY <1>1, <1>2
  <2>1. Fades(q, "creds", now, {w}, i - 1)
    BY <1>4, <2>0 DEF Opening
  <2>2. QED
    BY <1>3, <2>0, <2>1, FadesQueued
<1>5. ASSUME a.call.op = "creds" PROVE Fades(r, "creds", next, {w}, (n + 1) - 1)
  <2>1. SUFFICES ASSUME NEW j \in n + 1 .. n + 2, NEW k \in n + 1 .. n + 2, j < k
                 PROVE  {w} \cap Offer(r, next, k) \subseteq Offer(r, next, j)
    BY <1>1 DEF Fades
  <2>2. j = n + 1 /\ k = n + 2
    BY <1>1, <2>1
  <2>3. Offer(r, next, k) = next /\ Offer(r, next, j) = a.ret
    BY <1>1, <2>2 DEF Offer
  <2>4. QED
    BY <1>5, <2>3
<1>6. ASSUME NEW i \in DOMAIN r, r[i].call.op = "creds", r[i].call.then = "open"
      PROVE  Fades(r, "creds", next, {w}, i - 1)
  <2>1. CASE i \in 1 .. n
    BY <1>1, <1>4, <1>6, <2>1
  <2>2. CASE i = n + 1
    BY <1>1, <1>5, <1>6, <2>2
  <2>3. QED
    BY <1>2, <2>1, <2>2
<1>7. QED
  BY <1>6 DEF Opening

LEMMA OpeningOf ==
  ASSUME NEW q, q \in Seq(ToSet(q)), NEW now, NEW w, Fades(q, "creds", now, {w}, 0)
  PROVE  Opening(q, now, w)
<1> SUFFICES ASSUME NEW i \in DOMAIN q PROVE Fades(q, "creds", now, {w}, i - 1)
  BY DEF Opening
<1>1. i - 1 \in Nat /\ 0 <= i - 1
  OBVIOUS
<1>2. QED
  BY <1>1, FadesWithin

HostChoice ==
  /\ hostDlg.cred = wants.cred["host"] /\ (hostDlg.open => ShowsWant("host"))
  /\ Opening(answers, Present(credStore), wants.cred["host"])

LEMMA ChoiceComesIs ==
  ChoiceComes <=> (ToChoose("outer") \/ ShowsWant("outer")) /\ (ToChoose("host") \/ HostChoice)
BY DEF ChoiceComes, HostChoice, Opening

LEMMA ClickSameChoice ==
  ASSUME Typed, ChoiceComes, NEW A, ClickStep(A),
         \A f \in Forms : picker'[f].value = picker[f].value /\ wants'.cred[f] = wants.cred[f],
         hostDlg'.cred = hostDlg.cred
  PROVE  ChoiceComes'
<1>1. /\ answers' = answers /\ credStore' = credStore /\ Present(credStore)' = Present(credStore)
      /\ \A f \in Forms : picker'[f].options = picker[f].options
      /\ hostDlg'.open => hostDlg.open
  BY DEF ClickStep
<1>2. ToSet(calls) \subseteq ToSet(calls')
  BY DEF ClickStep, Grows
<1>3. \A f : ToChoose(f) => ToChoose(f)'
  BY <1>1, <1>2 DEF ToChoose
<1>4. ASSUME NEW f \in Forms PROVE ShowsWant(f) => ShowsWant(f)'
  BY <1>1, <1>4 DEF ShowsWant
<1>5. "outer" \in Forms /\ "host" \in Forms
  BY DEF Forms
<1>6. ToChoose("outer") \/ ShowsWant("outer") => (ToChoose("outer") \/ ShowsWant("outer"))'
  BY <1>3, <1>4, <1>5
<1>7. HostChoice => HostChoice'
  BY <1>1, <1>4, <1>5 DEF HostChoice
<1>8. (ToChoose("outer") \/ ShowsWant("outer")) /\ (ToChoose("host") \/ HostChoice)
  BY ChoiceComesIs
<1>9. (ToChoose("outer") \/ ShowsWant("outer"))' /\ (ToChoose("host") \/ HostChoice)'
  BY <1>3, <1>6, <1>7, <1>8
<1>10. QED
  BY <1>9 DEF ChoiceComes, HostChoice, Opening

LEMMA ClickPickChoice ==
  ASSUME Typed, NoneReturns, ChoiceComes, NEW A, ClickStep(A),
         NEW f \in Forms, NEW id \in Creds \cup {Nil}, PickCred(f, id)
  PROVE  ChoiceComes'
<1>1. /\ answers' = answers /\ credStore' = credStore /\ Present(credStore)' = Present(credStore)
      /\ answers \in Seq(ToSet(answers))
  BY DEF ClickStep, Typed, PickersTypes, WireTypes
<1>2. ToSet(calls) \subseteq ToSet(calls')
  BY DEF ClickStep, Grows
<1>3. \A g : ToChoose(g) => ToChoose(g)'
  BY <1>1, <1>2 DEF ToChoose
<1>4. /\ id \in picker[f].options \cup {Nil}
      /\ picker' = [picker EXCEPT ![f].value = id]
      /\ wants' = [wants EXCEPT !.cred[f] = id]
      /\ hostDlg' = IF f = "host" THEN [hostDlg EXCEPT !.cred = id] ELSE hostDlg
  BY DEF PickCred, Tell
<1>5. /\ picker'[f].options = picker[f].options /\ picker'[f].value = id /\ wants'.cred[f] = id
      /\ \A g \in Forms : g # f => picker'[g] = picker[g] /\ wants'.cred[g] = wants.cred[g]
      /\ hostDlg'.open = hostDlg.open
      /\ hostDlg'.cred = IF f = "host" THEN id ELSE hostDlg.cred
  BY <1>4 DEF Typed, PickersTypes, WindowTypes
<1>6. Fades(answers, "creds", Present(credStore), {id}, 0) /\ Covered(answers, "creds", Present(credStore), {id}, picker[f].options)
  <2>1. CASE id = Nil
    <3>1. \A i : i \in 1 .. Len(answers) + 1 /\ IsOffer(answers, "creds", i) => id \notin Offer(answers, Present(credStore), i)
      BY <2>1, NilNotOffered
    <3>2. 0 \in Nat
      OBVIOUS
    <3>3. QED
      BY <2>1, <3>1, <3>2, NilFades
  <2>2. CASE id \in picker[f].options
    <3>1. Fades(answers, "creds", Present(credStore), picker[f].options, 0)
      BY DEF NoneReturns
    <3>2. 0 \in Nat /\ 0 <= 0 /\ {id} \subseteq picker[f].options
      BY <2>2
    <3>3. Fades(answers, "creds", Present(credStore), {id}, 0)
      BY <3>1, <3>2, FadesWithin
    <3>4. Covered(answers, "creds", Present(credStore), {id}, picker[f].options)
      BY <2>2 DEF Covered
    <3>5. QED
      BY <3>3, <3>4
  <2>3. QED
    BY <1>4, <2>1, <2>2
<1>7. ShowsWant(f)'
  <2>1. Nil \notin picker[f].options
    BY PickersAssumption DEF Typed, PickersTypes, WindowTypes
  <2>2. id = IF id \in picker[f].options THEN id ELSE Nil
    BY <1>4
  <2>3. Shows(answers, Present(credStore), picker[f].options, id, id)
    BY <1>6, <2>2 DEF Shows
  <2>4. QED
    BY <1>1, <1>5, <2>3 DEF ShowsWant, Shows, Covered
<1>8. ASSUME NEW g \in Forms, g # f, ShowsWant(g) PROVE ShowsWant(g)'
  BY <1>1, <1>5, <1>8 DEF ShowsWant
<1>9. "outer" \in Forms /\ "host" \in Forms
  BY DEF Forms
<1>10. (ToChoose("outer") \/ ShowsWant("outer")) /\ (ToChoose("host") \/ HostChoice)
  BY ChoiceComesIs
<1>11. (ToChoose("outer") \/ ShowsWant("outer"))'
  BY <1>3, <1>7, <1>8, <1>9, <1>10
<1>12. (ToChoose("host") \/ HostChoice)'
  <2>1. CASE f = "host"
    <3>1. Opening(answers, Present(credStore), id)
      BY <1>1, <1>6, OpeningOf
    <3>2. QED
      BY <1>1, <1>5, <1>7, <2>1, <3>1 DEF HostChoice, Opening
  <2>2. CASE f # "host"
    <3>1. HostChoice => HostChoice'
      BY <1>1, <1>5, <1>8, <1>9, <2>2 DEF HostChoice
    <3>2. QED
      BY <1>3, <1>10, <3>1
  <2>3. QED
    BY <2>1, <2>2
<1>13. QED
  BY <1>11, <1>12 DEF ChoiceComes, HostChoice, Opening

LEMMA ClickNewHostChoice ==
  ASSUME Typed, ChoiceComes, NEW A, ClickStep(A), NewHost
  PROVE  ChoiceComes'
<1>1. /\ answers' = answers /\ credStore' = credStore /\ Present(credStore)' = Present(credStore)
      /\ answers \in Seq(ToSet(answers))
  BY DEF ClickStep, Typed, PickersTypes, WireTypes
<1>2. ToSet(calls) \subseteq ToSet(calls')
  BY DEF ClickStep, Grows
<1>3. \A g : ToChoose(g) => ToChoose(g)'
  BY <1>1, <1>2 DEF ToChoose
<1>4. /\ ~hostDlg.open /\ picker' = picker
      /\ hostDlg' = [hostDlg EXCEPT !.id = Nil, !.cred = Nil]
      /\ wants' = [wants EXCEPT !.cred["host"] = Nil]
  BY DEF NewHost, LoadHost, AtForm
<1>5. ~hostDlg'.open /\ hostDlg'.cred = Nil /\ wants'.cred["host"] = Nil /\ wants'.cred["outer"] = wants.cred["outer"]
  BY <1>4 DEF Typed, PickersTypes, WindowTypes, Forms
<1>6. Opening(answers, Present(credStore), Nil)
  <2>1. Fades(answers, "creds", Present(credStore), {Nil}, 0)
    <3>1. 0 \in Nat
      OBVIOUS
    <3>2. QED
      BY <3>1, NilNotOffered, NilFades
  <2>2. QED
    BY <1>1, <2>1, OpeningOf
<1>7. HostChoice'
  BY <1>1, <1>5, <1>6 DEF HostChoice, Opening
<1>8. ShowsWant("outer") => ShowsWant("outer")'
  BY <1>1, <1>4, <1>5 DEF ShowsWant
<1>9. (ToChoose("outer") \/ ShowsWant("outer"))'
  BY <1>3, <1>8, ChoiceComesIs
<1>10. QED
  BY <1>7, <1>9 DEF ChoiceComes, HostChoice, Opening

LEMMA ClickChoice ==
  ASSUME Typed, NoneReturns, ChoiceComes, Clicks, NEW A, ClickStep(A)
  PROVE  ChoiceComes'
<1>1. ASSUME NEW f \in Forms, NEW x \in Creds \cup {Nil}, PickCred(f, x) PROVE ChoiceComes'
  BY <1>1, ClickPickChoice
<1>2. CASE NewHost
  BY <1>2, ClickNewHostChoice
<1>3. CASE UNCHANGED <<picker, hostDlg, wants>>
  BY <1>3, ClickSameChoice
<1>4. ASSUME NEW f \in Forms, AskEditCred(f) \/ AskDeleteCred(f) PROVE ChoiceComes'
  BY <1>3, <1>4 DEF AskEditCred, AskDeleteCred
<1>5. ASSUME NEW f \in Forms, NewCred(f) PROVE ChoiceComes'
  BY <1>3, <1>5 DEF NewCred
<1>6. ASSUME NEW f \in Forms, NEW auth \in Auths, ChangeType(f, auth) PROVE ChoiceComes'
  BY <1>3, <1>6 DEF ChangeType
<1>7. ASSUME NEW f \in Forms, TypeSecret(f) PROVE ChoiceComes'
  BY <1>3, <1>7 DEF TypeSecret
<1>8. ASSUME NEW f \in Forms, SaveCredential(f) PROVE ChoiceComes'
  BY <1>3, <1>8 DEF SaveCredential
<1>9. ASSUME NEW f \in Forms, CancelCred(f) PROVE ChoiceComes'
  BY <1>3, <1>9 DEF CancelCred
<1>10. ASSUME NEW h \in Hosts, Focus(h) PROVE ChoiceComes'
  BY <1>3, <1>10 DEF Focus
<1>11. ASSUME NEW i \in DOMAIN chain.ids, MoveHop(i) PROVE ChoiceComes'
  BY <1>3, <1>11 DEF MoveHop
<1>12. ASSUME NEW i \in DOMAIN chain.ids, RemoveHop(i) PROVE ChoiceComes'
  <2>1. picker' = picker /\ hostDlg' = hostDlg /\ wants'.cred = wants.cred
    BY <1>12 DEF RemoveHop, Typed, PickersTypes, WindowTypes
  <2>2. QED
    BY <2>1, ClickSameChoice
<1>13. CASE AddHop
  <2>1. picker' = picker /\ hostDlg' = hostDlg /\ wants'.cred = wants.cred
    BY <1>13 DEF AddHop, Typed, PickersTypes, WindowTypes
  <2>2. QED
    BY <2>1, ClickSameChoice
<1>14. CASE AskEditHost \/ AskDeleteHost
  BY <1>3, <1>14 DEF AskEditHost, AskDeleteHost
<1>15. CASE SaveHost \/ CancelHost
  <2>1. picker' = picker /\ hostDlg'.cred = hostDlg.cred /\ wants' = wants
    BY <1>15 DEF SaveHost, CancelHost, Typed, PickersTypes, WindowTypes
  <2>2. QED
    BY <2>1, ClickSameChoice
<1>16. QED
  BY <1>1, <1>2, <1>4, <1>5, <1>6, <1>7, <1>8, <1>9, <1>10, <1>11, <1>12, <1>13, <1>14,
     <1>15 DEF Clicks

LEMMA TakeShows ==
  ASSUME Typed, NEW A, TakeStep(A), NEW f \in Forms, ShowsWant(f),
         picker'[f] = picker[f], wants'.cred[f] = wants.cred[f]
  PROVE  ShowsWant(f)'
<1>1. /\ answers \in Seq(ToSet(answers)) /\ answers # <<>> /\ answers' = Tail(answers)
      /\ Present(credStore)' = Present(credStore)
  BY DEF TakeStep, Typed, PickersTypes, WireTypes
<1>2. Shows(answers', Present(credStore), picker[f].options, picker[f].value, wants.cred[f])
  BY <1>1, ShowsWantIs, ShowsTaken
<1>3. QED
  BY <1>1, <1>2 DEF ShowsWant, Shows, Covered

LEMMA TakeToChoose ==
  ASSUME Typed, NEW A, TakeStep(A), NEW f, ToChoose(f), ~Chooses(Head(answers).call, f)
  PROVE  ToChoose(f)'
<1>1. ToSet(calls) \subseteq ToSet(calls')
  BY DEF TakeStep, Grows
<1>2. ToSet(answers) \subseteq ToSet(answers') \cup {Head(answers)}
  BY Unqueued DEF TakeStep, Typed, PickersTypes, WireTypes
<1>3. QED
  BY <1>1, <1>2 DEF ToChoose

LEMMA TakeOpening ==
  ASSUME Typed, NEW A, TakeStep(A)
  PROVE  /\ Opening(answers, Present(credStore), wants.cred["host"])
              => Opening(answers', Present(credStore)', wants.cred["host"])
         /\ \A w : Fades(answers, "creds", Present(credStore), {w}, 0) \/ Fades(answers', "creds", Present(credStore), {w}, 0)
              => Opening(answers', Present(credStore)', w)
<1>1. /\ answers \in Seq(ToSet(answers)) /\ answers # <<>> /\ answers' = Tail(answers)
      /\ Present(credStore)' = Present(credStore) /\ answers' \in Seq(ToSet(answers'))
  BY Unqueued DEF TakeStep, Typed, PickersTypes, WireTypes
<1>2. \A w : Opening(answers, Present(credStore), w) => Opening(answers', Present(credStore)', w)
  BY <1>1, OpeningTaken
<1>3. \A w : Fades(answers, "creds", Present(credStore), {w}, 0) => Opening(answers', Present(credStore)', w)
  BY <1>1, <1>2, OpeningOf
<1>4. \A w : Fades(answers', "creds", Present(credStore), {w}, 0) => Opening(answers', Present(credStore)', w)
  BY <1>1, OpeningOf
<1>5. QED
  BY <1>2, <1>3, <1>4

LEMMA NilNotAhead ==
  ASSUME Typed, answers # <<>>
  PROVE  \A i : i \in 1 .. Len(Tail(answers)) + 1 /\ IsOffer(Tail(answers), "creds", i) =>
           Nil \notin Offer(Tail(answers), Present(credStore), i)
<1>1. answers \in Seq(ToSet(answers))
  BY DEF Typed, PickersTypes, WireTypes
<1>2. SUFFICES ASSUME NEW i \in 1 .. Len(Tail(answers)) + 1, IsOffer(Tail(answers), "creds", i)
               PROVE  Nil \notin Offer(Tail(answers), Present(credStore), i)
  OBVIOUS
<1>3. i + 1 \in 1 .. Len(answers) + 1 /\ IsOffer(answers, "creds", i + 1)
      /\ Offer(Tail(answers), Present(credStore), i) = Offer(answers, Present(credStore), i + 1)
  BY <1>1, <1>2, TailOffers
<1>4. QED
  BY <1>3, NilNotOffered

\* The choice of one picker is kept when nothing is done to it.
LEMMA TakeOuter ==
  ASSUME Typed, ChoiceComes, NEW A, TakeStep(A), ~Chooses(Head(answers).call, "outer"),
         picker'["outer"] = picker["outer"], wants'.cred["outer"] = wants.cred["outer"]
  PROVE  (ToChoose("outer") \/ ShowsWant("outer"))'
<1>1. "outer" \in Forms
  BY DEF Forms
<1>2. ToChoose("outer") \/ ShowsWant("outer")
  BY ChoiceComesIs
<1>3. QED
  BY <1>1, <1>2, TakeShows, TakeToChoose

LEMMA TakeHostSame ==
  ASSUME Typed, ChoiceComes, NEW A, TakeStep(A), ~Chooses(Head(answers).call, "host"),
         picker'["host"] = picker["host"], wants'.cred["host"] = wants.cred["host"],
         hostDlg'.cred = hostDlg.cred, hostDlg'.open => hostDlg.open
  PROVE  (ToChoose("host") \/ HostChoice)'
<1>1. "host" \in Forms
  BY DEF Forms
<1>2. ASSUME HostChoice PROVE HostChoice'
  <2>1. Opening(answers', Present(credStore)', wants'.cred["host"])
    BY <1>2, TakeOpening DEF HostChoice
  <2>2. hostDlg'.open => ShowsWant("host")'
    BY <1>1, <1>2, TakeShows DEF HostChoice
  <2>3. QED
    BY <1>2, <2>1, <2>2 DEF HostChoice, Opening
<1>3. ToChoose("host") \/ HostChoice
  BY ChoiceComesIs
<1>4. QED
  BY <1>2, <1>3, TakeToChoose

LEMMA ChoiceFrom ==
  ASSUME (ToChoose("outer") \/ ShowsWant("outer"))', (ToChoose("host") \/ HostChoice)'
  PROVE  ChoiceComes'
BY DEF ChoiceComes, HostChoice, Opening

-----------------------------------------------------------------------------
\* The list is there.
LEMMA ListedChoice ==
  ASSUME Typed, NoneReturns, ChoiceComes, NEW A, TakeStep(A), CredsListed
  PROVE  ChoiceComes'
<1> PICK a : a = Head(answers)
  OBVIOUS
<1> PICK f : f = a.call.f
  OBVIOUS
<1>1. /\ f \in Forms /\ a.call.op = "creds" /\ a.ret \subseteq Creds
      /\ a.call.then \in {"keep", "open", "choose"}
      /\ picker'[f].options = a.ret /\ \A g \in Forms : g # f => picker'[g] = picker[g]
      /\ a.call.then = "keep" =>
           /\ picker'[f].value = IF picker[f].value \in a.ret THEN picker[f].value ELSE Nil
           /\ UNCHANGED <<hostDlg, wants>>
      /\ a.call.then = "open" =>
           /\ f = "host" /\ hostDlg' = [hostDlg EXCEPT !.open = TRUE] /\ UNCHANGED wants
           /\ picker'[f].value = IF hostDlg.cred \in a.ret THEN hostDlg.cred ELSE Nil
      /\ a.call.then = "choose" =>
           /\ a.call.id \in Creds
           /\ picker'[f].value = IF a.call.id \in a.ret THEN a.call.id ELSE Nil
           /\ Tell(f, picker'[f].value)
  BY CredsListedIs
<1>2. /\ answers \in Seq(ToSet(answers)) /\ answers # <<>> /\ answers' = Tail(answers)
      /\ Present(credStore)' = Present(credStore) /\ Nil \notin a.ret
      /\ answers' \in Seq(ToSet(answers'))
  BY <1>1, Unqueued, PickersAssumption DEF TakeStep, Typed, PickersTypes, WireTypes
<1>3. "outer" \in Forms /\ "host" \in Forms
  BY DEF Forms
<1>4. \A g : g # f => ~Chooses(a.call, g)
  BY DEF Chooses
<1>5. CASE a.call.then = "keep"
  <2>1. ~Chooses(a.call, f)
    BY <1>5 DEF Chooses
  <2>2. ASSUME ShowsWant(f) PROVE ShowsWant(f)'
    <3>1. Shows(answers', Present(credStore), a.ret, picker'[f].value, wants.cred[f])
      BY <1>1, <1>2, <1>5, <2>2, ShowsWantIs, ShowsKept
    <3>2. picker'[f].options = a.ret /\ wants' = wants
      BY <1>1, <1>5
    <3>3. QED
      BY <1>2, <3>1, <3>2 DEF ShowsWant, Shows, Covered
  <2>3. CASE f = "outer"
    <3>1. (ToChoose("outer") \/ ShowsWant("outer"))'
      BY <2>1, <2>2, <2>3, TakeToChoose, ChoiceComesIs
    <3>2. (ToChoose("host") \/ HostChoice)'
      BY <1>1, <1>3, <1>4, <1>5, <2>3, TakeHostSame
    <3>3. QED
      BY <3>1, <3>2, ChoiceFrom
  <2>4. CASE f = "host"
    <3>1. (ToChoose("outer") \/ ShowsWant("outer"))'
      BY <1>1, <1>3, <1>4, <1>5, <2>4, TakeOuter
    <3>2. ASSUME HostChoice PROVE HostChoice'
      <4>1. Opening(answers', Present(credStore)', wants.cred["host"])
        BY <3>2, TakeOpening DEF HostChoice
      <4>2. hostDlg' = hostDlg /\ wants' = wants
        BY <1>1, <1>5
      <4>3. hostDlg'.open => ShowsWant("host")'
        BY <2>2, <2>4, <3>2, <4>2 DEF HostChoice
      <4>4. QED
        BY <3>2, <4>1, <4>2, <4>3 DEF HostChoice, Opening
    <3>3. (ToChoose("host") \/ HostChoice)'
      BY <2>1, <2>4, <3>2, TakeToChoose, ChoiceComesIs
    <3>4. QED
      BY <3>1, <3>3, ChoiceFrom
  <2>5. QED
    BY <1>1, <2>3, <2>4 DEF Forms
<1>6. CASE a.call.then = "open"
  <2>1. f = "host" /\ wants' = wants /\ hostDlg'.cred = hostDlg.cred
    BY <1>1, <1>6 DEF Typed, PickersTypes, WindowTypes
  <2>2. (ToChoose("outer") \/ ShowsWant("outer"))'
    BY <1>1, <1>3, <1>4, <2>1, TakeOuter
  <2>3. ASSUME HostChoice PROVE HostChoice'
    <3>1. PICK w : w = wants.cred["host"]
      OBVIOUS
    <3>2. hostDlg.cred = w /\ Opening(answers, Present(credStore), w)
      BY <2>3, <3>1 DEF HostChoice
    <3>3. Fades(answers, "creds", Present(credStore), {w}, 0)
      BY <1>1, <1>2, <1>6, <3>2, OpeningTaken
    <3>4. picker'["host"].value = IF w \in a.ret THEN w ELSE Nil
      BY <1>1, <1>6, <2>1, <3>2
    <3>5. Shows(answers', Present(credStore), a.ret, picker'["host"].value, w)
      BY <1>1, <1>2, <3>3, <3>4, ShowsListed
    <3>6. picker'["host"].options = a.ret
      BY <1>1, <2>1
    <3>7. ShowsWant("host")'
      BY <1>2, <2>1, <3>1, <3>5, <3>6 DEF ShowsWant, Shows, Covered
    <3>8. Opening(answers', Present(credStore)', w)
      BY <3>3, TakeOpening
    <3>9. QED
      BY <2>1, <3>1, <3>2, <3>7, <3>8 DEF HostChoice, Opening
  <2>4. ~Chooses(a.call, "host")
    BY <1>6 DEF Chooses
  <2>5. (ToChoose("host") \/ HostChoice)'
    BY <2>3, <2>4, TakeToChoose, ChoiceComesIs
  <2>6. QED
    BY <2>2, <2>5, ChoiceFrom
<1>7. CASE a.call.then = "choose"
  <2>1. PICK v : v = IF a.call.id \in a.ret THEN a.call.id ELSE Nil
    OBVIOUS
  <2>2. /\ picker'[f].value = v /\ picker'[f].options = a.ret
        /\ wants' = [wants EXCEPT !.cred[f] = v]
        /\ hostDlg' = IF f = "host" THEN [hostDlg EXCEPT !.cred = v] ELSE hostDlg
    BY <1>1, <1>7, <2>1 DEF Tell
  <2>3. /\ wants'.cred[f] = v /\ \A g \in Forms : g # f => wants'.cred[g] = wants.cred[g]
        /\ f = "host" => hostDlg'.cred = v
    BY <1>1, <2>2 DEF Typed, PickersTypes, WindowTypes
  <2>4. Fades(answers', "creds", Present(credStore), {v}, 0)
    <3>1. CASE v = Nil
      <4>1. \A i : i \in 1 .. Len(Tail(answers)) + 1 /\ IsOffer(Tail(answers), "creds", i) =>
              Nil \notin Offer(Tail(answers), Present(credStore), i)
        BY <1>2, NilNotAhead
      <4>2. 0 \in Nat
        OBVIOUS
      <4>3. Fades(Tail(answers), "creds", Present(credStore), {Nil}, 0)
        BY <4>1, <4>2, NilFades
      <4>4. QED
        BY <1>2, <3>1, <4>3
    <3>2. CASE v \in a.ret
      <4>1. Fades(answers', "creds", Present(credStore), a.ret, 0)
        BY <1>1, <1>2, InOrderTaken DEF NoneReturns
      <4>2. 0 \in Nat /\ 0 <= 0 /\ {v} \subseteq a.ret
        BY <3>2
      <4>3. QED
        BY <4>1, <4>2, FadesWithin
    <3>3. QED
      BY <2>1, <3>1, <3>2
  <2>5. Shows(answers', Present(credStore), a.ret, v, v)
    <3>1. Covered(answers', "creds", Present(credStore), {v}, a.ret)
      <4>1. CASE v \in a.ret
        BY <4>1 DEF Covered
      <4>2. CASE v = Nil
        BY <1>2, <4>2, NilNotAhead DEF Covered
      <4>3. QED
        BY <2>1, <4>1, <4>2
    <3>2. QED
      BY <1>2, <2>1, <2>4, <3>1 DEF Shows
  <2>6. ShowsWant(f)'
    BY <1>2, <2>2, <2>3, <2>5 DEF ShowsWant, Shows, Covered
  <2>7. CASE f = "outer"
    <3>1. hostDlg' = hostDlg /\ wants'.cred["host"] = wants.cred["host"]
      BY <1>3, <2>2, <2>3, <2>7
    <3>2. (ToChoose("host") \/ HostChoice)'
      BY <1>1, <1>3, <1>4, <2>7, <3>1, TakeHostSame
    <3>3. QED
      BY <2>6, <2>7, <3>2, ChoiceFrom
  <2>8. CASE f = "host"
    <3>1. Opening(answers', Present(credStore)', v)
      BY <2>4, TakeOpening
    <3>2. HostChoice'
      BY <2>3, <2>6, <2>8, <3>1 DEF HostChoice, Opening
    <3>3. (ToChoose("outer") \/ ShowsWant("outer"))'
      BY <1>1, <1>3, <1>4, <2>3, <2>8, TakeOuter
    <3>4. QED
      BY <3>2, <3>3, ChoiceFrom
  <2>9. QED
    BY <1>1, <2>7, <2>8 DEF Forms
<1>8. QED
  BY <1>1, <1>5, <1>6, <1>7

LEMMA TakeSameChoice ==
  ASSUME Typed, ChoiceComes, NEW A, TakeStep(A), Head(answers).call.op # "creds",
         picker' = picker, wants'.cred = wants.cred, hostDlg'.cred = hostDlg.cred, hostDlg'.open => hostDlg.open
  PROVE  ChoiceComes'
<1>1. \A g : ~Chooses(Head(answers).call, g)
  BY DEF Chooses
<1>2. (ToChoose("outer") \/ ShowsWant("outer"))'
  BY <1>1, TakeOuter
<1>3. (ToChoose("host") \/ HostChoice)'
  BY <1>1, TakeHostSame
<1>4. QED
  BY <1>2, <1>3, ChoiceFrom

LEMMA SavedChoice ==
  ASSUME Typed, ChoiceComes, NEW A, TakeStep(A), CredSaved
  PROVE  ChoiceComes'
<1> PICK a : a = Head(answers)
  OBVIOUS
<1> PICK f : f = a.call.f
  OBVIOUS
<1>1. /\ a.call.op = "save cred" /\ picker' = picker /\ hostDlg' = hostDlg
      /\ wants' = IF a.ret = Nil THEN wants ELSE [wants EXCEPT !.cred[f] = a.ret]
      /\ calls' = calls \o (IF a.ret = Nil THEN <<>> ELSE ChooseSaved(f, a.ret))
  BY DEF CredSaved, Answer, Taken
<1>2. f \in Forms /\ answers # <<>>
  BY <1>1, HeadIs DEF TakeStep, IsAnswer, IsCall
<1>3. CASE a.ret = Nil
  BY <1>1, <1>3, TakeSameChoice
<1>4. CASE a.ret # Nil
  <2>1. \A g \in Forms : g # f => wants'.cred[g] = wants.cred[g]
    BY <1>1, <1>4 DEF Typed, PickersTypes, WindowTypes
  <2>2. ToChoose(f)'
    <3>1. PICK c : c = [op |-> "creds", f |-> f, then |-> "choose", id |-> a.ret]
      OBVIOUS
    <3>2. PICK b1, b2 : b1 = [op |-> "creds", f |-> "outer", then |-> "keep"]
                        /\ b2 = [op |-> "creds", f |-> "host", then |-> "keep"]
      OBVIOUS
    <3>3. ChooseSaved(f, a.ret) = Append(<<b1, b2>>, c)
      BY Zenon, <3>1, <3>2 DEF ChooseSaved, CredsChanged
    <3>4. ChooseSaved(f, a.ret) = <<b1, b2, c>>
      BY <3>3, Lists3
    <3>5. calls' = calls \o <<b1, b2, c>>
      BY <1>1, <1>4, <3>4
    <3>6. calls \in Seq(ToSet(calls))
      BY DEF Typed, PickersTypes, WireTypes
    <3>7. <<b1, b2, c>> \in Seq({b1, b2, c}) /\ ToSet(<<b1, b2, c>>) = {b1, b2, c}
      BY Threes
    <3>8. c \in ToSet(calls')
      BY <3>5, <3>6, <3>7, QueuedAll
    <3>9. Chooses(c, f)
      BY <3>1 DEF Chooses
    <3>10. QED
      BY <3>8, <3>9 DEF ToChoose
  <2>3. \A g : ~Chooses(a.call, g)
    BY <1>1 DEF Chooses
  <2>4. "outer" \in Forms /\ "host" \in Forms
    BY DEF Forms
  <2>5. (ToChoose("outer") \/ ShowsWant("outer"))'
    <3>1. CASE f = "outer"
      BY <2>2, <3>1
    <3>2. CASE f # "outer"
      BY <1>1, <2>1, <2>3, <2>4, <3>2, TakeOuter
    <3>3. QED
      BY <3>1, <3>2
  <2>6. (ToChoose("host") \/ HostChoice)'
    <3>1. CASE f = "host"
      BY <2>2, <3>1
    <3>2. CASE f # "host"
      BY <1>1, <2>1, <2>3, <2>4, <3>2, TakeHostSame
    <3>3. QED
      BY <3>1, <3>2
  <2>7. QED
    BY <2>5, <2>6, ChoiceFrom
<1>5. QED
  BY <1>3, <1>4

LEMMA GotChoice ==
  ASSUME Typed, NoneReturns, ChoiceComes, NEW A, TakeStep(A), HostGot, ~crossed'
  PROVE  ChoiceComes'
<1> PICK a : a = Head(answers)
  OBVIOUS
<1>1. a.call.op = "host" /\ picker' = picker
  BY DEF HostGot, Answer
<1>2. CASE hostDlg' = hostDlg /\ wants' = wants
  BY <1>1, <1>2, TakeSameChoice
<1>3. CASE /\ hostDlg' = [hostDlg EXCEPT !.id = a.call.id, !.cred = a.ret]
           /\ wants' = [wants EXCEPT !.cred["host"] = a.ret] /\ ~hostDlg.open
  <2>1. ~hostDlg'.open /\ hostDlg'.cred = a.ret /\ wants'.cred["host"] = a.ret
        /\ wants'.cred["outer"] = wants.cred["outer"]
    BY <1>3 DEF Typed, PickersTypes, WindowTypes, Forms
  <2>2. /\ answers \in Seq(ToSet(answers)) /\ answers # <<>> /\ answers' = Tail(answers)
        /\ Len(answers) \in Nat /\ Len(answers) > 0 /\ a = answers[1] /\ 1 \in DOMAIN answers
    <3>1. answers \in Seq(ToSet(answers)) /\ answers # <<>> /\ answers' = Tail(answers)
      BY DEF TakeStep, Typed, PickersTypes, WireTypes
    <3>2. Len(answers) \in Nat /\ Len(answers) > 0 /\ a = answers[1]
      BY <3>1, Unqueued
    <3>3. QED
      BY <3>1, <3>2
  <2>3. Fades(answers, "creds", Present(credStore), {a.ret}, 1)
    BY <1>1, <2>2 DEF NoneReturns
  <2>4. Fades(answers', "creds", Present(credStore), {a.ret}, 0)
    <3>1. 0 \in Nat /\ 0 + 1 = 1
      OBVIOUS
    <3>2. Fades(answers, "creds", Present(credStore), {a.ret}, 0 + 1)
      BY <2>3, <3>1
    <3>3. QED
      BY <2>2, <3>1, <3>2, FadesTail
  <2>5. PICK w : w = a.ret
    OBVIOUS
  <2>6. Opening(answers', Present(credStore)', w)
    BY <2>4, <2>5, TakeOpening
  <2>7. HostChoice'
    BY <2>1, <2>5, <2>6 DEF HostChoice, Opening
  <2>8. (ToChoose("outer") \/ ShowsWant("outer"))'
    BY <1>1, <2>1, TakeOuter DEF Chooses
  <2>9. QED
    BY <2>7, <2>8, ChoiceFrom
<1>4. QED
  BY <1>2, <1>3 DEF HostGot, LoadHost

LEMMA TakeChoice ==
  ASSUME Typed, NoneReturns, ChoiceComes, Takes, NEW A, TakeStep(A), ~crossed'
  PROVE  ChoiceComes'
<1>1. CASE CredsListed
  BY <1>1, ListedChoice
<1>2. CASE CredSaved
  BY <1>2, SavedChoice
<1>3. CASE HostGot
  BY <1>3, GotChoice
<1>4. CASE CredGot \/ CredDropped \/ HostDropped
  <2>1. Head(answers).call.op # "creds" /\ UNCHANGED <<picker, hostDlg, wants>>
    BY <1>4 DEF CredGot, CredDropped, HostDropped, Answer
  <2>2. QED
    BY <2>1, TakeSameChoice
<1>5. CASE HostsListed
  <2>1. Head(answers).call.op # "creds" /\ UNCHANGED <<picker, hostDlg>> /\ wants'.cred = wants.cred
    BY <1>5 DEF HostsListed, Answer, Typed, PickersTypes, WindowTypes
  <2>2. QED
    BY <2>1, TakeSameChoice
<1>6. CASE HostSaved
  <2>1. /\ Head(answers).call.op # "creds" /\ UNCHANGED <<picker, wants>>
        /\ hostDlg'.cred = hostDlg.cred /\ (hostDlg'.open => hostDlg.open)
    BY <1>6 DEF HostSaved, Answer, Typed, PickersTypes, WindowTypes
  <2>2. QED
    BY <2>1, TakeSameChoice
<1>7. QED
  BY <1>1, <1>2, <1>3, <1>4, <1>5, <1>6 DEF Takes

LEMMA ServeChoice ==
  ASSUME Typed, ChoiceComes, NEW ret, ServeStep(ret)
  PROVE  ChoiceComes'
<1> PICK a : a = [call |-> Head(calls), ret |-> ret]
  OBVIOUS
<1> PICK now, next : now = Present(credStore) /\ next = Present(credStore)'
  OBVIOUS
<1>1. /\ calls \in Seq(ToSet(calls)) /\ answers \in Seq(ToSet(answers)) /\ a.call = Head(calls)
      /\ calls # <<>> /\ calls' = Tail(calls) /\ answers' = Append(answers, a)
      /\ picker' = picker /\ hostDlg' = hostDlg /\ wants' = wants
  BY DEF ServeStep, Typed, PickersTypes, WireTypes
<1>2. a.call.op = "creds" => a.ret = now /\ next = now
  BY ServeQueues
<1>3. \A f \in Forms : wants.cred[f] \in next => wants.cred[f] \in now
  <2>1. \A f \in Forms : KnownCred(wants.cred[f])
    BY DEF Typed, IdsKnown, WindowKnown
  <2>2. QED
    BY <2>1, ServeKnows
<1>4. ASSUME NEW f, ToChoose(f) PROVE ToChoose(f)'
  <2>1. ToSet(calls) \subseteq ToSet(calls') \cup {a.call} /\ ToSet(answers') = ToSet(answers) \cup {a}
    BY <1>1, Unqueued, Queued
  <2>2. QED
    BY <1>4, <2>1 DEF ToChoose
<1>5. ASSUME NEW f \in Forms, ShowsWant(f) PROVE ShowsWant(f)'
  <2>1. Shows(answers, now, picker[f].options, picker[f].value, wants.cred[f])
    BY <1>5, ShowsWantIs
  <2>2. Shows(Append(answers, a), next, picker[f].options, picker[f].value, wants.cred[f])
    BY <1>1, <1>2, <1>3, <2>1, ShowsQueued
  <2>3. QED
    BY <1>1, <2>2 DEF ShowsWant, Shows, Covered
<1>6. "outer" \in Forms /\ "host" \in Forms
  BY DEF Forms
<1>7. ASSUME HostChoice PROVE HostChoice'
  <2>1. Opening(Append(answers, a), next, wants.cred["host"])
    BY <1>1, <1>2, <1>3, <1>6, <1>7, OpeningQueued DEF HostChoice
  <2>2. QED
    BY <1>1, <1>5, <1>6, <1>7, <2>1 DEF HostChoice, Opening
<1>8. (ToChoose("outer") \/ ShowsWant("outer"))' /\ (ToChoose("host") \/ HostChoice)'
  BY <1>4, <1>5, <1>6, <1>7, ChoiceComesIs
<1>9. QED
  BY <1>8, ChoiceFrom

-----------------------------------------------------------------------------
\* A chain of the hosts ids out of those that are known, of which the user wants W.
Chained(q, now, W, ids, known, focus) ==
  /\ Fades(q, "hosts", now, W, 0) /\ Covered(q, "hosts", now, W, known)
  /\ ToSet(ids) = W \cap known /\ Unique(ids)
  /\ focus \in known \cup {Nil}

LEMMA ChainFollowsIs ==
  ChainFollows <=>
    Chained(answers, Present(hostStore), wants.hosts, chain.ids, chain.known, chain.focus)
BY DEF ChainFollows, Chained, Covered, Unique, IsInjective

LEMMA FadesBoth ==
  ASSUME NEW q, NEW op, NEW now, NEW m, NEW S, NEW T, Fades(q, op, now, S, m), Fades(q, op, now, T, m)
  PROVE  Fades(q, op, now, S \cup T, m)
<1> SUFFICES ASSUME NEW j \in m + 1 .. Len(q) + 1, NEW k \in m + 1 .. Len(q) + 1, j < k, IsOffer(q, op, j), IsOffer(q, op, k)
             PROVE  (S \cup T) \cap Offer(q, now, k) \subseteq Offer(q, now, j)
  BY DEF Fades
<1>1. S \cap Offer(q, now, k) \subseteq Offer(q, now, j) /\ T \cap Offer(q, now, k) \subseteq Offer(q, now, j)
  BY DEF Fades
<1>2. QED
  BY <1>1

LEMMA ClickChained ==
  ASSUME Typed, NEW A, ClickStep(A),
         Chained(answers, Present(hostStore), wants'.hosts, chain'.ids, chain.known, chain'.focus)
  PROVE  ChainFollows'
<1>1. answers' = answers /\ Present(hostStore)' = Present(hostStore) /\ chain'.known = chain.known
  BY DEF ClickStep
<1>2. QED
  BY <1>1 DEF ChainFollows, Chained, Covered, Unique, IsInjective

LEMMA ClickChain ==
  ASSUME Typed, NoneReturns, ChainFollows, Clicks, NEW A, ClickStep(A)
  PROVE  ChainFollows'
<1>1. Chained(answers, Present(hostStore), wants.hosts, chain.ids, chain.known, chain.focus)
  BY ChainFollowsIs
<1>2. chain.ids \in Seq(Hosts)
  BY DEF Typed, PickersTypes, WindowTypes
<1>3. CASE chain'.ids = chain.ids /\ chain'.focus = chain.focus /\ wants'.hosts = wants.hosts
  BY <1>1, <1>3, ClickChained
<1>4. CASE AddHop
  <2>1. PICK h : h = chain.focus
    OBVIOUS
  <2>2. h \in chain.known /\ h \notin ToSet(chain.ids)
    BY <1>1, <1>4, <2>1 DEF AddHop, Chained
  <2>3. wants'.hosts = wants.hosts \cup {h} /\ chain'.ids = Append(chain.ids, h) /\ chain'.focus = chain.focus
    BY <1>4, <2>1 DEF AddHop, Typed, PickersTypes, WindowTypes
  <2>4. Fades(answers, "hosts", Present(hostStore), {h}, 0)
    <3>1. Fades(answers, "hosts", Present(hostStore), chain.known, 0)
      BY DEF NoneReturns
    <3>2. 0 \in Nat /\ 0 <= 0 /\ {h} \subseteq chain.known
      BY <2>2
    <3>3. QED
      BY <3>1, <3>2, FadesWithin
  <2>5. Fades(answers, "hosts", Present(hostStore), wants.hosts \cup {h}, 0)
    BY <1>1, <2>4, FadesBoth DEF Chained
  <2>6. Covered(answers, "hosts", Present(hostStore), wants.hosts \cup {h}, chain.known)
    BY <1>1, <2>2 DEF Chained, Covered
  <2>7. ToSet(Append(chain.ids, h)) = ToSet(chain.ids) \cup {h} /\ Unique(Append(chain.ids, h))
    BY <1>1, <1>2, <2>2, AppendIs DEF Chained
  <2>8. ToSet(Append(chain.ids, h)) = (wants.hosts \cup {h}) \cap chain.known
    BY <1>1, <2>2, <2>7 DEF Chained
  <2>9. Chained(answers, Present(hostStore), wants'.hosts, chain'.ids, chain.known, chain'.focus)
    BY <1>1, <2>3, <2>5, <2>6, <2>7, <2>8 DEF Chained
  <2>10. QED
    BY <2>9, ClickChained
<1>5. ASSUME NEW i \in DOMAIN chain.ids, RemoveHop(i) PROVE ChainFollows'
  <2>1. PICK h : h = chain.ids[i]
    OBVIOUS
  <2>2. PICK r : r = RemoveAt(chain.ids, i)
    OBVIOUS
  <2>3. wants'.hosts = wants.hosts \ {h} /\ chain'.ids = r /\ chain'.focus = chain.focus
    BY <1>5, <2>1, <2>2 DEF RemoveHop, Typed, PickersTypes, WindowTypes
  <2>4. Unique(r) /\ ToSet(r) = ToSet(chain.ids) \ {h}
    BY <1>1, <1>2, <2>1, <2>2, RemoveIs DEF Chained
  <2>5. Fades(answers, "hosts", Present(hostStore), wants.hosts \ {h}, 0)
    <3>1. 0 \in Nat /\ 0 <= 0 /\ wants.hosts \ {h} \subseteq wants.hosts
      OBVIOUS
    <3>2. QED
      BY <1>1, <3>1, FadesWithin DEF Chained
  <2>6. Covered(answers, "hosts", Present(hostStore), wants.hosts \ {h}, chain.known)
    BY <1>1 DEF Chained, Covered
  <2>7. ToSet(r) = (wants.hosts \ {h}) \cap chain.known
    BY <1>1, <2>4 DEF Chained
  <2>8. Chained(answers, Present(hostStore), wants'.hosts, chain'.ids, chain.known, chain'.focus)
    BY <1>1, <2>3, <2>4, <2>5, <2>6, <2>7 DEF Chained
  <2>9. QED
    BY <2>8, ClickChained
<1>6. ASSUME NEW i \in DOMAIN chain.ids, MoveHop(i) PROVE ChainFollows'
  <2>1. PICK r : r = [chain.ids EXCEPT ![i] = chain.ids[i + 1], ![i + 1] = chain.ids[i]]
    OBVIOUS
  <2>2. {i, i + 1} \subseteq DOMAIN chain.ids /\ chain' = [chain EXCEPT !.ids = r]
    BY <1>6, <2>1, ClickMoveHop
  <2>3. chain'.ids = r /\ chain'.focus = chain.focus /\ wants' = wants
    BY <1>6, <2>2 DEF MoveHop, Typed, PickersTypes, WindowTypes
  <2>4. i + 1 \in DOMAIN chain.ids /\ i # i + 1
    BY <1>2, <2>2
  <2>5. ToSet(r) = ToSet(chain.ids) /\ (Unique(chain.ids) => Unique(r))
    BY <1>2, <2>1, <2>4, SwapIs
  <2>6. Chained(answers, Present(hostStore), wants'.hosts, chain'.ids, chain.known, chain'.focus)
    BY <1>1, <2>3, <2>5 DEF Chained
  <2>7. QED
    BY <2>6, ClickChained
<1>7. ASSUME NEW h \in Hosts, Focus(h) PROVE ChainFollows'
  <2>1. h \in chain.known /\ chain'.ids = chain.ids /\ chain'.focus = h /\ wants' = wants
    BY <1>7 DEF Focus, Typed, PickersTypes, WindowTypes
  <2>2. Chained(answers, Present(hostStore), wants'.hosts, chain'.ids, chain.known, chain'.focus)
    BY <1>1, <2>1 DEF Chained
  <2>3. QED
    BY <2>2, ClickChained
<1>8. CASE UNCHANGED <<chain, wants>>
  BY <1>3, <1>8
<1>9. ASSUME NEW f \in Forms, NEW x \in Creds \cup {Nil}, PickCred(f, x) PROVE ChainFollows'
  <2>1. chain' = chain /\ wants'.hosts = wants.hosts
    BY <1>9 DEF PickCred, Tell, Typed, PickersTypes, WindowTypes
  <2>2. QED
    BY <1>3, <2>1
<1>10. CASE NewHost
  <2>1. chain'.ids = chain.ids /\ chain'.focus = chain.focus /\ wants'.hosts = wants.hosts
    BY <1>10 DEF NewHost, LoadHost, Typed, PickersTypes, WindowTypes
  <2>2. QED
    BY <1>3, <2>1
<1>11. ASSUME NEW f \in Forms, AskEditCred(f) \/ AskDeleteCred(f) PROVE ChainFollows'
  BY <1>8, <1>11 DEF AskEditCred, AskDeleteCred
<1>12. ASSUME NEW f \in Forms, NewCred(f) PROVE ChainFollows'
  BY <1>8, <1>12 DEF NewCred
<1>13. ASSUME NEW f \in Forms, NEW auth \in Auths, ChangeType(f, auth) PROVE ChainFollows'
  BY <1>8, <1>13 DEF ChangeType
<1>14. ASSUME NEW f \in Forms, TypeSecret(f) PROVE ChainFollows'
  BY <1>8, <1>14 DEF TypeSecret
<1>15. ASSUME NEW f \in Forms, SaveCredential(f) PROVE ChainFollows'
  BY <1>8, <1>15 DEF SaveCredential
<1>16. ASSUME NEW f \in Forms, CancelCred(f) PROVE ChainFollows'
  BY <1>8, <1>16 DEF CancelCred
<1>17. CASE AskEditHost \/ AskDeleteHost
  BY <1>8, <1>17 DEF AskEditHost, AskDeleteHost
<1>18. CASE SaveHost \/ CancelHost
  BY <1>8, <1>18 DEF SaveHost, CancelHost
<1>19. QED
  BY <1>4, <1>5, <1>6, <1>7, <1>9, <1>10, <1>11, <1>12, <1>13, <1>14, <1>15, <1>16, <1>17,
     <1>18 DEF Clicks

LEMMA HostsListedChain ==
  ASSUME Typed, NoneReturns, NewHostsJoin, ChainFollows, NEW A, TakeStep(A), HostsListed
  PROVE  ChainFollows'
<1> PICK a : a = Head(answers)
  OBVIOUS
<1> PICK hold : hold = Only(chain.ids, a.ret)
  OBVIOUS
<1> PICK joins : joins = (a.call.then = "joins" /\ a.call.id \notin ToSet(hold))
  OBVIOUS
<1> PICK ids : ids = IF joins THEN Append(hold, a.call.id) ELSE hold
  OBVIOUS
<1> PICK focus : focus = IF a.call.then # "keep" /\ a.call.id \in a.ret THEN a.call.id
                         ELSE IF chain.focus \in a.ret THEN chain.focus ELSE Nil
  OBVIOUS
<1> PICK W : W = IF joins THEN wants.hosts \cup {a.call.id} ELSE wants.hosts
  OBVIOUS
<1>1. /\ a.call.op = "hosts" /\ chain' = [chain EXCEPT !.known = a.ret, !.ids = ids, !.focus = focus]
      /\ wants' = [wants EXCEPT !.hosts = W]
  BY DEF HostsListed, Answer
<1>2. chain'.known = a.ret /\ chain'.ids = ids /\ chain'.focus = focus /\ wants'.hosts = W
  BY <1>1 DEF Typed, PickersTypes, WindowTypes
<1>3. /\ answers \in Seq(ToSet(answers)) /\ answers # <<>> /\ answers' = Tail(answers)
      /\ Present(hostStore)' = Present(hostStore)
      /\ Len(answers) \in Nat /\ Len(answers) > 0 /\ a = answers[1] /\ 1 \in DOMAIN answers
  <2>1. answers \in Seq(ToSet(answers)) /\ answers # <<>> /\ answers' = Tail(answers)
        /\ Present(hostStore)' = Present(hostStore)
    BY DEF TakeStep, Typed, PickersTypes, WireTypes
  <2>2. Len(answers) \in Nat /\ Len(answers) > 0 /\ a = answers[1]
    BY <2>1, Unqueued
  <2>3. QED
    BY <2>1, <2>2
<1>4. Chained(answers, Present(hostStore), wants.hosts, chain.ids, chain.known, chain.focus)
  BY ChainFollowsIs
<1>5. joins => a.call.id \in a.ret
  BY <1>1, <1>3 DEF NewHostsJoin, Joining
<1>6. hold \in Seq(Hosts \cap a.ret) /\ ToSet(hold) = ToSet(chain.ids) \cap a.ret /\ Unique(hold)
  <2>1. chain.ids \in Seq(Hosts)
    BY DEF Typed, PickersTypes, WindowTypes
  <2>2. QED
    BY <1>4, <2>1, OnlyIs DEF Chained
<1>7. wants.hosts \cap a.ret \subseteq chain.known
  BY <1>1, <1>3, <1>4, CoveredTaken DEF Chained
<1>8. ToSet(hold) = wants.hosts \cap a.ret
  BY <1>4, <1>6, <1>7 DEF Chained
<1>9. ToSet(ids) = W \cap a.ret /\ Unique(ids)
  <2>1. CASE joins
    <3>1. ToSet(Append(hold, a.call.id)) = ToSet(hold) \cup {a.call.id} /\ Unique(Append(hold, a.call.id))
      BY <1>6, <2>1, AppendIs
    <3>2. QED
      BY <1>5, <1>8, <2>1, <3>1
  <2>2. CASE ~joins
    BY <1>6, <1>8, <2>2
  <2>3. QED
    BY <2>1, <2>2
<1>10. Fades(answers', "hosts", Present(hostStore), W, 0)
  <2>1. Fades(answers', "hosts", Present(hostStore), wants.hosts, 0)
    BY <1>3, <1>4, FadesTaken DEF Chained
  <2>2. Fades(answers', "hosts", Present(hostStore), a.ret, 0)
    BY <1>1, <1>3, InOrderTaken DEF NoneReturns
  <2>3. CASE joins
    <3>1. 0 \in Nat /\ 0 <= 0 /\ {a.call.id} \subseteq a.ret
      BY <1>5, <2>3
    <3>2. Fades(answers', "hosts", Present(hostStore), {a.call.id}, 0)
      BY <2>2, <3>1, FadesWithin
    <3>3. QED
      BY <2>1, <2>3, <3>2, FadesBoth
  <2>4. CASE ~joins
    BY <2>1, <2>4
  <2>5. QED
    BY <2>3, <2>4
<1>11. Covered(answers', "hosts", Present(hostStore), W, a.ret)
  <2>1. Covered(answers', "hosts", Present(hostStore), wants.hosts, a.ret)
    BY <1>1, <1>3, <1>4, CoveredListed DEF Chained
  <2>2. QED
    BY <1>5, <2>1 DEF Covered
<1>12. focus \in a.ret \cup {Nil}
  OBVIOUS
<1>13. Chained(answers', Present(hostStore), W, ids, a.ret, focus)
  BY <1>9, <1>10, <1>11, <1>12 DEF Chained
<1>14. QED
  BY <1>2, <1>3, <1>13 DEF ChainFollows, Chained, Covered, Unique, IsInjective

LEMMA TakeChain ==
  ASSUME Typed, NoneReturns, NewHostsJoin, ChainFollows, Takes, NEW A, TakeStep(A)
  PROVE  ChainFollows'
<1>1. CASE HostsListed
  BY <1>1, HostsListedChain
<1>2. CASE chain'.ids = chain.ids /\ chain'.known = chain.known /\ chain'.focus = chain.focus /\ wants'.hosts = wants.hosts
  <2>1. /\ answers \in Seq(ToSet(answers)) /\ answers # <<>> /\ answers' = Tail(answers)
        /\ Present(hostStore)' = Present(hostStore)
    BY DEF TakeStep, Typed, PickersTypes, WireTypes
  <2>2. Chained(answers, Present(hostStore), wants.hosts, chain.ids, chain.known, chain.focus)
    BY ChainFollowsIs
  <2>3. Fades(answers', "hosts", Present(hostStore), wants.hosts, 0)
    BY <2>1, <2>2, FadesTaken DEF Chained
  <2>4. Covered(answers', "hosts", Present(hostStore), wants.hosts, chain.known)
    BY <2>1, <2>2, CoveredTaken DEF Chained
  <2>5. Chained(answers', Present(hostStore), wants.hosts, chain.ids, chain.known, chain.focus)
    BY <2>2, <2>3, <2>4 DEF Chained
  <2>6. QED
    BY <1>2, <2>1, <2>5 DEF ChainFollows, Chained, Covered, Unique, IsInjective
<1>3. CASE CredsListed
  <2>1. chain' = chain /\ wants'.hosts = wants.hosts
    BY <1>3 DEF CredsListed, Tell, Typed, PickersTypes, WindowTypes
  <2>2. QED
    BY <1>2, <2>1
<1>4. CASE CredSaved
  <2>1. chain' = chain /\ wants'.hosts = wants.hosts
    BY <1>4 DEF CredSaved, Typed, PickersTypes, WindowTypes
  <2>2. QED
    BY <1>2, <2>1
<1>5. CASE HostGot
  <2>1. chain'.ids = chain.ids /\ chain'.known = chain.known /\ chain'.focus = chain.focus /\ wants'.hosts = wants.hosts
    BY <1>5 DEF HostGot, LoadHost, Typed, PickersTypes, WindowTypes
  <2>2. QED
    BY <1>2, <2>1
<1>6. CASE CredGot \/ CredDropped \/ HostSaved \/ HostDropped
  <2>1. chain' = chain /\ wants' = wants
    BY <1>6 DEF CredGot, CredDropped, HostSaved, HostDropped
  <2>2. QED
    BY <1>2, <2>1
<1>7. QED
  BY <1>1, <1>3, <1>4, <1>5, <1>6 DEF Takes

LEMMA ServeChain ==
  ASSUME Typed, ChainFollows, NEW ret, ServeStep(ret)
  PROVE  ChainFollows'
<1> PICK a : a = [call |-> Head(calls), ret |-> ret]
  OBVIOUS
<1> PICK now, next : now = Present(hostStore) /\ next = Present(hostStore)'
  OBVIOUS
<1>1. /\ answers \in Seq(ToSet(answers)) /\ answers' = Append(answers, a) /\ chain' = chain /\ wants' = wants
  BY DEF ServeStep, Typed, PickersTypes, WireTypes
<1>2. a.call.op = "hosts" => a.ret = now /\ next = now
  BY ServeQueues
<1>3. wants.hosts \cap next \subseteq now
  <2>1. \A x \in wants.hosts : KnownHost(x)
    BY DEF Typed, IdsKnown, WindowKnown
  <2>2. QED
    BY <2>1, ServeKnows
<1>4. Chained(answers, now, wants.hosts, chain.ids, chain.known, chain.focus)
  BY ChainFollowsIs
<1>5. Fades(Append(answers, a), "hosts", next, wants.hosts, 0)
  <2>1. 0 \in Nat
    OBVIOUS
  <2>2. QED
    BY <1>1, <1>2, <1>3, <1>4, <2>1, FadesQueued DEF Chained
<1>6. Covered(Append(answers, a), "hosts", next, wants.hosts, chain.known)
  BY <1>1, <1>2, <1>3, <1>4, CoveredQueued DEF Chained
<1>7. Chained(Append(answers, a), next, wants.hosts, chain.ids, chain.known, chain.focus)
  BY <1>4, <1>5, <1>6 DEF Chained
<1>8. QED
  BY <1>1, <1>7 DEF ChainFollows, Chained, Covered, Unique, IsInjective

LEMMA EmptyIs ==
  /\ <<>> \in Seq(ToSet(<<>>)) /\ ToSet(<<>>) = {} /\ Len(<<>>) = 0 /\ DOMAIN <<>> = {}
  /\ \A op, now, S : Fades(<<>>, op, now, S, 0)
<1>1. ToSet(<<>>) = {} /\ Len(<<>>) = 0 /\ DOMAIN <<>> = {}
  BY DEF ToSet
<1>2. <<>> \in Seq(ToSet(<<>>))
  OBVIOUS
<1>3. ASSUME NEW op, NEW now, NEW S PROVE Fades(<<>>, op, now, S, 0)
  <2>1. \A j, k \in 0 + 1 .. Len(<<>>) + 1 : ~(j < k)
    BY <1>1
  <2>2. QED
    BY <2>1 DEF Fades
<1>4. QED
  BY <1>1, <1>2, <1>3

LEMMA InitTyped == PickersInit => Typed
<1> SUFFICES ASSUME PickersInit PROVE Typed
  OBVIOUS
<1>1. StoreTypes
  <2>1. PICK r : r = [auth |-> "password", secret |-> "password"]
    OBVIOUS
  <2>2. r \in Secrets /\ r.auth = "password" /\ r.secret = "password"
    BY <2>1 DEF Secrets, Kinds
  <2>3. credStore \in [Creds -> {Nil, r}] /\ hostStore \in [Hosts -> Present(credStore) \cup {Nil}]
    BY <2>1 DEF PickersInit
  <2>4. Present(credStore) \subseteq Creds
    BY <2>3 DEF Present
  <2>5. QED
    BY <2>2, <2>3, <2>4 DEF StoreTypes
<1>2. /\ \A x : x \in Present(credStore) <=> x \in Creds /\ credStore[x] # Nil
      /\ \A x : x \in Present(hostStore) <=> x \in Hosts /\ hostStore[x] # Nil
      /\ Present(credStore) \subseteq Creds /\ Present(hostStore) \subseteq Hosts
  BY <1>1, PresentIs
<1>3. WindowTypes
  <2>1. ClosedCred \in Editors /\ ClosedCred.typed = "none"
    BY DEF ClosedCred, Editors, Kinds
  <2>2. credDlg \in [Forms -> Editors] /\ \A f \in Forms : credDlg[f].typed \in {"none", credDlg[f].auth}
    BY <2>1 DEF PickersInit
  <2>3. <<>> \in Seq(Hosts)
    OBVIOUS
  <2>4. chain \in [ids : Seq(Hosts), known : SUBSET Hosts, focus : Hosts \cup {Nil}, creating : BOOLEAN]
    BY <1>2, <2>3 DEF PickersInit
  <2>5. hostDlg \in [open : BOOLEAN, id : Hosts \cup {Nil}, cred : Creds \cup {Nil}, saving : BOOLEAN]
    BY DEF PickersInit, ClosedHost
  <2>6. wants \in [cred : [Forms -> Creds \cup {Nil}], hosts : SUBSET Hosts] /\ crossed \in BOOLEAN
    BY DEF PickersInit
  <2>7. picker \in [Forms -> [value : Creds \cup {Nil}, options : SUBSET Creds]]
        /\ \A f \in Forms : picker[f].value \in picker[f].options \cup {Nil}
    BY <1>2 DEF PickersInit
  <2>8. QED
    BY <2>2, <2>4, <2>5, <2>6, <2>7 DEF WindowTypes
<1>4. WireTypes
  BY EmptyIs DEF PickersInit, WireTypes
<1>5. WireKnown
  BY EmptyIs DEF PickersInit, WireKnown
<1>6. WindowKnown
  <2>1. KnownCred(Nil) /\ KnownHost(Nil) /\ (\A x \in Present(credStore) : KnownCred(x))
        /\ \A x \in Present(hostStore) : KnownHost(x)
    BY <1>2 DEF KnownCred, KnownHost
  <2>2. \A f \in Forms : picker[f].value = Nil /\ picker[f].options \subseteq Present(credStore)
                         /\ wants.cred[f] = Nil /\ credDlg[f].id = Nil
    BY DEF PickersInit, ClosedCred
  <2>3. /\ hostDlg.cred = Nil /\ hostDlg.id = Nil
        /\ chain.known \cup wants.hosts \cup {chain.focus} \subseteq Present(hostStore) \cup {Nil}
    BY DEF PickersInit, ClosedHost
  <2>4. \A h \in Hosts : hostStore[h] \in Present(credStore) \cup {Nil}
    BY DEF PickersInit
  <2>5. \A f \in Forms : /\ KnownCred(picker[f].value) /\ KnownCred(wants.cred[f]) /\ KnownCred(credDlg[f].id)
                         /\ \A x \in picker[f].options : KnownCred(x)
    BY <2>1, <2>2
  <2>6. KnownCred(hostDlg.cred) /\ KnownHost(hostDlg.id)
    BY <2>1, <2>3
  <2>7. \A x \in chain.known \cup wants.hosts \cup {chain.focus} : KnownHost(x)
    BY <2>1, <2>3
  <2>8. \A h \in Hosts : KnownCred(hostStore[h])
    BY <2>1, <2>4
  <2>9. QED
    BY <2>5, <2>6, <2>7, <2>8 DEF WindowKnown
<1>7. QED
  BY <1>1, <1>3, <1>4, <1>5, <1>6 DEF Typed, PickersTypes, IdsKnown

LEMMA InitListed == PickersInit => NoneReturns /\ ListsComing
<1> SUFFICES ASSUME PickersInit PROVE NoneReturns /\ ListsComing
  OBVIOUS
<1>1. calls = <<>> /\ answers = <<>>
  BY DEF PickersInit
<1>2. NoneReturns
  BY <1>1, EmptyIs DEF NoneReturns, InOrder
<1>3. ListsComing
  <2>1. picker["outer"].options = Present(credStore) /\ chain.known = Present(hostStore) /\ ~hostDlg.open
    BY DEF PickersInit, ClosedHost, Forms
  <2>2. QED
    BY <1>1, <2>1, EmptyIs DEF ListsComing
<1>4. QED
  BY <1>2, <1>3

LEMMA InitUncrossed == PickersInit => Uncrossed
<1> SUFFICES ASSUME PickersInit PROVE Uncrossed
  OBVIOUS
<1>1. calls = <<>> /\ answers = <<>> /\ Typed
  BY InitTyped DEF PickersInit
<1>2. SavesAreOwn
  <2>1. UnderWay = {}
    BY <1>1, EmptyIs DEF UnderWay
  <2>2. \A k : Alone(calls, answers, k)
    BY <1>1, EmptyIs DEF Alone
  <2>3. (\A f \in Forms : ~credDlg[f].open) /\ ~chain.creating
    BY DEF PickersInit, ClosedCred
  <2>4. QED
    BY <2>1, <2>2, <2>3 DEF SavesAreOwn
<1>3. EditorsKnow
  <2>1. \A f \in Forms : ~credDlg[f].open
    BY DEF PickersInit, ClosedCred
  <2>2. QED
    BY <1>1, <2>1, EmptyIs DEF EditorsKnow
<1>4. ChoiceComes
  <2>1. \A f \in Forms : picker[f].value = Nil /\ wants.cred[f] = Nil
    BY DEF PickersInit
  <2>2. hostDlg.cred = Nil /\ ~hostDlg.open /\ "outer" \in Forms /\ "host" \in Forms
    BY DEF PickersInit, ClosedHost, Forms
  <2>3. Covered(answers, "creds", Present(credStore), {Nil}, picker["outer"].options)
    <3>1. 0 \in Nat
      OBVIOUS
    <3>2. QED
      BY <1>1, <3>1, NilNotOffered, NilFades
  <2>4. Shows(answers, Present(credStore), picker["outer"].options, picker["outer"].value, Nil)
    BY <1>1, <2>1, <2>2, <2>3, EmptyIs DEF Shows
  <2>5. ShowsWant("outer")
    BY <2>1, <2>2, <2>4, ShowsWantIs
  <2>6. HostChoice
    BY <1>1, <2>1, <2>2, EmptyIs DEF HostChoice, Opening
  <2>7. QED
    BY <2>5, <2>6, ChoiceComesIs
<1>5. ChainFollows
  <2>1. chain.ids = <<>> /\ chain.focus = Nil /\ wants.hosts = {}
    BY DEF PickersInit
  <2>2. Covered(answers, "hosts", Present(hostStore), {}, chain.known)
    BY DEF Covered
  <2>3. Chained(answers, Present(hostStore), {}, <<>>, chain.known, Nil)
    BY <1>1, <2>2, EmptyIs DEF Chained, Unique
  <2>4. QED
    BY <2>1, <2>3, ChainFollowsIs
<1>6. NewHostsJoin
  BY <1>1, EmptyIs DEF NewHostsJoin
<1>7. QED
  BY <1>2, <1>3, <1>4, <1>5, <1>6 DEF Uncrossed

LEMMA PickersStep == PickersInv /\ PickersNext => PickersInv'
<1> SUFFICES ASSUME PickersInv, PickersNext PROVE PickersInv'
  OBVIOUS
<1>1. Typed /\ NoneReturns /\ ListsComing /\ (crossed \/ Uncrossed)
  BY DEF PickersInv, Typed
<1>2. Typed'
  BY <1>1, TypedKeeps
<1>3. CASE Clicks
  <2>1. PICK A : ClickStep(A)
    BY <1>1, <1>3, ClicksAre
  <2>2. NoneReturns' /\ ListsComing' /\ (crossed => crossed')
    BY <1>1, <2>1, ClickNoneReturns, ClickListsComing DEF ClickStep
  <2>3. ASSUME ~crossed' PROVE Uncrossed'
    <3>1. SavesAreOwn /\ EditorsKnow /\ ChoiceComes /\ ChainFollows /\ NewHostsJoin
      BY <1>1, <2>2, <2>3 DEF Uncrossed
    <3>2. SavesAreOwn' /\ EditorsKnow'
      BY <1>1, <1>3, <2>1, <2>3, <3>1, ClickSavesAreOwn, ClickEditorsKnow
    <3>3. ChoiceComes' /\ ChainFollows' /\ NewHostsJoin'
      BY <1>1, <1>3, <2>1, <3>1, ClickChoice, ClickChain, ClickNewHosts
    <3>4. QED
      BY <3>2, <3>3 DEF Uncrossed
  <2>4. QED
    BY <1>2, <2>2, <2>3 DEF PickersInv, Typed
<1>4. CASE Takes
  <2>1. PICK A : TakeStep(A)
    BY <1>1, <1>4, TakesAre
  <2>2. NoneReturns' /\ ListsComing' /\ (crossed => crossed')
    BY <1>1, <2>1, TakeNoneReturns, TakeListsComing DEF TakeStep
  <2>3. ASSUME ~crossed' PROVE Uncrossed'
    <3>1. SavesAreOwn /\ EditorsKnow /\ ChoiceComes /\ ChainFollows /\ NewHostsJoin
      BY <1>1, <2>2, <2>3 DEF Uncrossed
    <3>2. SavesAreOwn' /\ EditorsKnow'
      BY <1>1, <1>4, <2>1, <2>3, <3>1, TakeSavesAreOwn, TakeEditorsKnow
    <3>3. ChoiceComes' /\ ChainFollows' /\ NewHostsJoin'
      BY <1>1, <1>4, <2>1, <2>3, <3>1, TakeChoice, TakeChain, TakeNewHosts
    <3>4. QED
      BY <3>2, <3>3 DEF Uncrossed
  <2>4. QED
    BY <1>2, <2>2, <2>3 DEF PickersInv, Typed
<1>5. CASE Serves
  <2>1. PICK ret : ServeStep(ret)
    BY <1>1, <1>5, ServesAre
  <2>2. NoneReturns' /\ ListsComing' /\ crossed' = crossed
    BY <1>1, <2>1, ServeNoneReturns, ServeListsComing DEF ServeStep
  <2>3. ASSUME Uncrossed PROVE Uncrossed'
    <3>1. SavesAreOwn /\ EditorsKnow /\ ChoiceComes /\ ChainFollows /\ NewHostsJoin
      BY <2>3 DEF Uncrossed
    <3>2. SavesAreOwn' /\ EditorsKnow'
      BY <1>1, <2>1, <3>1, ServeSavesAreOwn, ServeEditorsKnow
    <3>3. ChoiceComes' /\ ChainFollows' /\ NewHostsJoin'
      BY <1>1, <2>1, <3>1, ServeChoice, ServeChain, ServeNewHosts
    <3>4. QED
      BY <3>2, <3>3 DEF Uncrossed
  <2>4. QED
    BY <1>1, <1>2, <2>2, <2>3 DEF PickersInv, Typed
<1>6. QED
  BY <1>3, <1>4, <1>5, Kinds3

LEMMA PickersStutter == PickersInv /\ UNCHANGED pickerVars => PickersInv'
<1> SUFFICES ASSUME PickersInv, UNCHANGED pickerVars PROVE PickersInv'
  OBVIOUS
<1>1. UNCHANGED <<credStore, hostStore, spent, picker, chain, credDlg, hostDlg, calls, answers, wants, crossed>>
  BY DEF pickerVars, stored, wire
<1>2. PickersTypes => PickersTypes'
  BY <1>1 DEF PickersTypes, StoreTypes, WindowTypes, WireTypes
<1>3. IdsKnown => IdsKnown'
  BY <1>1 DEF IdsKnown, WindowKnown, WireKnown, AnswerKnown, CallKnown, KnownCred, KnownHost
<1>4. NoneReturns => NoneReturns'
  BY <1>1 DEF NoneReturns
<1>5. ListsComing => ListsComing'
  BY <1>1 DEF ListsComing, CredsOwed, HostsOwed, ListsCreds, ListsHosts
<1>6. SavesAreOwn => SavesAreOwn'
  BY <1>1 DEF SavesAreOwn, UnderWay, Waits
<1>7. EditorsKnow => EditorsKnow'
  BY <1>1 DEF EditorsKnow, Overtaken
<1>8. ChoiceComes => ChoiceComes'
  BY <1>1 DEF ChoiceComes, ToChoose, ShowsWant
<1>9. ChainFollows => ChainFollows'
  BY <1>1 DEF ChainFollows
<1>10. NewHostsJoin => NewHostsJoin'
  BY <1>1 DEF NewHostsJoin
<1>11. QED
  BY <1>1, <1>2, <1>3, <1>4, <1>5, <1>6, <1>7, <1>8, <1>9, <1>10 DEF PickersInv, Uncrossed

-----------------------------------------------------------------------------
\* Whatever the user clicks in the pickers and their editors, and however the
\* answers of the main process come in between: the lists on their way lose only
\* what is gone, a list that is behind is asked for again, every save is that of
\* the one editor that waits for it, and what the user chose is in the picker or
\* on its way there (credential-picker-field.js, jump-host-picker-field.js and
\* their editors).
THEOREM PickersInductive == PickersSpec => []PickersInv
<1>1. PickersInit => PickersInv
  BY InitTyped, InitListed, InitUncrossed DEF PickersInv, Typed
<1>2. PickersInv /\ [PickersNext]_pickerVars => PickersInv'
  BY PickersStep, PickersStutter
<1>3. QED
  BY <1>1, <1>2, PTL DEF PickersSpec

LEMMA RestIsKept == PickersInv => ChoiceIsKept
<1> SUFFICES ASSUME PickersInv, AtRest, ~crossed
             PROVE  /\ \A f \in Forms :
                         f = "outer" \/ hostDlg.open =>
                           /\ picker[f].options = Present(credStore)
                           /\ picker[f].value = IF wants.cred[f] \in Present(credStore) THEN wants.cred[f] ELSE Nil
                    /\ hostDlg.open => hostDlg.cred = wants.cred["host"]
                    /\ chain.known = Present(hostStore) /\ chain.focus \in chain.known \cup {Nil}
                    /\ ToSet(chain.ids) = wants.hosts \cap Present(hostStore)
                    /\ IsInjective(chain.ids)
  BY DEF ChoiceIsKept
<1>1. calls = <<>> /\ answers = <<>>
  BY DEF AtRest
<1>2. Uncrossed /\ ListsComing
  BY DEF PickersInv
<1>3. ASSUME NEW f \in Forms, f = "outer" \/ hostDlg.open PROVE picker[f].options = Present(credStore)
  BY <1>1, <1>2, <1>3, EmptyIs DEF ListsComing, CredsOwed
<1>4. chain.known = Present(hostStore)
  BY <1>1, <1>2, EmptyIs DEF ListsComing, HostsOwed
<1>5. \A f : ~ToChoose(f)
  BY <1>1, EmptyIs DEF ToChoose
<1>6. ShowsWant("outer") /\ hostDlg.cred = wants.cred["host"] /\ (hostDlg.open => ShowsWant("host"))
  BY <1>2, <1>5 DEF Uncrossed, ChoiceComes
<1>7. ASSUME NEW f \in Forms, f = "outer" \/ hostDlg.open
      PROVE  picker[f].value = IF wants.cred[f] \in Present(credStore) THEN wants.cred[f] ELSE Nil
  <2>1. ShowsWant(f)
    BY <1>6, <1>7 DEF Forms
  <2>2. QED
    BY <1>3, <1>7, <2>1 DEF ShowsWant
<1>8. chain.focus \in chain.known \cup {Nil} /\ ToSet(chain.ids) = wants.hosts \cap chain.known /\ IsInjective(chain.ids)
  BY <1>2 DEF Uncrossed, ChainFollows
<1>9. QED
  BY <1>3, <1>4, <1>6, <1>7, <1>8

LEMMA SecretsStay ==
  ASSUME PickersInv, PickersInv', PickersNext
  PROVE  SecretsFollowEdits
<1>1. Typed /\ StoreTypes'
  BY DEF PickersInv, PickersTypes, Typed
<1>2. SUFFICES ASSUME NEW x \in Creds, credStore'[x] # Nil, credStore[x] # Nil, credStore[x].auth = credStore'[x].auth,
                      credStore[x].secret # "none", ~crossed'
               PROVE  credStore'[x].secret # "none"
  BY <1>1 DEF SecretsFollowEdits, StoreTypes
<1>3. CASE credStore'[x] = credStore[x]
  BY <1>2, <1>3
<1>4. CASE Clicks
  BY <1>1, <1>3, <1>4, ClicksAre DEF ClickStep
<1>5. CASE Takes
  BY <1>1, <1>3, <1>5, TakesAre DEF TakeStep
<1>6. CASE Serves
  <2>1. PICK ret : ServeStep(ret)
    BY <1>1, <1>6, ServesAre
  <2>2. PICK c : c = Head(calls)
    OBVIOUS
  <2>3. /\ Looks(c, ret) \/ Refuses(c, ret) \/ SavesCredAs(c, ret) \/ SavesHostAs(c, ret)
             \/ DropsCred(c, ret) \/ DropsHost(c, ret)
        /\ crossed' = crossed /\ calls # <<>>
    BY <2>1, <2>2 DEF ServeStep
  <2>4. credStore \in [Creds -> Secrets \cup {Nil}]
    BY <1>1 DEF Typed, PickersTypes, StoreTypes
  <2>5. CASE SavesCredAs(c, ret) /\ ret = x
    <3>1. PICK new : new = [auth |-> c.auth, secret |-> SecretFor(c, credStore[x])]
      OBVIOUS
    <3>2. c.op = "save cred" /\ c.id = x /\ credStore'[x] = new
      BY <1>2, <2>4, <2>5, <3>1 DEF SavesCredAs
    <3>3. new.auth = c.auth /\ new.secret = SecretFor(c, credStore[x])
      BY <3>1
    <3>4. Keeps(c)
      <4>1. EditorsKnow
        BY <1>2, <2>3 DEF PickersInv, Uncrossed
      <4>2. c \in ToSet(calls)
        BY <1>1, <2>2, <2>3, CallIs
      <4>3. QED
        BY <4>1, <4>2, EditorsKnowIs
    <3>5. x # Nil
      BY PickersAssumption
    <3>6. c.typed = "none" => c.keep
      BY <1>2, <3>2, <3>3, <3>4, <3>5 DEF Keeps
    <3>7. SecretFor(c, credStore[x]) # "none"
      BY <1>2, <3>2, <3>3, <3>6 DEF SecretFor
    <3>8. QED
      BY <3>2, <3>3, <3>7
  <2>6. CASE SavesCredAs(c, ret) /\ ret # x
    BY <1>3, <2>4, <2>6 DEF SavesCredAs
  <2>7. CASE DropsCred(c, ret)
    BY <1>2, <1>3, <2>4, <2>7 DEF DropsCred
  <2>8. CASE Looks(c, ret) \/ Refuses(c, ret) \/ SavesHostAs(c, ret) \/ DropsHost(c, ret)
    BY <1>3, <2>8 DEF Looks, Refuses, SavesHostAs, DropsHost
  <2>9. QED
    BY <2>3, <2>5, <2>6, <2>7, <2>8
<1>7. QED
  BY <1>4, <1>5, <1>6, Kinds3

\* Once nothing is under way, every picker offers what is stored and shows what
\* the user chose last, the chain holds the user's hosts, once each, and no step
\* loses the secret of a record whose type stays, or keeps one for another type
\* (credential-picker-field.js:180-186, jump-host-picker-field.js:270-283 and
\* credential-editor-dialog.js:221-242).
THEOREM PickersKept == PickersSpec => PickersKeep
<1>1. PickersInv /\ PickersInv' /\ [PickersNext]_pickerVars => [SecretsFollowEdits]_pickerVars
  BY SecretsStay
<1>2. QED
  BY <1>1, PickersInductive, RestIsKept, PTL DEF PickersSpec, PickersKeep
=============================================================================
