------------------------------- MODULE Stores -------------------------------
(***************************************************************************)
(* The definitions document (tunnels.json) and everything that writes it:  *)
(* the credential, jump-host, group, tunnel and console stores, the import *)
(* of a backup bundle and of an SSH configuration.                         *)
(*                                                                         *)
(* Every operation is one synchronous read-modify-write of the whole       *)
(* document (Files.tla models the write), so an operation is one step.     *)
(*                                                                         *)
(* Abstraction: a record keeps its references and, for a credential, what  *)
(* decides about its secret; hosts, ports, names and display order are     *)
(* left out (a name collision renames the imported tunnel, and nothing     *)
(* refers to a tunnel by name).  Labels stay: an import matches by them.   *)
(***************************************************************************)
EXTENDS Naturals

CONSTANTS
  CredIds, JumpIds, TunnelIds, ConsoleIds, GroupIds, Labels,
  AuthTypes,   \* {"password", "key", "agent"} or a part of it with "agent"
  Bundles,     \* the backup files a user may import, from any machine
  Proposals,   \* the hosts an SSH configuration may offer
  None

\* A map from some of the ids of S to members of T.
Maps(S, T) == UNION {[D -> T] : D \in SUBSET S}

Cred == [label : Labels, auth : AuthTypes, secret : BOOLEAN]
Jump == [label : Labels, cred : CredIds]
Route == [cred : CredIds, jumps : SUBSET JumpIds, group : GroupIds \cup {None}]
Doc == [creds : Maps(CredIds, Cred), jumps : Maps(JumpIds, Jump),
        groups : SUBSET GroupIds, tunnels : Maps(TunnelIds, Route),
        consoles : Maps(ConsoleIds, Route)]

\* A bundle carries no groups and no consoles; a credential's "secret" says
\* that it carries one under the bundle's passphrase.
Bundle == [creds : Maps(CredIds, Cred), jumps : Maps(JumpIds, Jump),
           tunnels : Maps(TunnelIds, [cred : CredIds, jumps : SUBSET JumpIds])]

\* One host of an SSH configuration with the jump host it goes through, the
\* credentials of both given by label (None: it goes there directly).
Proposal == [label : Labels, jump : Labels \cup {None}, jumpCred : Labels]

ASSUME StoresAssumption ==
  /\ AuthTypes \subseteq {"password", "key", "agent"} /\ "agent" \in AuthTypes
  /\ Bundles \subseteq Bundle
  /\ Proposals \subseteq Proposal
  /\ None \notin CredIds \cup JumpIds \cup GroupIds \cup Labels \cup Cred

VARIABLES
  doc,      \* the definitions document
  locked    \* the master password has not been given: nothing can be sealed

vars == <<doc, locked>>

Empty == [x \in {} |-> None]
NewDoc == [creds |-> Empty, jumps |-> Empty, groups |-> {},
           tunnels |-> Empty, consoles |-> Empty]

Init == doc = NewDoc /\ locked \in BOOLEAN

With(f, k, v) == [x \in DOMAIN f \cup {k} |-> IF x = k THEN v ELSE f[x]]
WithoutKey(f, k) == [x \in DOMAIN f \ {k} |-> f[x]]

\* secretFieldForAuthType: an agent credential has no secret field, and the
\* two others have a field each.
HoldsSecret(auth) == auth # "agent"

-----------------------------------------------------------------------------
\* Credentials.  The renderer sends a new secret, asks to keep the stored one
\* or sends neither, which clears it; a kept secret does not survive a change
\* of the auth type.
Sealed(old, auth, intent) ==
  /\ HoldsSecret(auth)
  /\ \/ intent = "new"
     \/ intent = "keep" /\ old # None /\ old.auth = auth /\ old.secret

SaveCred(c, label, auth, intent) ==
  LET old == IF c \in DOMAIN doc.creds THEN doc.creds[c] ELSE None
  IN /\ HoldsSecret(auth) /\ intent = "new" => ~locked
     /\ doc' = [doc EXCEPT !.creds = With(@, c,
                  [label |-> label, auth |-> auth,
                   secret |-> Sealed(old, auth, intent)])]
     /\ UNCHANGED locked

\* Mutant: jump hosts are not asked.
CredInUse_Mutant(c) ==
  \/ \E t \in DOMAIN doc.tunnels : doc.tunnels[t].cred = c
  \/ \E s \in DOMAIN doc.consoles : doc.consoles[s].cred = c

CredInUse(c) ==
  \/ \E j \in DOMAIN doc.jumps : doc.jumps[j].cred = c
  \/ \E t \in DOMAIN doc.tunnels : doc.tunnels[t].cred = c
  \/ \E s \in DOMAIN doc.consoles : doc.consoles[s].cred = c

DeleteCred(c) ==
  /\ c \in DOMAIN doc.creds
  /\ ~CredInUse(c)
  /\ doc' = [doc EXCEPT !.creds = WithoutKey(@, c)]
  /\ UNCHANGED locked

\* Jump hosts.
SaveJump(j, label, c) ==
  /\ c \in DOMAIN doc.creds
  /\ doc' = [doc EXCEPT !.jumps = With(@, j, [label |-> label, cred |-> c])]
  /\ UNCHANGED locked

JumpInUse(j) ==
  \/ \E t \in DOMAIN doc.tunnels : j \in doc.tunnels[t].jumps
  \/ \E s \in DOMAIN doc.consoles : j \in doc.consoles[s].jumps

DeleteJump(j) ==
  /\ j \in DOMAIN doc.jumps
  /\ ~JumpInUse(j)
  /\ doc' = [doc EXCEPT !.jumps = WithoutKey(@, j)]
  /\ UNCHANGED locked

\* Groups.  Deleting one ungroups its members in the same write.
SaveGroup(g) ==
  /\ g \notin doc.groups
  /\ doc' = [doc EXCEPT !.groups = @ \cup {g}]
  /\ UNCHANGED locked

Ungrouped(f, g) ==
  [x \in DOMAIN f |-> IF f[x].group = g THEN [f[x] EXCEPT !.group = None]
                                        ELSE f[x]]

DeleteGroup(g) ==
  /\ g \in doc.groups
  /\ doc' = [doc EXCEPT !.groups = @ \ {g},
                        !.tunnels = Ungrouped(@, g),
                        !.consoles = Ungrouped(@, g)]
  /\ UNCHANGED locked

\* Tunnels and consoles: _assertRefs of both stores.
RefsExist(r) ==
  /\ r.cred \in DOMAIN doc.creds
  /\ r.jumps \subseteq DOMAIN doc.jumps
  /\ r.group \in doc.groups \cup {None}

\* resolveDefinition: the credentials the hops of a route log in with; a jump
\* host that is not there becomes a hop without any.
Logins(d, r) ==
  {r.cred} \cup {IF j \in DOMAIN d.jumps THEN d.jumps[j].cred ELSE None : j \in r.jumps}

SaveTunnel(t, r) ==
  /\ RefsExist(r)
  /\ doc' = [doc EXCEPT !.tunnels = With(@, t, r)]
  /\ UNCHANGED locked

DeleteTunnel(t) ==
  /\ t \in DOMAIN doc.tunnels
  /\ doc' = [doc EXCEPT !.tunnels = WithoutKey(@, t)]
  /\ UNCHANGED locked

SaveConsole(s, r) ==
  /\ RefsExist(r)
  /\ doc' = [doc EXCEPT !.consoles = With(@, s, r)]
  /\ UNCHANGED locked

DeleteConsole(s) ==
  /\ s \in DOMAIN doc.consoles
  /\ doc' = [doc EXCEPT !.consoles = WithoutKey(@, s)]
  /\ UNCHANGED locked

\* The master password is given, or the vault is locked again.
SetLock(l) == l # locked /\ locked' = l /\ doc' = doc

-----------------------------------------------------------------------------
\* Backup bundles.  Export unseals every secret it can and carries it under
\* the passphrase; without one, or while locked, it leaves the secrets out.
Exported(d, sealing) ==
  [creds   |-> [c \in DOMAIN d.creds |->
                  [d.creds[c] EXCEPT !.secret = @ /\ sealing]],
   jumps   |-> d.jumps,
   tunnels |-> [t \in DOMAIN d.tunnels |->
                  [cred |-> d.tunnels[t].cred, jumps |-> d.tunnels[t].jumps]]]

Valid(b) ==
  /\ \A j \in DOMAIN b.jumps : b.jumps[j].cred \in DOMAIN b.creds
  /\ \A t \in DOMAIN b.tunnels :
       /\ b.tunnels[t].cred \in DOMAIN b.creds
       /\ b.tunnels[t].jumps \subseteq DOMAIN b.jumps

\* Mutant: a stripped credential takes the stored secret away.
Imported_Mutant(bc, old) == [bc EXCEPT !.secret = HoldsSecret(bc.auth) /\ @]

\* Sealing an imported credential: its own secret if it brings one, else the
\* one the replaced record had for the same auth type.
Imported(bc, old) ==
  [bc EXCEPT !.secret =
     HoldsSecret(bc.auth)
       /\ (@ \/ (old # None /\ old.auth = bc.auth /\ old.secret))]

OldOf(f, k) == IF k \in DOMAIN f THEN f[k] ELSE None

\* Where the records of a bundle may end up: on the record with the same id,
\* else on a record that has the same label when its turn comes, else beside
\* the others.  The order of the two lists decides which of several; it is
\* left open, so a record another one of the bundle renames may be met before
\* or after.
Kept(r) == {x \in DOMAIN r : r[x] = x}

Meets(r, old, new, x, y) ==
  \/ y \in DOMAIN old /\ old[y].label = new[x].label
  \/ y \in Kept(r) /\ new[y].label = new[x].label

\* Mutant: the label is looked up before the id.
Placed_Mutant(r, old, new) ==
  \A x \in DOMAIN new :
    \/ r[x] # x /\ Meets(r, old, new, x, r[x])
    \/ r[x] = x /\ \A y \in DOMAIN old \ {x} : old[y].label # new[x].label

Placed(r, old, new) ==
  \A x \in DOMAIN new :
    \/ r[x] = x /\ x \in DOMAIN old
    \/ /\ x \notin DOMAIN old /\ r[x] # x
       /\ Meets(r, old, new, x, r[x])
    \/ /\ x \notin DOMAIN old /\ r[x] = x
       /\ \A y \in DOMAIN old : old[y].label = new[x].label => y \in DOMAIN new
       /\ \A y \in Kept(r) \ (DOMAIN old \cup {x}) : new[y].label # new[x].label

\* The old map with the kept records of the new one, each made by Make.
Over(old, r, Make(_)) ==
  [x \in DOMAIN old \cup Kept(r) |-> IF x \in Kept(r) THEN Make(x) ELSE old[x]]

Remap(r, id) == IF id \in DOMAIN r THEN r[id] ELSE id

RouteOf(bt, rc, rj) ==
  [cred |-> Remap(rc, bt.cred), jumps |-> {Remap(rj, j) : j \in bt.jumps},
   group |-> None]

\* mergeDoc, for one placement of the credentials and of the jump hosts.
Merged(d, b, rc, rj) ==
  LET newCred(c) == Imported(b.creds[c], OldOf(d.creds, c))
      newJump(j) == [label |-> b.jumps[j].label,
                     cred |-> Remap(rc, b.jumps[j].cred)]
  IN [d EXCEPT
        !.creds = Over(@, rc, newCred),
        !.jumps = Over(@, rj, newJump),
        !.tunnels = [t \in DOMAIN @ \cup DOMAIN b.tunnels |->
                       IF t \in DOMAIN b.tunnels
                       THEN RouteOf(b.tunnels[t], rc, rj) ELSE @[t]]]

Placements(old, new) ==
  {r \in [DOMAIN new -> DOMAIN new \cup DOMAIN old] : Placed(r, old, new)}

\* replaceDoc: the three lists are the bundle's, the other two stay.
Replaced(d, b) ==
  LET rc == [c \in DOMAIN b.creds |-> c]
      rj == [j \in DOMAIN b.jumps |-> j]
  IN [d EXCEPT
        !.creds = [c \in DOMAIN b.creds |-> Imported(b.creds[c], None)],
        !.jumps = b.jumps,
        !.tunnels = [t \in DOMAIN b.tunnels |-> RouteOf(b.tunnels[t], rc, rj)]]

\* A refused bundle, a wrong passphrase and a secret that cannot be sealed
\* end the import before its one write.
Sealable(b, cs) ==
  locked => \A c \in cs : ~(b.creds[c].secret /\ HoldsSecret(b.creds[c].auth))

Merge(b) ==
  /\ Valid(b)
  /\ \E rc \in Placements(doc.creds, b.creds) :
     \E rj \in Placements(doc.jumps, b.jumps) :
       /\ Sealable(b, Kept(rc))
       /\ doc' = Merged(doc, b, rc, rj)
  /\ UNCHANGED locked

Replace(b) ==
  /\ Valid(b)
  /\ Sealable(b, DOMAIN b.creds)
  /\ doc' = Replaced(doc, b)
  /\ UNCHANGED locked

-----------------------------------------------------------------------------
\* SSH configuration.  A label that exists is used, else a record is made
\* under a fresh id; a tunnel is always added.  A selection of several hosts
\* is as many of these.
ByLabel(f, label) == {x \in DOMAIN f : f[x].label = label}

\* The ids a label may resolve to: those that have it, else any free one.
Target(f, Ids, label) ==
  IF ByLabel(f, label) # {} THEN ByLabel(f, label) ELSE Ids \ DOMAIN f

\* The agent (or key file) credential made for a label.
Ensure(f, c, label) ==
  IF c \in DOMAIN f THEN f
  ELSE With(f, c, [label |-> label, auth |-> "agent", secret |-> FALSE])

\* The document ends up without its groups and consoles: the write names the
\* other three lists only, and a list that is not named is written empty.
SshImported(d, creds, jumps, t, c, via) ==
  [creds |-> creds, jumps |-> jumps,
   tunnels |-> With(d.tunnels, t, [cred |-> c, jumps |-> via, group |-> None]),
   groups |-> {}, consoles |-> Empty]

ImportSsh(p) ==
  /\ \E t \in TunnelIds \ DOMAIN doc.tunnels, c \in Target(doc.creds, CredIds, p.label) :
       LET cs == Ensure(doc.creds, c, p.label)
       IN \/ /\ p.jump = None
             /\ doc' = SshImported(doc, cs, doc.jumps, t, c, {})
          \/ \E j \in ByLabel(doc.jumps, p.jump), k \in Target(cs, CredIds, p.jumpCred) :
               doc' = SshImported(doc, Ensure(cs, k, p.jumpCred), doc.jumps, t, c, {j})
          \/ \E j \in JumpIds \ DOMAIN doc.jumps, k \in Target(cs, CredIds, p.jumpCred) :
               /\ p.jump # None
               /\ ByLabel(doc.jumps, p.jump) = {}
               /\ doc' = SshImported(doc, Ensure(cs, k, p.jumpCred),
                           With(doc.jumps, j, [label |-> p.jump, cred |-> k]),
                           t, c, {j})
  /\ UNCHANGED locked

-----------------------------------------------------------------------------
Next ==
  \/ \E c \in CredIds, l \in Labels, a \in AuthTypes, i \in {"new", "keep", "clear"} :
       SaveCred(c, l, a, i)
  \/ \E c \in CredIds : DeleteCred(c)
  \/ \E j \in JumpIds, l \in Labels, c \in CredIds : SaveJump(j, l, c)
  \/ \E j \in JumpIds : DeleteJump(j)
  \/ \E g \in GroupIds : SaveGroup(g) \/ DeleteGroup(g)
  \/ \E t \in TunnelIds, r \in Route : SaveTunnel(t, r)
  \/ \E t \in TunnelIds : DeleteTunnel(t)
  \/ \E s \in ConsoleIds, r \in Route : SaveConsole(s, r)
  \/ \E s \in ConsoleIds : DeleteConsole(s)
  \/ \E l \in BOOLEAN : SetLock(l)
  \/ \E b \in Bundles : Merge(b) \/ Replace(b)
  \/ \E p \in Proposals : ImportSsh(p)

Spec == Init /\ [][Next]_vars

-----------------------------------------------------------------------------
\* Every hop of every tunnel, and of any route over the jump hosts there are,
\* has a credential to log in with: the delete guards, the checks on saving, the checks of a bundle and
\* the remapping of its references close over each other, whatever their order.
RefsResolve ==
  /\ \A j \in DOMAIN doc.jumps : doc.jumps[j].cred \in DOMAIN doc.creds
  /\ \A t \in DOMAIN doc.tunnels :
       Logins(doc, doc.tunnels[t]) \subseteq DOMAIN doc.creds

\* A merge never takes a stored secret away unless the bundle changes how the
\* credential authenticates ("never clobber an existing secret with a stripped
\* one").
KeepsSecrets(new) ==
  \A c \in DOMAIN doc.creds :
    /\ c \in DOMAIN new.creds
    /\ doc.creds[c].secret /\ new.creds[c].auth = doc.creds[c].auth
         => new.creds[c].secret

\* A merged tunnel logs in with the credential the bundle means: one with the
\* label it has there, unless the bundle itself renames the record that was met.
RefsFollow(new, b) ==
  \A t \in DOMAIN b.tunnels :
    LET c == new.tunnels[t].cred
    IN \/ /\ c \in DOMAIN new.creds
          /\ new.creds[c].label = b.creds[b.tunnels[t].cred].label
       \/ c \in DOMAIN b.creds \cap DOMAIN doc.creds

\* What any merge made now would owe to what is there and to what it brings.
MergeIsFaithful ==
  \A b \in Bundles : Valid(b) =>
    \A rc \in Placements(doc.creds, b.creds), rj \in Placements(doc.jumps, b.jumps) :
      LET new == Merged(doc, b, rc, rj)
      IN Sealable(b, Kept(rc)) => KeepsSecrets(new) /\ RefsFollow(new, b)

Ungroup(f) == [x \in DOMAIN f |-> [f[x] EXCEPT !.group = None]]

\* A backup made now can be read back now: it is valid, replacing by it gives
\* the same credentials with their secrets, jump hosts and routes, and merging
\* it, with or without its secrets, changes nothing but group membership.
BackupRestores ==
  LET full == Exported(doc, TRUE)
      same(d) == /\ d.creds = doc.creds /\ d.jumps = doc.jumps
                 /\ d.tunnels = Ungroup(doc.tunnels)
  IN /\ Valid(full)
     /\ same(Replaced(doc, full))
     /\ \A s \in BOOLEAN :
          LET b == Exported(doc, s)
          IN \A rc \in Placements(doc.creds, b.creds), rj \in Placements(doc.jumps, b.jumps) :
               same(Merged(doc, b, rc, rj))

\* What a backup promises: to be read back whole, and to be merged without harm.
ImportIsFaithful == BackupRestores /\ MergeIsFaithful
=============================================================================
