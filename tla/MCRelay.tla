------------------------------ MODULE MCRelay ------------------------------
(***************************************************************************)
(* The relays; the bytes of one SOCKS connection; or the launch, unlock    *)
(* and quit of the process: `part` says which a behaviour is about.  The   *)
(* fairness of each part is its own.                                       *)
(***************************************************************************)
EXTENDS Relay, Socks, Shell

(* BOUND: four greetings, seven requests, and what may follow one.        *)
Greetings == {<<5, 1, 0>>, <<5, 3, 2, 0, 1>>, <<5, 2, 1, 2>>, <<4, 1>>}

MCRequests ==
  {<<5, 1, 0, 1, 127, 0, 0, 1, 1, 187>>,
   <<5, 1, 0, 3, 2, 97, 5, 0, 80>>,
   <<5, 1, 0, 3, 0, 0, 22>>,
   <<5, 1, 0, 4, 32, 1, 5, 1, 0, 3, 0, 0, 0, 0, 0, 0, 0, 0, 0, 1, 0, 80>>,
   <<5, 2, 0, 1, 10, 0, 0, 1, 0, 80>>,
   <<5, 1, 0, 2, 0, 80>>,
   <<1, 0, 0, 0>>}

MCStreams ==
  {g \o q \o tail : g \in Greetings, q \in MCRequests, tail \in {<<>>, <<5, 1, 0>>}}

VARIABLE part

MCInit ==
  /\ part \in {"relays", "socks", "shell"} /\ Init /\ SocksInit /\ ShellInit
  /\ part # "socks" => stream = CHOOSE s \in Streams : TRUE

MCNext ==
  \/ part = "relays" /\ Next /\ UNCHANGED <<part, socksVars, shellVars>>
  \/ part = "socks" /\ SocksNext /\ UNCHANGED <<part, vars, shellVars>>
  \/ part = "shell" /\ ShellNext /\ UNCHANGED <<part, vars, socksVars>>

MCSpec ==
  /\ MCInit /\ [][MCNext]_<<part, vars, socksVars, shellVars>>
  /\ \A r \in Relays, e \in Ends :
       WF_vars(part = "relays" /\ Reads(r, e)) /\ WF_vars(part = "relays" /\ Drains(r, e))
  /\ WF_shellVars(part = "shell" /\ Drained)
=============================================================================
