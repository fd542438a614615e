-------------------------- MODULE OrderedDelivery --------------------------
(***************************************************************************)
(* What a transport session promises the consumer of its streams           *)
(* (docs/transport-fixes.md; the handlers in apps/client/lib/proxy.js and  *)
(* apps/server/lib/http-router.js rely on it): whatever the network does,  *)
(* a stream is handed over as a gap-free prefix in sequence order, begun   *)
(* by one HEADERS or UPGRADE and with nothing after FIN; a closed stream   *)
(* never comes back; and the session can only abort as a whole, for good.  *)
(***************************************************************************)
EXTENDS Integers, Sequences

CONSTANT Ids
VARIABLES phase,    \* per stream: "unused", "open" or "closed"
          log,      \* per stream: the frames handed over
          aborted

absVars == <<phase, log, aborted>>

Starts == {"HEADERS", "UPGRADE"}

AInit ==
  /\ phase = [i \in Ids |-> "unused"]
  /\ log = [i \in Ids |-> <<>>]
  /\ aborted = FALSE

Follows(done, type) ==
  /\ type \in Starts <=> done = <<>>
  /\ \A n \in 1..Len(done) : done[n].type # "FIN"

AOpen(id) ==
  /\ ~aborted
  /\ phase[id] = "unused"
  /\ phase' = [phase EXCEPT ![id] = "open"]
  /\ UNCHANGED <<log, aborted>>

ADeliver(id, type) ==
  /\ ~aborted
  /\ phase[id] # "closed"
  /\ Follows(log[id], type)
  /\ phase' = [phase EXCEPT ![id] = "open"]
  /\ log' = [log EXCEPT ![id] = Append(@, [type |-> type, seq |-> Len(@) + 1])]
  /\ UNCHANGED aborted

AClose(id) ==
  /\ ~aborted
  /\ phase[id] = "open"
  /\ phase' = [phase EXCEPT ![id] = "closed"]
  /\ UNCHANGED <<log, aborted>>

AAbort ==
  /\ ~aborted
  /\ aborted' = TRUE
  /\ phase' = [i \in Ids |-> "closed"]
  /\ UNCHANGED log

ANext ==
  \/ \E id \in Ids : AOpen(id) \/ AClose(id)
  \/ \E id \in Ids, type \in Starts \cup {"DATA", "FIN"} : ADeliver(id, type)
  \/ AAbort

ASpec == AInit /\ [][ANext]_absVars
============================================================================
