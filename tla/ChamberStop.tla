----------------------------- MODULE ChamberStop -----------------------------
(***************************************************************************)
(* The transmit chamber when the service stops: the bridge stores 0 to both *)
(* counters (ipc.py, reset) while Triton, which is terminated beside it,    *)
(* goes on popping.  pop is split further than in ChamberRing: once another *)
(* process writes tail, the value pop loaded is no longer the one it is in  *)
(* memory.  The release build of the spoke subtracts counters without a     *)
(* check, so a tail ahead of head counts as a ring that is more than full.  *)
(***************************************************************************)
EXTENDS ChamberRing

VARIABLES
    ctail,    \* the value of tail that pop loaded
    stopping  \* how far the service has come with its stop

stopVars == <<vars, ctail, stopping>>

StopInit == Init /\ ctail = 0 /\ stopping = "no"

\* Only a service that is up pushes.
ServicePushes ==
    /\ stopping = "no"
    /\ Push
    /\ UNCHANGED <<ctail, stopping>>

\* The loop has one thread: no push of the service is under way.
ResetHead ==
    /\ stopping = "no" /\ ppc = "idle"
    /\ head' = 0
    /\ stopping' = "halfway"
    /\ UNCHANGED <<cell, tail, producer, consumer, crashes, sent, start, rcvd, ctail>>

ResetTail ==
    /\ stopping = "halfway"
    /\ tail' = 0
    /\ stopping' = "reset"
    /\ UNCHANGED <<cell, head, producer, consumer, crashes, sent, start, rcvd, ctail>>

\* terminate, then the wait for the process: wherever it stands.
SpokeEnds ==
    /\ stopping = "reset"
    /\ stopping' = "stopped"
    /\ UNCHANGED <<vars, ctail>>

------------------------------------------------------------------------------
SpokeKeeps == UNCHANGED <<cell, head, producer, crashes, sent, start, rcvd, stopping>>

LoadHead ==
    /\ cpc = "idle"
    /\ chead' = head
    /\ cpc' = "tail"
    /\ UNCHANGED <<tail, clen, out, ctail>> /\ SpokeKeeps

LoadTail ==
    /\ cpc = "tail"
    /\ ctail' = tail
    /\ cpc' = IF chead = tail THEN "idle" ELSE "length"
    /\ UNCHANGED <<tail, chead, clen, out>> /\ SpokeKeeps

\* What four bytes that no push wrote together say is anybody's guess.
LengthAt(c) ==
    IF \E n \in Lengths : HoldsLength(c, n) THEN {n \in Lengths : HoldsLength(c, n)}
    ELSE 0 .. Capacity

\* Unsigned: with tail ahead the difference wraps, and no frame is too long.
Committed(n) == ctail > chead \/ chead - ctail >= Header + n

ReadFrame ==
    /\ cpc = "length"
    /\ \E n \in LengthAt(ctail) :
          IF n = 0 \/ n > Capacity - Header \/ ~Committed(n)
          THEN cpc' = "idle" /\ UNCHANGED <<clen, out>>
          ELSE cpc' = "advance" /\ clen' = n /\ out' = ReadFrom(ctail + Header, n)
    /\ UNCHANGED <<tail, chead, ctail>> /\ SpokeKeeps

StoreTail ==
    /\ cpc = "advance"
    /\ tail' = ctail + Header + clen
    /\ cpc' = "idle"
    /\ UNCHANGED <<chead, clen, out, ctail>> /\ SpokeKeeps

SpokePops == stopping # "stopped" /\ (LoadHead \/ LoadTail \/ ReadFrame \/ StoreTail)

StopNext == ServicePushes \/ ResetHead \/ ResetTail \/ SpokeEnds \/ SpokePops

StopSpec == StopInit /\ [][StopNext]_stopVars

------------------------------------------------------------------------------
\* After a stop the chambers, which the next service maps as they are, hold
\* nothing (lina_service.py, IPCBridgeService: "resets it cleanly at stop").
ResetIsClean == stopping = "stopped" => head = 0 /\ tail = 0
==============================================================================
