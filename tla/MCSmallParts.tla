---------------------------- MODULE MCSmallParts ----------------------------
(***************************************************************************)
(* Three small parts, and the order stream on an instance larger than that *)
(* of stream_replay: two requests race in Add before the client comes back *)
(* with a third.  They have nothing to do with one another and are checked *)
(* together: a behaviour is one of one part, chosen at the start, so that  *)
(* their states add up and do not multiply.                                *)
(***************************************************************************)
EXTENDS SmallParts, TLC

CONSTANTS a1, a2, b1, c1, h1, h2, h3

VARIABLES
    part,
    orderCounter, stopping, channel, nextEventId, buffer, pc, lastEventId,
    missed, order, eventId, connected, seen, owed, peak

\* Two uploads have files of one name, a third a file of another.
UploadedNames == a1 :> "a" @@ a2 :> "a" @@ b1 :> "b"

\* One client with three requests, which may overlap.
Stream == INSTANCE OrderStream WITH
    Clients <- {c1}, Handlers <- {h1, h2, h3}, ClientOf <- [h \in {h1, h2, h3} |-> c1], Plain <- {},
    MaxBufferSize <- 3, MaxOrders <- 5

RequestsAreAlike == Permutations({h1, h2, h3})

\* Bounds on the stream: it does not stop, an order is produced when the last
\* one has been taken, two requests race, and the client comes back only after
\* it has received another event.
StreamBound ==
    /\ ~ stopping
    /\ Len(channel) <= 1
    /\ peak <= 2
    /\ Cardinality({h \in {h1, h2, h3} : pc[h] # "idle"}) <= Len(seen[c1]) + 1

MCInit ==
    /\ part \in {"lock", "cache", "upload", "stream"}
    /\ Init /\ Cache!Init /\ Upload!Init /\ Stream!Init

streamVars == <<orderCounter, stopping, channel, nextEventId, buffer, pc, lastEventId,
                missed, order, eventId, connected, seen, owed, peak>>

MCNext ==
    \/ part = "lock" /\ Next /\ UNCHANGED <<part, cacheVars, uploadVars, streamVars>>
    \/ part = "cache" /\ Cache!Next /\ UNCHANGED <<part, vars, uploadVars, streamVars>>
    \/ part = "upload" /\ Upload!Next /\ UNCHANGED <<part, vars, cacheVars, streamVars>>
    \/ part = "stream" /\ Stream!Next /\ UNCHANGED <<part, vars, cacheVars, uploadVars>>

MCSpec == MCInit /\ [][MCNext]_<<part, vars, cacheVars, uploadVars, streamVars>>

\* OrderStream: see there.
ReplayLeavesNoGap == Stream!ReplayLeavesNoGap
=============================================================================
