------------------------------ MODULE FileCache ------------------------------
(***************************************************************************)
(* The generated data of IAsyncEnumerable/BlazorProject: DataService looks *)
(* for the cache file, generates and saves the data if there is none, and  *)
(* streams the file.  One key.  The generator is random: the file that a   *)
(* request writes is its own generation.                                   *)
(***************************************************************************)
EXTENDS Naturals, FiniteSets

CONSTANTS Requests,     \* the requests of GetDataAsync for one count
          MaxFailures   \* bound on what interrupts them

VARIABLES
    stage,      \* where a request stands
    file,       \* the cache file: who wrote it and whether it is complete, or NoFile
    opened,     \* the file as it was when a request opened it to read
    failures    \* interruptions so far

vars == <<stage, file, opened, failures>>

Nobody == "nobody"
NoFile == [by |-> Nobody, whole |-> FALSE]
Contents == [by : Requests, whole : BOOLEAN] \cup {NoFile}

\* The requests that have the file open.
Writing == {r \in Requests : stage[r] = "saving"}
Reading == {r \in Requests : stage[r] = "reading"}

TypeOK ==
    /\ stage \in [Requests -> {"idle", "creating", "saving", "loading", "reading", "done", "failed"}]
    /\ file \in Contents
    /\ opened \in [Requests -> Contents]
    /\ failures \in 0 .. MaxFailures

Init ==
    /\ stage = [r \in Requests |-> "idle"]
    /\ file = NoFile
    /\ opened = [r \in Requests |-> NoFile]
    /\ failures = 0

To(r, s) == stage' = [stage EXCEPT ![r] = s]

\* Exists: the file counts from the moment it is created.
Exists(r) ==
    /\ stage[r] = "idle"
    /\ To(r, IF file = NoFile THEN "creating" ELSE "loading")
    /\ UNCHANGED <<file, opened, failures>>

\* Mutant of Shareable: a writer is kept from other writers only.
OneWriter == Writing = {}

\* File.Create shares with nobody.
Shareable == Writing = {} /\ Reading = {}

\* SaveAsync: the file is created, or emptied, or held by another request.
Create(r) ==
    /\ stage[r] = "creating"
    /\ IF Shareable
       THEN To(r, "saving") /\ file' = [by |-> r, whole |-> FALSE]
       ELSE To(r, "failed") /\ UNCHANGED file
    /\ UNCHANGED <<opened, failures>>

\* SaveAsync: the data are written and the file is closed.
Save(r) ==
    /\ stage[r] = "saving"
    /\ file' = [file EXCEPT !.whole = TRUE]
    /\ To(r, "loading")
    /\ UNCHANGED <<opened, failures>>

\* LoadAsync: OpenRead fails while the file is being written.
Open(r) ==
    /\ stage[r] = "loading"
    /\ IF Writing = {}
       THEN To(r, "reading") /\ opened' = [opened EXCEPT ![r] = file]
       ELSE To(r, "failed") /\ UNCHANGED opened
    /\ UNCHANGED <<file, failures>>

\* LoadAsync streams a complete file; a part of one is not valid JSON.
Deserialize(r) ==
    /\ stage[r] = "reading"
    /\ To(r, IF file.whole THEN "done" ELSE "failed")
    /\ UNCHANGED <<file, opened, failures>>

\* An exception, the reader that leaves, or the end of the process.
Interrupted(r) ==
    /\ stage[r] \in {"creating", "saving", "loading", "reading"}
    /\ failures < MaxFailures
    /\ failures' = failures + 1
    /\ To(r, "failed")
    /\ UNCHANGED <<file, opened>>

Next == \E r \in Requests :
            Exists(r) \/ Create(r) \/ Save(r) \/ Open(r) \/ Deserialize(r) \/ Interrupted(r)

Spec == Init /\ [][Next]_vars

-----------------------------------------------------------------------------
(* Properties *)

\* What a request streams is the file it opened, of one generation, and whole
\* if the request ends well; two requests never write at once; and a part that
\* nobody is writing was left by an interruption: nothing else breaks the
\* cache, though nothing mends it either (File.Create, OpenRead and the missing
\* rename in SaveAsync).
OnlyInterruptionsBreakTheFile ==
    /\ \A r \in Reading : file = opened[r]
    /\ \A r \in Requests : stage[r] = "done" => opened[r].whole
    /\ \A q, r \in Writing : q = r
    /\ file # NoFile /\ ~ file.whole /\ Writing = {} => failures > 0
=============================================================================
