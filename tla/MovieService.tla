---------------------------- MODULE MovieService ----------------------------
(***************************************************************************)
(* MovieService of Queue/Movies.Api: a singleton that keeps the movies in  *)
(* one concurrent dictionary and finds them by slug through another.  Each *)
(* access of a dictionary is a step; requests interleave between them.     *)
(*                                                                         *)
(* A movie is its Guid; of its content only the slug matters, which stands *)
(* for title and year.  Both dictionaries live in memory, so a restart is  *)
(* Init.  Requests that are refused or find nothing, failed validations    *)
(* and reads change nothing and are left out.                              *)
(***************************************************************************)
EXTENDS FiniteSets

CONSTANTS
    Movies,         \* the Guids
    Slugs,
    Requests        \* the places of requests in work at the same time

VARIABLES
    movies,         \* _movies: the slug of the movie of an Id, Absent if there is none
    slugToId,       \* _slugToIdJoin
    drawn,          \* the Guids that creations have drawn
    pc,             \* where a request stands
    id,             \* movie.Id of a request
    slug,           \* movie.Slug of a request
    oldSlug,        \* the slug an update or a deletion is about to remove
    queue,          \* movies-queue: the movies announced as created
    overlapped,     \* history: the movies on which two requests worked at once
    contended       \* history: the slugs that two movies claimed at once

vars == <<movies, slugToId, drawn, pc, id, slug, oldSlug, queue, overlapped, contended>>

Absent == "absent"

ASSUME AbsentAssumption == Absent \notin Movies /\ Absent \notin Slugs

PcValues == {"idle", "creating", "adding", "sending",
             "found", "removing", "joining", "storing",
             "taking", "deleting"}

TypeOK ==
    /\ movies \in [Movies -> Slugs \cup {Absent}]
    /\ slugToId \in [Slugs -> Movies \cup {Absent}]
    /\ drawn \subseteq Movies
    /\ pc \in [Requests -> PcValues]
    /\ id \in [Requests -> Movies]
    /\ slug \in [Requests -> Slugs]
    /\ oldSlug \in [Requests -> Slugs]
    /\ queue \subseteq Movies
    /\ overlapped \subseteq Movies
    /\ contended \subseteq Slugs

Init ==
    /\ movies = [m \in Movies |-> Absent]
    /\ slugToId = [s \in Slugs |-> Absent]
    /\ drawn = {}
    /\ pc = [q \in Requests |-> "idle"]
    /\ \E m \in Movies : id = [q \in Requests |-> m]
    /\ \E s \in Slugs : slug = [q \in Requests |-> s] /\ oldSlug = [q \in Requests |-> s]
    /\ queue = {}
    /\ overlapped = {}
    /\ contended = {}

\* The request q is at from and goes to to.
Goto(q, from, to) ==
    /\ pc[q] = from
    /\ pc' = [pc EXCEPT ![q] = to]

-----------------------------------------------------------------------------
(* CreateAsync *)

\* A new Guid; the slug is not in use.
CheckSlug(q, m, s) ==
    /\ Goto(q, "idle", "creating")
    /\ m \notin drawn
    /\ slugToId[s] = Absent
    /\ drawn' = drawn \cup {m}
    /\ id' = [id EXCEPT ![q] = m]
    /\ slug' = [slug EXCEPT ![q] = s]
    /\ UNCHANGED <<movies, slugToId, oldSlug, queue>>

AddSlug(q) ==
    /\ Goto(q, "creating", "adding")
    /\ slugToId' = [slugToId EXCEPT ![slug[q]] = id[q]]
    /\ UNCHANGED <<movies, drawn, id, slug, oldSlug, queue>>

AddMovie(q) ==
    /\ Goto(q, "adding", "sending")
    /\ movies' = [movies EXCEPT ![id[q]] = slug[q]]
    /\ UNCHANGED <<slugToId, drawn, id, slug, oldSlug, queue>>

SendCreated(q) ==
    /\ Goto(q, "sending", "idle")
    /\ queue' = queue \cup {id[q]}
    /\ UNCHANGED <<movies, slugToId, drawn, id, slug, oldSlug>>

\* SendAsync throws; the movie stays.
SendFails(q) ==
    /\ Goto(q, "sending", "idle")
    /\ UNCHANGED <<movies, slugToId, drawn, id, slug, oldSlug, queue>>

-----------------------------------------------------------------------------
(* UpdateAsync *)

FindMovie(q, m, s) ==
    /\ Goto(q, "idle", "found")
    /\ movies[m] # Absent
    /\ id' = [id EXCEPT ![q] = m]
    /\ slug' = [slug EXCEPT ![q] = s]
    /\ UNCHANGED <<movies, slugToId, drawn, oldSlug, queue>>

ReadOldSlug(q) ==
    /\ Goto(q, "found", "removing")
    /\ movies[id[q]] # Absent
    /\ oldSlug' = [oldSlug EXCEPT ![q] = movies[id[q]]]
    /\ UNCHANGED <<movies, slugToId, drawn, id, slug, queue>>

\* The movie has been deleted since: KeyNotFoundException.
KeyNotFound(q) ==
    /\ Goto(q, "found", "idle")
    /\ movies[id[q]] = Absent
    /\ UNCHANGED <<movies, slugToId, drawn, id, slug, oldSlug, queue>>

\* Remove of a slug gets and removes, too; that is removing it at one moment,
\* since what it got is not used.
RemoveOldSlug(q) ==
    /\ Goto(q, "removing", "joining")
    /\ slugToId' = [slugToId EXCEPT ![oldSlug[q]] = Absent]
    /\ UNCHANGED <<movies, drawn, id, slug, oldSlug, queue>>

ReplaceSlug(q) ==
    /\ Goto(q, "joining", "storing")
    /\ slugToId' = [slugToId EXCEPT ![slug[q]] = id[q]]
    /\ UNCHANGED <<movies, drawn, id, slug, oldSlug, queue>>

\* Mutant of ReplaceMovie: the old slug is removed last, though it may be the new one.
ReplaceMovieThenRemove(q) ==
    /\ Goto(q, "storing", "idle")
    /\ movies' = [movies EXCEPT ![id[q]] = slug[q]]
    /\ slugToId' = [slugToId EXCEPT ![oldSlug[q]] = Absent]
    /\ UNCHANGED <<drawn, id, slug, oldSlug, queue>>

ReplaceMovie(q) ==
    /\ Goto(q, "storing", "idle")
    /\ movies' = [movies EXCEPT ![id[q]] = slug[q]]
    /\ UNCHANGED <<slugToId, drawn, id, slug, oldSlug, queue>>

-----------------------------------------------------------------------------
(* DeleteByIdAsync *)

\* Mutant of TryGetMovie: whether there is a movie is not looked at.
GetUnchecked(q, m) ==
    /\ Goto(q, "idle", "taking")
    /\ id' = [id EXCEPT ![q] = m]
    /\ oldSlug' = [oldSlug EXCEPT ![q] = movies[m]]
    /\ UNCHANGED <<movies, slugToId, drawn, slug, queue>>

\* Remove with an out parameter is the extension method of IDictionary, which
\* gets the movie and then removes whatever has its Id (external).
TryGetMovie(q, m) ==
    /\ Goto(q, "idle", "taking")
    /\ movies[m] # Absent
    /\ id' = [id EXCEPT ![q] = m]
    /\ oldSlug' = [oldSlug EXCEPT ![q] = movies[m]]
    /\ UNCHANGED <<movies, slugToId, drawn, slug, queue>>

RemoveMovie(q) ==
    /\ Goto(q, "taking", "deleting")
    /\ movies' = [movies EXCEPT ![id[q]] = Absent]
    /\ UNCHANGED <<slugToId, drawn, id, slug, oldSlug, queue>>

\* Mutant of RemoveSlug: the slug stays.
KeepSlug(q) ==
    /\ Goto(q, "deleting", "idle")
    /\ UNCHANGED <<movies, slugToId, drawn, id, slug, oldSlug, queue>>

RemoveSlug(q) ==
    /\ Goto(q, "deleting", "idle")
    /\ slugToId' = [slugToId EXCEPT ![oldSlug[q]] = Absent]
    /\ UNCHANGED <<movies, drawn, id, slug, oldSlug, queue>>

-----------------------------------------------------------------------------
\* q is at work on the dictionaries.
Working(q) == pc[q] \notin {"idle", "sending"}

InWork(m) == \E q \in Requests : Working(q) /\ id[q] = m

\* m has the slug s, is about to get it, or is about to have it removed.
Claims(m, s) ==
    \/ movies[m] = s
    \/ slugToId[s] = m
    \/ \E q \in Requests :
        id[q] = m /\ pc[q] \in {"creating", "adding", "found", "removing", "joining", "storing"} /\ slug[q] = s
    \/ \E q \in Requests :
        id[q] = m /\ pc[q] \in {"removing", "taking", "deleting"} /\ oldSlug[q] = s

Overlaps ==
    {m \in Movies : \E q, r \in Requests : q # r /\ Working(q) /\ Working(r) /\ id[q] = m /\ id[r] = m}

Contests == {s \in Slugs : \E m, n \in Movies : m # n /\ Claims(m, s) /\ Claims(n, s)}

Step ==
    \/ \E q \in Requests, m \in Movies, s \in Slugs : CheckSlug(q, m, s) \/ FindMovie(q, m, s)
    \/ \E q \in Requests, m \in Movies : TryGetMovie(q, m)
    \/ \E q \in Requests :
        \/ AddSlug(q) \/ AddMovie(q) \/ SendCreated(q) \/ SendFails(q)
        \/ ReadOldSlug(q) \/ KeyNotFound(q) \/ RemoveOldSlug(q) \/ ReplaceSlug(q) \/ ReplaceMovie(q)
        \/ RemoveMovie(q) \/ RemoveSlug(q)

Next ==
    /\ Step
    /\ overlapped' = overlapped \cup Overlaps'
    /\ contended' = contended \cup Contests'

Spec == Init /\ [][Next]_vars

-----------------------------------------------------------------------------
(* Properties *)

\* A slug leads to a movie that has it.  The exceptions are a movie somebody
\* is at work on and a movie on which two requests once worked at the same
\* time; however requests on different movies interleave, and whatever slugs
\* they contend for, no slug is left behind to lead to the wrong movie.
SlugsLeadRight ==
    \A s \in Slugs, m \in Movies : slugToId[s] = m => movies[m] = s \/ InWork(m) \/ m \in overlapped

\* A movie is found by its slug, with the same exceptions and one more: a
\* slug that two movies have claimed at the same time.
MoviesAreFound ==
    \A m \in Movies :
        movies[m] # Absent => slugToId[movies[m]] = m \/ InWork(m) \/ m \in overlapped \/ movies[m] \in contended

\* "This movie already exists in the system" (MovieService.cs:33): no two
\* movies have one slug.
SlugsAreUnique ==
    \A m, n \in Movies : movies[m] = movies[n] /\ movies[m] # Absent => m = n
=============================================================================
