------------------------- MODULE MovieServiceProofs -------------------------
(***************************************************************************)
(* The theorems about MovieService: its type, and that the dictionaries    *)
(* disagree only where SlugsLeadRight and MoviesAreFound allow, for any    *)
(* number of movies, slugs and requests.                                   *)
(*                                                                         *)
(* The two properties speak of movies nobody is at work on.  Underway says *)
(* what holds of the others, one clause for each place their request can   *)
(* stand at.  A step changes one entry of a dictionary, for a slug its own *)
(* movie claims: that the histories have seen every claim lets the lemma   *)
(* Others settle all the movies but the one a step is about.               *)
(***************************************************************************)
EXTENDS MovieService, TLAPS

\* What overlaps or is contended now is on record.
Recorded == Overlaps \subseteq overlapped /\ Contests \subseteq contended

\* A Guid that nobody has drawn leads nowhere.
Fresh == \A m \in Movies \ drawn :
    /\ movies[m] = Absent
    /\ \A s \in Slugs : slugToId[s] # m
    /\ ~ InWork(m)

\* The dictionaries agree about m.
Settled(m) ==
    /\ \A s \in Slugs : slugToId[s] = m => movies[m] = s
    /\ movies[m] # Absent => slugToId[movies[m]] = m \/ movies[m] \in contended

\* The only slug that may lead to the movie of the request q.
MayLead(q, s) ==
    /\ pc[q] \notin {"creating", "joining"}
    /\ pc[q] \in {"adding", "storing"} => s = slug[q]
    /\ pc[q] = "found" => s = movies[id[q]]
    /\ pc[q] \in {"removing", "taking", "deleting"} => s = oldSlug[q]

\* The slug that has to lead to the movie of the request q; a movie being
\* deleted has none.
MustLead(q) ==
    /\ pc[q] \in {"adding", "storing"} => slugToId[slug[q]] = id[q] \/ slug[q] \in contended
    /\ pc[q] = "found" /\ movies[id[q]] # Absent =>
            slugToId[movies[id[q]]] = id[q] \/ movies[id[q]] \in contended
    /\ pc[q] = "deleting" => movies[id[q]] = Absent

Underway(q) == (\A s \in Slugs : slugToId[s] = id[q] => MayLead(q, s)) /\ MustLead(q)

Consistent(m) ==
    m \notin overlapped =>
        /\ ~ InWork(m) => Settled(m)
        /\ \A q \in Requests : Working(q) /\ id[q] = m => Underway(q)

\* The inductive invariant.
IInv == TypeOK /\ Recorded /\ Fresh /\ \A m \in Movies : Consistent(m)

-----------------------------------------------------------------------------
\* Init establishes the invariant.
THEOREM InitIInv == Init => IInv
  <1> SUFFICES ASSUME Init PROVE IInv
    OBVIOUS
  <1> USE AbsentAssumption DEF Init
  <1>1. TypeOK
    BY DEF TypeOK, PcValues
  <1>2. \A q \in Requests : ~ Working(q)
    BY DEF Working
  <1>3. Recorded
    BY <1>1, <1>2 DEF Recorded, Overlaps, Contests, Claims, TypeOK
  <1>4. Fresh
    BY <1>1, <1>2 DEF Fresh, InWork, TypeOK
  <1>5. \A m \in Movies : Consistent(m)
    BY <1>1, <1>2 DEF Consistent, Settled, TypeOK
  <1> QED
    BY <1>1, <1>3, <1>4, <1>5 DEF IInv

\* Every variable keeps its type.
LEMMA TypeStep == TypeOK /\ Next => TypeOK'
  <1> SUFFICES ASSUME TypeOK, Next PROVE TypeOK'
    OBVIOUS
  <1> USE AbsentAssumption DEF TypeOK
  <1>0. /\ overlapped' \subseteq Movies
        /\ contended' \subseteq Slugs
    BY DEF Next, Overlaps, Contests
  <1>1. ASSUME NEW q \in Requests, NEW m \in Movies, NEW s \in Slugs, CheckSlug(q, m, s) PROVE TypeOK'
    BY <1>0, <1>1 DEF CheckSlug, Goto, PcValues
  <1>2. ASSUME NEW q \in Requests, NEW m \in Movies, NEW s \in Slugs, FindMovie(q, m, s) PROVE TypeOK'
    BY <1>0, <1>2 DEF FindMovie, Goto, PcValues
  <1>3. ASSUME NEW q \in Requests, NEW m \in Movies, TryGetMovie(q, m) PROVE TypeOK'
    BY <1>0, <1>3 DEF TryGetMovie, Goto, PcValues
  <1>4. ASSUME NEW q \in Requests, AddSlug(q) PROVE TypeOK'
    BY <1>0, <1>4 DEF AddSlug, Goto, PcValues
  <1>5. ASSUME NEW q \in Requests, AddMovie(q) PROVE TypeOK'
    BY <1>0, <1>5 DEF AddMovie, Goto, PcValues
  <1>6. ASSUME NEW q \in Requests, SendCreated(q) PROVE TypeOK'
    BY <1>0, <1>6 DEF SendCreated, Goto, PcValues
  <1>7. ASSUME NEW q \in Requests, SendFails(q) PROVE TypeOK'
    BY <1>0, <1>7 DEF SendFails, Goto, PcValues
  <1>8. ASSUME NEW q \in Requests, ReadOldSlug(q) PROVE TypeOK'
    BY <1>0, <1>8 DEF ReadOldSlug, Goto, PcValues
  <1>9. ASSUME NEW q \in Requests, KeyNotFound(q) PROVE TypeOK'
    BY <1>0, <1>9 DEF KeyNotFound, Goto, PcValues
  <1>10. ASSUME NEW q \in Requests, RemoveOldSlug(q) PROVE TypeOK'
    BY <1>0, <1>10 DEF RemoveOldSlug, Goto, PcValues
  <1>11. ASSUME NEW q \in Requests, ReplaceSlug(q) PROVE TypeOK'
    BY <1>0, <1>11 DEF ReplaceSlug, Goto, PcValues
  <1>12. ASSUME NEW q \in Requests, ReplaceMovie(q) PROVE TypeOK'
    BY <1>0, <1>12 DEF ReplaceMovie, Goto, PcValues
  <1>13. ASSUME NEW q \in Requests, RemoveMovie(q) PROVE TypeOK'
    BY <1>0, <1>13 DEF RemoveMovie, Goto, PcValues
  <1>14. ASSUME NEW q \in Requests, RemoveSlug(q) PROVE TypeOK'
    BY <1>0, <1>14 DEF RemoveSlug, Goto, PcValues
  <1> QED
    BY <1>1, <1>2, <1>3, <1>4, <1>5, <1>6, <1>7, <1>8, <1>9, <1>10, <1>11, <1>12, <1>13, <1>14 DEF Next, Step

-----------------------------------------------------------------------------
\* Two requests at work on one movie: it is on record as overlapped.
LEMMA TwoOverlap ==
    ASSUME Recorded, NEW q \in Requests, NEW r \in Requests, q # r, id[q] \in Movies,
           Working(q), Working(r), id[r] = id[q]
    PROVE  id[q] \in overlapped
  BY DEF Recorded, Overlaps

\* Two movies that claim one slug: it is on record as contended.
LEMMA TwoContend ==
    ASSUME Recorded, NEW m \in Movies, NEW n \in Movies, m # n, NEW s \in Slugs,
           Claims(m, s), Claims(n, s)
    PROVE  s \in contended
  BY DEF Recorded, Contests

\* A step about the movie m, which writes a slug that m claims or leaves the
\* slugs alone, leaves every other movie consistent.
LEMMA Others ==
    ASSUME IInv, NEW m \in Movies, NEW n \in Movies, m # n,
           overlapped \subseteq overlapped', contended \subseteq contended',
           movies'[n] = movies[n],
           \A q \in Requests :
              (Working(q)' /\ id'[q] = n) \/ (Working(q) /\ id[q] = n) =>
                 pc'[q] = pc[q] /\ id'[q] = id[q] /\ slug'[q] = slug[q] /\ oldSlug'[q] = oldSlug[q],
           \A s \in Slugs : slugToId'[s] # slugToId[s] => slugToId'[s] # n /\ Claims(m, s)
    PROVE  Consistent(n)'
  <1> SUFFICES ASSUME n \notin overlapped' PROVE Consistent(n)'
    BY DEF Consistent
  <1> USE DEF IInv
  <1>1. /\ n \notin overlapped
        /\ ~ InWork(n) => Settled(n)
        /\ \A q \in Requests : Working(q) /\ id[q] = n => Underway(q)
    BY DEF Consistent
  <1>2. \A s \in Slugs : slugToId'[s] = n => slugToId[s] = n
    OBVIOUS
  <1>3. \A s \in Slugs : slugToId[s] = n => slugToId'[s] = n \/ s \in contended'
    BY TwoContend DEF Claims
  <1>4. /\ movies[n] \in Slugs \cup {Absent}
        /\ \A q \in Requests : slug[q] \in Slugs
    BY DEF TypeOK
  <1>5. \A q \in Requests : (Working(q) /\ id[q] = n) <=> (Working(q)' /\ id'[q] = n)
    BY DEF Working
  <1>6. InWork(n)' <=> InWork(n)
    BY <1>5 DEF InWork
  <1>7. Settled(n) => Settled(n)'
    BY <1>2, <1>3, <1>4 DEF Settled
  <1>8. ASSUME NEW q \in Requests, Working(q)', id'[q] = n PROVE Underway(q)'
    <2>1. /\ Working(q) /\ id[q] = n /\ Underway(q)
          /\ pc'[q] = pc[q] /\ slug'[q] = slug[q] /\ oldSlug'[q] = oldSlug[q]
      BY <1>1, <1>5, <1>8
    <2>2. ASSUME NEW s \in Slugs, slugToId'[s] = n PROVE MayLead(q, s)'
      BY <2>1, <1>2, <1>8, <2>2 DEF Underway, MayLead
    <2>3. MustLead(q)'
      BY <2>1, <1>3, <1>4, <1>8 DEF Underway, MustLead
    <2> QED
      BY <1>8, <2>2, <2>3 DEF Underway
  <1> QED
    BY <1>1, <1>6, <1>7, <1>8 DEF Consistent

-----------------------------------------------------------------------------
\* A step of Next keeps the invariant.  A step is about one movie, m; Others
\* keeps the rest.
THEOREM StepIInv == IInv /\ Next => IInv'
  <1> SUFFICES ASSUME IInv, Next PROVE IInv'
    OBVIOUS
  <1> USE AbsentAssumption
  <1>1. TypeOK /\ TypeOK'
    BY TypeStep DEF IInv
  <1>2. /\ overlapped \subseteq overlapped' /\ contended \subseteq contended'
        /\ Recorded /\ Recorded'
    BY DEF IInv, Recorded, Next
  <1>3. Fresh /\ \A m \in Movies : Consistent(m)
    BY DEF IInv
  <1>4. ASSUME NEW q \in Requests, NEW m \in Movies, NEW s \in Slugs, CheckSlug(q, m, s)
        PROVE  Fresh' /\ \A n \in Movies : Consistent(n)'
    <2> USE <1>4 DEF CheckSlug, Goto
    <2>1. /\ pc[q] = "idle" /\ pc'[q] = "creating" /\ id'[q] = m /\ slug'[q] = s
          /\ UNCHANGED <<movies, slugToId, oldSlug>>
          /\ \A r \in Requests \ {q} : pc'[r] = pc[r] /\ id'[r] = id[r] /\ slug'[r] = slug[r]
      BY <1>1 DEF TypeOK
    <2>2. Fresh'
      BY <1>3, <2>1 DEF Fresh, InWork, Working
    <2>3. Consistent(m)'
      <3>1. InWork(m)' /\ \A r \in Requests : Working(r)' /\ id'[r] = m => r = q
        BY <1>3, <2>1 DEF Fresh, InWork, Working
      <3>2. Underway(q)'
        BY <1>3, <2>1 DEF Fresh, Underway, MayLead, MustLead
      <3> QED
        BY <3>1, <3>2 DEF Consistent
    <2>4. ASSUME NEW n \in Movies, n # m PROVE Consistent(n)'
      BY <1>2, <2>1, <2>4, Others DEF Working
    <2> QED
      BY <2>2, <2>3, <2>4
  <1>5. ASSUME NEW q \in Requests, NEW m \in Movies, NEW s \in Slugs, FindMovie(q, m, s)
        PROVE  Fresh' /\ \A n \in Movies : Consistent(n)'
    <2> USE <1>5 DEF FindMovie, Goto
    <2>1. /\ pc[q] = "idle" /\ pc'[q] = "found" /\ id'[q] = m /\ movies[m] # Absent
          /\ movies'[m] = movies[m]
          /\ UNCHANGED <<slugToId, drawn>>
          /\ \A n \in Movies \ {m} : movies'[n] = movies[n]
          /\ \A r \in Requests \ {q} : /\ pc'[r] = pc[r] /\ id'[r] = id[r]
                                        /\ slug'[r] = slug[r] /\ oldSlug'[r] = oldSlug[r]
      BY <1>1 DEF TypeOK
    <2>2. Fresh'
      BY <1>3, <2>1 DEF Fresh, InWork, Working
    <2>3. ASSUME m \notin overlapped' PROVE Consistent(m)'
      <3>1. \A r \in Requests : Working(r)' /\ id'[r] = m => r = q
        BY <1>1, <1>2, <2>1, <2>3 DEF Recorded, Overlaps, Working, TypeOK
      <3>2. Working(q)' /\ InWork(m)' /\ ~ InWork(m)
        BY <2>1, <3>1 DEF InWork, Working
      <3>3. Settled(m)
        BY <1>2, <1>3, <2>3, <3>2 DEF Consistent
      <3>4. Underway(q)'
        BY <1>1, <1>2, <2>1, <3>3 DEF Settled, Underway, MayLead, MustLead, TypeOK
      <3> QED
        BY <3>1, <3>2, <3>4 DEF Consistent
    <2>4. ASSUME NEW n \in Movies, n # m PROVE Consistent(n)'
      BY <1>2, <2>1, <2>4, Others DEF Working
    <2> QED
      BY <2>2, <2>3, <2>4 DEF Consistent
  <1>6. ASSUME NEW q \in Requests, NEW m \in Movies, TryGetMovie(q, m)
        PROVE  Fresh' /\ \A n \in Movies : Consistent(n)'
    <2> USE <1>6 DEF TryGetMovie, Goto
    <2>1. /\ pc[q] = "idle" /\ pc'[q] = "taking" /\ id'[q] = m /\ movies[m] # Absent
          /\ movies'[m] = movies[m] /\ oldSlug'[q] = movies[m]
          /\ UNCHANGED <<slugToId, drawn>>
          /\ \A n \in Movies \ {m} : movies'[n] = movies[n]
          /\ \A r \in Requests \ {q} : /\ pc'[r] = pc[r] /\ id'[r] = id[r]
                                        /\ slug'[r] = slug[r] /\ oldSlug'[r] = oldSlug[r]
      BY <1>1 DEF TypeOK
    <2>2. Fresh'
      BY <1>3, <2>1 DEF Fresh, InWork, Working
    <2>3. ASSUME m \notin overlapped' PROVE Consistent(m)'
      <3>1. \A r \in Requests : Working(r)' /\ id'[r] = m => r = q
        BY <1>1, <1>2, <2>1, <2>3 DEF Recorded, Overlaps, Working, TypeOK
      <3>2. Working(q)' /\ InWork(m)' /\ ~ InWork(m)
        BY <2>1, <3>1 DEF InWork, Working
      <3>3. Settled(m)
        BY <1>2, <1>3, <2>3, <3>2 DEF Consistent
      <3>4. Underway(q)'
        BY <1>1, <1>2, <2>1, <3>3 DEF Settled, Underway, MayLead, MustLead, TypeOK
      <3> QED
        BY <3>1, <3>2, <3>4 DEF Consistent
    <2>4. ASSUME NEW n \in Movies, n # m PROVE Consistent(n)'
      BY <1>2, <2>1, <2>4, Others DEF Working
    <2> QED
      BY <2>2, <2>3, <2>4 DEF Consistent
  <1>7. ASSUME NEW q \in Requests, AddSlug(q)
        PROVE  Fresh' /\ \A n \in Movies : Consistent(n)'
    <2> USE <1>7 DEF AddSlug, Goto
    <2>1. /\ pc[q] = "creating" /\ pc'[q] = "adding"
          /\ id[q] \in Movies /\ Working(q)
          /\ UNCHANGED <<drawn, id, slug>>
          /\ slugToId' = [slugToId EXCEPT ![slug[q]] = id[q]] /\ UNCHANGED <<movies, oldSlug>>
          /\ \A r \in Requests \ {q} : pc'[r] = pc[r] /\ oldSlug'[r] = oldSlug[r]
      BY <1>1 DEF TypeOK, Working
    <2>2. Fresh'
      BY <1>1, <1>3, <2>1 DEF Fresh, InWork, Working, TypeOK
    <2>3. ASSUME id[q] \notin overlapped' PROVE Consistent(id[q])'
      <3>1. \A r \in Requests : Working(r) /\ id[r] = id[q] => r = q
        BY <1>2, <2>1, <2>3, TwoOverlap
      <3>2. \A r \in Requests : Working(r)' /\ id'[r] = id[q] => r = q
        BY <2>1, <3>1 DEF Working
      <3>3. Underway(q)
        BY <1>2, <1>3, <2>1, <2>3 DEF Consistent, Working
      <3>4. InWork(id[q])' /\ Underway(q)'
        BY <1>1, <1>2, <2>1, <3>3 DEF InWork, Working, Underway, MayLead, MustLead, TypeOK
      <3> QED
        BY <2>1, <3>2, <3>4 DEF Consistent
    <2>4. ASSUME NEW n \in Movies, n # id[q] PROVE Consistent(n)'
      BY <1>1, <1>2, <2>1, <2>4, Others DEF Working, Claims, TypeOK
    <2> QED
      BY <2>1, <2>2, <2>3, <2>4 DEF Consistent
  <1>8. ASSUME NEW q \in Requests, AddMovie(q)
        PROVE  Fresh' /\ \A n \in Movies : Consistent(n)'
    <2> USE <1>8 DEF AddMovie, Goto
    <2>1. /\ pc[q] = "adding" /\ pc'[q] = "sending"
          /\ id[q] \in Movies /\ Working(q)
          /\ UNCHANGED <<drawn, id, slug>>
          /\ movies' = [movies EXCEPT ![id[q]] = slug[q]] /\ UNCHANGED <<slugToId, oldSlug>>
          /\ \A r \in Requests \ {q} : pc'[r] = pc[r] /\ oldSlug'[r] = oldSlug[r]
      BY <1>1 DEF TypeOK, Working
    <2>2. Fresh'
      BY <1>1, <1>3, <2>1 DEF Fresh, InWork, Working, TypeOK
    <2>3. ASSUME id[q] \notin overlapped' PROVE Consistent(id[q])'
      <3>1. \A r \in Requests : Working(r) /\ id[r] = id[q] => r = q
        BY <1>2, <2>1, <2>3, TwoOverlap
      <3>2. \A r \in Requests : Working(r)' /\ id'[r] = id[q] => r = q
        BY <2>1, <3>1 DEF Working
      <3>3. Underway(q)
        BY <1>2, <1>3, <2>1, <2>3 DEF Consistent, Working
      <3>4. ~ InWork(id[q])'
        BY <2>1, <3>2 DEF InWork, Working
      <3>5. Settled(id[q])'
        BY <1>1, <1>2, <2>1, <3>3 DEF Settled, Underway, MayLead, MustLead, TypeOK
      <3> QED
        BY <3>2, <3>4, <3>5, <2>1 DEF Consistent, InWork
    <2>4. ASSUME NEW n \in Movies, n # id[q] PROVE Consistent(n)'
      BY <1>1, <1>2, <2>1, <2>4, Others DEF Working, Claims, TypeOK
    <2> QED
      BY <2>1, <2>2, <2>3, <2>4 DEF Consistent
  <1>9. ASSUME NEW q \in Requests, SendCreated(q)
        PROVE  Fresh' /\ \A n \in Movies : Consistent(n)'
    <2>1. /\ pc[q] = "sending" /\ pc'[q] = "idle"
          /\ UNCHANGED <<movies, slugToId, drawn, id, slug, oldSlug>>
          /\ \A r \in Requests \ {q} : pc'[r] = pc[r]
      BY <1>1, <1>9 DEF SendCreated, Goto, TypeOK
    <2>2. \A r \in Requests : Working(r)' <=> Working(r)
      BY <2>1 DEF Working
    <2>3. \A n \in Movies : InWork(n)' <=> InWork(n)
      BY <2>1, <2>2 DEF InWork
    <2>4. Fresh'
      BY <1>3, <2>1, <2>3 DEF Fresh
    <2>5. \A n \in Movies : Settled(n) => Settled(n)'
      BY <1>2, <2>1 DEF Settled
    <2>6. \A r \in Requests : Working(r) /\ Underway(r) => Underway(r)'
      BY <1>2, <2>1 DEF Underway, MayLead, MustLead, Working
    <2> QED
      BY <1>2, <1>3, <2>1, <2>2, <2>3, <2>4, <2>5, <2>6 DEF Consistent
  <1>10. ASSUME NEW q \in Requests, SendFails(q)
        PROVE  Fresh' /\ \A n \in Movies : Consistent(n)'
    <2>1. /\ pc[q] = "sending" /\ pc'[q] = "idle"
          /\ UNCHANGED <<movies, slugToId, drawn, id, slug, oldSlug>>
          /\ \A r \in Requests \ {q} : pc'[r] = pc[r]
      BY <1>1, <1>10 DEF SendFails, Goto, TypeOK
    <2>2. \A r \in Requests : Working(r)' <=> Working(r)
      BY <2>1 DEF Working
    <2>3. \A n \in Movies : InWork(n)' <=> InWork(n)
      BY <2>1, <2>2 DEF InWork
    <2>4. Fresh'
      BY <1>3, <2>1, <2>3 DEF Fresh
    <2>5. \A n \in Movies : Settled(n) => Settled(n)'
      BY <1>2, <2>1 DEF Settled
    <2>6. \A r \in Requests : Working(r) /\ Underway(r) => Underway(r)'
      BY <1>2, <2>1 DEF Underway, MayLead, MustLead, Working
    <2> QED
      BY <1>2, <1>3, <2>1, <2>2, <2>3, <2>4, <2>5, <2>6 DEF Consistent
  <1>11. ASSUME NEW q \in Requests, ReadOldSlug(q)
        PROVE  Fresh' /\ \A n \in Movies : Consistent(n)'
    <2> USE <1>11 DEF ReadOldSlug, Goto
    <2>1. /\ pc[q] = "found" /\ pc'[q] = "removing"
          /\ id[q] \in Movies /\ Working(q)
          /\ UNCHANGED <<drawn, id, slug>>
          /\ oldSlug'[q] = movies[id[q]] /\ UNCHANGED <<movies, slugToId>>
          /\ \A r \in Requests \ {q} : pc'[r] = pc[r] /\ oldSlug'[r] = oldSlug[r]
      BY <1>1 DEF TypeOK, Working
    <2>2. Fresh'
      BY <1>1, <1>3, <2>1 DEF Fresh, InWork, Working, TypeOK
    <2>3. ASSUME id[q] \notin overlapped' PROVE Consistent(id[q])'
      <3>1. \A r \in Requests : Working(r) /\ id[r] = id[q] => r = q
        BY <1>2, <2>1, <2>3, TwoOverlap
      <3>2. \A r \in Requests : Working(r)' /\ id'[r] = id[q] => r = q
        BY <2>1, <3>1 DEF Working
      <3>3. Underway(q)
        BY <1>2, <1>3, <2>1, <2>3 DEF Consistent, Working
      <3>4. InWork(id[q])' /\ Underway(q)'
        BY <1>1, <1>2, <2>1, <3>3 DEF InWork, Working, Underway, MayLead, MustLead, TypeOK
      <3> QED
        BY <2>1, <3>2, <3>4 DEF Consistent
    <2>4. ASSUME NEW n \in Movies, n # id[q] PROVE Consistent(n)'
      BY <1>1, <1>2, <2>1, <2>4, Others DEF Working, Claims, TypeOK
    <2> QED
      BY <2>1, <2>2, <2>3, <2>4 DEF Consistent
  <1>12. ASSUME NEW q \in Requests, KeyNotFound(q)
        PROVE  Fresh' /\ \A n \in Movies : Consistent(n)'
    <2> USE <1>12 DEF KeyNotFound, Goto
    <2>1. /\ pc[q] = "found" /\ pc'[q] = "idle"
          /\ id[q] \in Movies /\ Working(q)
          /\ UNCHANGED <<drawn, id, slug>>
          /\ movies[id[q]] = Absent /\ UNCHANGED <<movies, slugToId, oldSlug>>
          /\ \A r \in Requests \ {q} : pc'[r] = pc[r] /\ oldSlug'[r] = oldSlug[r]
      BY <1>1 DEF TypeOK, Working
    <2>2. Fresh'
      BY <1>1, <1>3, <2>1 DEF Fresh, InWork, Working, TypeOK
    <2>3. ASSUME id[q] \notin overlapped' PROVE Consistent(id[q])'
      <3>1. \A r \in Requests : Working(r) /\ id[r] = id[q] => r = q
        BY <1>2, <2>1, <2>3, TwoOverlap
      <3>2. \A r \in Requests : Working(r)' /\ id'[r] = id[q] => r = q
        BY <2>1, <3>1 DEF Working
      <3>3. Underway(q)
        BY <1>2, <1>3, <2>1, <2>3 DEF Consistent, Working
      <3>4. ~ InWork(id[q])'
        BY <2>1, <3>2 DEF InWork, Working
      <3>5. Settled(id[q])'
        BY <1>1, <1>2, <2>1, <3>3 DEF Settled, Underway, MayLead, MustLead, TypeOK
      <3> QED
        BY <3>2, <3>4, <3>5, <2>1 DEF Consistent, InWork
    <2>4. ASSUME NEW n \in Movies, n # id[q] PROVE Consistent(n)'
      BY <1>1, <1>2, <2>1, <2>4, Others DEF Working, Claims, TypeOK
    <2> QED
      BY <2>1, <2>2, <2>3, <2>4 DEF Consistent
  <1>13. ASSUME NEW q \in Requests, RemoveOldSlug(q)
        PROVE  Fresh' /\ \A n \in Movies : Consistent(n)'
    <2> USE <1>13 DEF RemoveOldSlug, Goto
    <2>1. /\ pc[q] = "removing" /\ pc'[q] = "joining"
          /\ id[q] \in Movies /\ Working(q)
          /\ UNCHANGED <<drawn, id, slug>>
          /\ slugToId' = [slugToId EXCEPT ![oldSlug[q]] = Absent] /\ UNCHANGED <<movies, oldSlug>>
          /\ \A r \in Requests \ {q} : pc'[r] = pc[r] /\ oldSlug'[r] = oldSlug[r]
      BY <1>1 DEF TypeOK, Working
    <2>2. Fresh'
      BY <1>1, <1>3, <2>1 DEF Fresh, InWork, Working, TypeOK
    <2>3. ASSUME id[q] \notin overlapped' PROVE Consistent(id[q])'
      <3>1. \A r \in Requests : Working(r) /\ id[r] = id[q] => r = q
        BY <1>2, <2>1, <2>3, TwoOverlap
      <3>2. \A r \in Requests : Working(r)' /\ id'[r] = id[q] => r = q
        BY <2>1, <3>1 DEF Working
      <3>3. Underway(q)
        BY <1>2, <1>3, <2>1, <2>3 DEF Consistent, Working
      <3>4. InWork(id[q])' /\ Underway(q)'
        BY <1>1, <1>2, <2>1, <3>3 DEF InWork, Working, Underway, MayLead, MustLead, TypeOK
      <3> QED
        BY <2>1, <3>2, <3>4 DEF Consistent
    <2>4. ASSUME NEW n \in Movies, n # id[q] PROVE Consistent(n)'
      BY <1>1, <1>2, <2>1, <2>4, Others DEF Working, Claims, TypeOK
    <2> QED
      BY <2>1, <2>2, <2>3, <2>4 DEF Consistent
  <1>14. ASSUME NEW q \in Requests, ReplaceSlug(q)
        PROVE  Fresh' /\ \A n \in Movies : Consistent(n)'
    <2> USE <1>14 DEF ReplaceSlug, Goto
    <2>1. /\ pc[q] = "joining" /\ pc'[q] = "storing"
          /\ id[q] \in Movies /\ Working(q)
          /\ UNCHANGED <<drawn, id, slug>>
          /\ slugToId' = [slugToId EXCEPT ![slug[q]] = id[q]] /\ UNCHANGED <<movies, oldSlug>>
          /\ \A r \in Requests \ {q} : pc'[r] = pc[r] /\ oldSlug'[r] = oldSlug[r]
      BY <1>1 DEF TypeOK, Working
    <2>2. Fresh'
      BY <1>1, <1>3, <2>1 DEF Fresh, InWork, Working, TypeOK
    <2>3. ASSUME id[q] \notin overlapped' PROVE Consistent(id[q])'
      <3>1. \A r \in Requests : Working(r) /\ id[r] = id[q] => r = q
        BY <1>2, <2>1, <2>3, TwoOverlap
      <3>2. \A r \in Requests : Working(r)' /\ id'[r] = id[q] => r = q
        BY <2>1, <3>1 DEF Working
      <3>3. Underway(q)
        BY <1>2, <1>3, <2>1, <2>3 DEF Consistent, Working
      <3>4. InWork(id[q])' /\ Underway(q)'
        BY <1>1, <1>2, <2>1, <3>3 DEF InWork, Working, Underway, MayLead, MustLead, TypeOK
      <3> QED
        BY <2>1, <3>2, <3>4 DEF Consistent
    <2>4. ASSUME NEW n \in Movies, n # id[q] PROVE Consistent(n)'
      BY <1>1, <1>2, <2>1, <2>4, Others DEF Working, Claims, TypeOK
    <2> QED
      BY <2>1, <2>2, <2>3, <2>4 DEF Consistent
  <1>15. ASSUME NEW q \in Requests, ReplaceMovie(q)
        PROVE  Fresh' /\ \A n \in Movies : Consistent(n)'
    <2> USE <1>15 DEF ReplaceMovie, Goto
    <2>1. /\ pc[q] = "storing" /\ pc'[q] = "idle"
          /\ id[q] \in Movies /\ Working(q)
          /\ UNCHANGED <<drawn, id, slug>>
          /\ movies' = [movies EXCEPT ![id[q]] = slug[q]] /\ UNCHANGED <<slugToId, oldSlug>>
          /\ \A r \in Requests \ {q} : pc'[r] = pc[r] /\ oldSlug'[r] = oldSlug[r]
      BY <1>1 DEF TypeOK, Working
    <2>2. Fresh'
      BY <1>1, <1>3, <2>1 DEF Fresh, InWork, Working, TypeOK
    <2>3. ASSUME id[q] \notin overlapped' PROVE Consistent(id[q])'
      <3>1. \A r \in Requests : Working(r) /\ id[r] = id[q] => r = q
        BY <1>2, <2>1, <2>3, TwoOverlap
      <3>2. \A r \in Requests : Working(r)' /\ id'[r] = id[q] => r = q
        BY <2>1, <3>1 DEF Working
      <3>3. Underway(q)
        BY <1>2, <1>3, <2>1, <2>3 DEF Consistent, Working
      <3>4. ~ InWork(id[q])'
        BY <2>1, <3>2 DEF InWork, Working
      <3>5. Settled(id[q])'
        BY <1>1, <1>2, <2>1, <3>3 DEF Settled, Underway, MayLead, MustLead, TypeOK
      <3> QED
        BY <3>2, <3>4, <3>5, <2>1 DEF Consistent, InWork
    <2>4. ASSUME NEW n \in Movies, n # id[q] PROVE Consistent(n)'
      BY <1>1, <1>2, <2>1, <2>4, Others DEF Working, Claims, TypeOK
    <2> QED
      BY <2>1, <2>2, <2>3, <2>4 DEF Consistent
  <1>16. ASSUME NEW q \in Requests, RemoveMovie(q)
        PROVE  Fresh' /\ \A n \in Movies : Consistent(n)'
    <2> USE <1>16 DEF RemoveMovie, Goto
    <2>1. /\ pc[q] = "taking" /\ pc'[q] = "deleting"
          /\ id[q] \in Movies /\ Working(q)
          /\ UNCHANGED <<drawn, id, slug>>
          /\ movies' = [movies EXCEPT ![id[q]] = Absent] /\ UNCHANGED <<slugToId, oldSlug>>
          /\ \A r \in Requests \ {q} : pc'[r] = pc[r] /\ oldSlug'[r] = oldSlug[r]
      BY <1>1 DEF TypeOK, Working
    <2>2. Fresh'
      BY <1>1, <1>3, <2>1 DEF Fresh, InWork, Working, TypeOK
    <2>3. ASSUME id[q] \notin overlapped' PROVE Consistent(id[q])'
      <3>1. \A r \in Requests : Working(r) /\ id[r] = id[q] => r = q
        BY <1>2, <2>1, <2>3, TwoOverlap
      <3>2. \A r \in Requests : Working(r)' /\ id'[r] = id[q] => r = q
        BY <2>1, <3>1 DEF Working
      <3>3. Underway(q)
        BY <1>2, <1>3, <2>1, <2>3 DEF Consistent, Working
      <3>4. InWork(id[q])' /\ Underway(q)'
        BY <1>1, <1>2, <2>1, <3>3 DEF InWork, Working, Underway, MayLead, MustLead, TypeOK
      <3> QED
        BY <2>1, <3>2, <3>4 DEF Consistent
    <2>4. ASSUME NEW n \in Movies, n # id[q] PROVE Consistent(n)'
      BY <1>1, <1>2, <2>1, <2>4, Others DEF Working, Claims, TypeOK
    <2> QED
      BY <2>1, <2>2, <2>3, <2>4 DEF Consistent
  <1>17. ASSUME NEW q \in Requests, RemoveSlug(q)
        PROVE  Fresh' /\ \A n \in Movies : Consistent(n)'
    <2> USE <1>17 DEF RemoveSlug, Goto
    <2>1. /\ pc[q] = "deleting" /\ pc'[q] = "idle"
          /\ id[q] \in Movies /\ Working(q)
          /\ UNCHANGED <<drawn, id, slug>>
          /\ slugToId' = [slugToId EXCEPT ![oldSlug[q]] = Absent] /\ UNCHANGED <<movies, oldSlug>>
          /\ \A r \in Requests \ {q} : pc'[r] = pc[r] /\ oldSlug'[r] = oldSlug[r]
      BY <1>1 DEF TypeOK, Working
    <2>2. Fresh'
      BY <1>1, <1>3, <2>1 DEF Fresh, InWork, Working, TypeOK
    <2>3. ASSUME id[q] \notin overlapped' PROVE Consistent(id[q])'
      <3>1. \A r \in Requests : Working(r) /\ id[r] = id[q] => r = q
        BY <1>2, <2>1, <2>3, TwoOverlap
      <3>2. \A r \in Requests : Working(r)' /\ id'[r] = id[q] => r = q
        BY <2>1, <3>1 DEF Working
      <3>3. Underway(q)
        BY <1>2, <1>3, <2>1, <2>3 DEF Consistent, Working
      <3>4. ~ InWork(id[q])'
        BY <2>1, <3>2 DEF InWork, Working
      <3>5. Settled(id[q])'
        BY <1>1, <1>2, <2>1, <3>3 DEF Settled, Underway, MayLead, MustLead, TypeOK
      <3> QED
        BY <3>2, <3>4, <3>5, <2>1 DEF Consistent, InWork
    <2>4. ASSUME NEW n \in Movies, n # id[q] PROVE Consistent(n)'
      BY <1>1, <1>2, <2>1, <2>4, Others DEF Working, Claims, TypeOK
    <2> QED
      BY <2>1, <2>2, <2>3, <2>4 DEF Consistent
  <1> QED
    <2>1. Fresh' /\ \A n \in Movies : Consistent(n)'
      BY <1>4, <1>5, <1>6, <1>7, <1>8, <1>9, <1>10, <1>11, <1>12, <1>13, <1>14, <1>15, <1>16, <1>17 DEF Next, Step
    <2> QED
      BY <1>1, <1>2, <2>1 DEF IInv

-----------------------------------------------------------------------------
\* The invariant holds in every reachable state.
THEOREM Invariance == Spec => []IInv
  <1>1. IInv /\ [Next]_vars => IInv'
    <2>1. ASSUME IInv, UNCHANGED vars PROVE IInv'
      <3>1. UNCHANGED <<movies, slugToId, drawn, pc, id, slug, oldSlug, queue, overlapped, contended>>
        BY <2>1 DEF vars
      <3>2. TypeOK'
        BY <2>1, <3>1 DEF IInv, TypeOK
      <3>3. Recorded'
        BY <2>1, <3>1 DEF IInv, Recorded, Overlaps, Contests, Claims, Working
      <3>4. Fresh'
        BY <2>1, <3>1 DEF IInv, Fresh, InWork, Working
      <3>5. \A m \in Movies : Consistent(m)'
        <4> SUFFICES ASSUME NEW m \in Movies PROVE Consistent(m)'
          OBVIOUS
        <4>1. Consistent(m)
          BY <2>1 DEF IInv
        <4> QED
          BY <3>1, <4>1 DEF Consistent, Settled, Underway, MayLead, MustLead, InWork, Working
      <3> QED
        BY <3>2, <3>3, <3>4, <3>5 DEF IInv
    <2> QED
      BY StepIInv, <2>1
  <1> QED
    BY InitIInv, <1>1, PTL DEF Spec

\* The variables of MovieService keep their types.
THEOREM TypeCorrect == Spec => []TypeOK
  BY Invariance, PTL DEF IInv

\* No slug is left behind to lead to the wrong movie: only requests that
\* overlap on one movie can do that (SlugsLeadRight).
THEOREM SlugsLeadRightHolds == Spec => []SlugsLeadRight
  <1>1. IInv => SlugsLeadRight
    BY DEF IInv, Consistent, Settled, SlugsLeadRight
  <1> QED
    BY Invariance, <1>1, PTL

\* A movie that is not found by its slug has shared it, or requests have
\* overlapped on it (MoviesAreFound).
THEOREM MoviesAreFoundHolds == Spec => []MoviesAreFound
  <1>1. IInv => MoviesAreFound
    BY DEF IInv, Consistent, Settled, MoviesAreFound
  <1> QED
    BY Invariance, <1>1, PTL
=============================================================================
