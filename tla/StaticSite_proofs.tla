-------------------------- MODULE StaticSite_proofs --------------------------
(***************************************************************************)
(* That the files of a page are of one minute, for every length of minutes *)
(* and seconds, every number of deployments and every time.                *)
(***************************************************************************)
EXTENDS StaticSite, TLAPS

\* The types, and where the clock is in its minute.
Types ==
  /\ clock \in Int /\ ends \in Int /\ version \in Version /\ since \in Int
  /\ replaced \in [Version -> Int \cup {Nil}]
  /\ cache \in [File -> [version: Version, etag: Int, expires: Int] \cup {Nil}]
  /\ got \in [File -> Version \cup {Nil}]
  /\ ends - Minute <= clock /\ clock < ends /\ Minute <= ends

\* A copy was asked for in this minute, the one before or an earlier one, expires at
\* most half a second after that minute, and is of a version that was deployed in it.
CopyOK(c) ==
  /\ c.etag = ends \/ c.etag = ends - Minute \/ c.etag <= ends - 2 * Minute
  /\ 2 * (c.expires - c.etag) <= Second
  /\ Lasted(c.version, c.etag - Minute)
CopiesOK == \A f \in File : cache[f] # Nil => CopyOK(cache[f])

\* A page was asked for more than half a second into this minute, or claims less.
SinceOK ==
  /\ since <= ends - Minute
  /\ phase \in Busy => \/ since <= ends - 2 * Minute
                       \/ 2 * (clock - (ends - Minute)) >= Second

IInv == Types /\ CopiesOK /\ SinceOK /\ PageOfOneMinute
-----------------------------------------------------------------------------
\* What lasted from a time on lasted from any earlier time on.
LEMMA LastedEarlier ==
  ASSUME Types, NEW v \in Version, NEW t \in Int, NEW u \in Int, u <= t, Lasted(v, t)
  PROVE  Lasted(v, u)
  BY SiteAssumption DEF Types, Lasted

\* A copy that has not expired is of a version that the page may show.
LEMMA FreshCopy ==
  ASSUME IInv, NEW f \in File, cache[f] # Nil, clock < cache[f].expires, phase \in Busy
  PROVE  Lasted(cache[f].version, since)
<1> DEFINE c == cache[f]
<1>1. c \in [version: Version, etag: Int, expires: Int] /\ CopyOK(c)
  BY DEF IInv, Types, CopiesOK
<1>2. Minute \in Int /\ Second \in Int /\ Minute >= Second /\ Second > 0
  BY SiteAssumption
<1>3. c.etag # ends => 2 * (clock - (ends - Minute)) < Second /\ c.etag = ends - Minute
  BY <1>1, <1>2 DEF IInv, Types, CopyOK
<1>4. since <= c.etag - Minute
  BY <1>1, <1>2, <1>3 DEF IInv, Types, SinceOK
<1> QED
  BY <1>1, <1>2, <1>4, LastedEarlier DEF IInv, Types, CopyOK

\* What the server answers is a sound copy of a version that the page may show.
LEMMA AnswerOK ==
  ASSUME IInv, NEW f \in File, NEW c \in Answers(f)
  PROVE  /\ c \in [version: Version, etag: Int, expires: Int] /\ CopyOK(c)
         /\ Lasted(c.version, since)
<1>1. /\ c \in [version: Version, etag: {ends}, expires: {clock + m : m \in MaxAges}]
      /\ Answered(f, c)
  BY DEF Answers
<1>2. PICK m \in MaxAges : c.expires = clock + m
  BY <1>1
<1>3. Minute \in Int /\ Second \in Int
  BY SiteAssumption
<1>4. m \in Int /\ 2 * (clock + m - ends) <= Second
  BY <1>3 DEF MaxAges, IInv, Types
<1>5. c \in [version: Version, etag: Int, expires: Int] /\ c.etag = ends
  BY <1>1, <1>2, <1>4 DEF IInv, Types
<1>6. Lasted(c.version, ends - Minute)
  <2>1. CASE cache[f] # Nil /\ cache[f].etag = ends
    BY <1>1, <2>1 DEF Answered, IInv, CopiesOK, CopyOK
  <2>2. CASE ~(cache[f] # Nil /\ cache[f].etag = ends)
    BY <1>1, <2>2 DEF Answered, Lasted
  <2> QED BY <2>1, <2>2
<1>7. CopyOK(c)
  BY <1>2, <1>3, <1>4, <1>5, <1>6 DEF CopyOK, IInv, Types
<1>8. Lasted(c.version, since)
  BY <1>3, <1>5, <1>6, LastedEarlier DEF IInv, Types, SinceOK
<1> QED BY <1>5, <1>7, <1>8
-----------------------------------------------------------------------------
\* A page that ends shows nothing any more.
LEMMA EndOK ==
  ASSUME IInv, NEW p \in Phase \ Busy, End(p), UNCHANGED <<clock, ends, server>>,
         cache' \in [File -> [version: Version, etag: Int, expires: Int] \cup {Nil}], CopiesOK'
  PROVE  IInv'
<1>1. Types'
  BY SiteAssumption DEF IInv, Types, End, server, NoCopies
<1>2. SinceOK'
  BY SiteAssumption DEF IInv, Types, End, SinceOK, server
<1>3. PageOfOneMinute'
  BY DEF End, PageOfOneMinute, NoCopies
<1> QED BY <1>1, <1>2, <1>3 DEF IInv

\* Receiving a file that the page may show, or none, keeps everything in order.
LEMMA ReceiveOK ==
  ASSUME IInv, NEW f \in File, NEW v \in Version \cup {Nil}, Receive(f, v),
         v # Nil => Lasted(v, since), phase \in Busy,
         cache' \in [File -> [version: Version, etag: Int, expires: Int] \cup {Nil}], CopiesOK'
  PROVE  IInv'
<1>1. CASE f = Page /\ v = Nil
  BY <1>1, EndOK DEF Receive, Phase, Busy
<1>2. CASE ~(f = Page /\ v = Nil)
  <2>1. /\ got' = [got EXCEPT ![f] = v] /\ UNCHANGED since
        /\ UNCHANGED <<clock, ends, version, replaced>>
    BY <1>2 DEF Receive, server
  <2>2. Types'
    BY <2>1 DEF IInv, Types
  <2>3. SinceOK'
    BY <2>1 DEF IInv, SinceOK, Types
  <2>4. PageOfOneMinute'
    BY <2>1 DEF IInv, Types, PageOfOneMinute, Lasted
  <2> QED BY <2>2, <2>3, <2>4 DEF IInv
<1> QED BY <1>1, <1>2

\* Copies stay in order while the clock and the server stand still.
LEMMA SameCopies ==
  ASSUME IInv, UNCHANGED <<clock, ends, server, cache>>
  PROVE  CopiesOK' /\ cache' \in [File -> [version: Version, etag: Int, expires: Int] \cup {Nil}]
  BY DEF IInv, Types, CopiesOK, CopyOK, Lasted, server

LEMMA FilesAreFiles == ASSUME phase = "loading", next \in 1..Len(Files) PROVE Files[next] \in File
  BY DEF Files, File
-----------------------------------------------------------------------------
\* Type correctness: the part of it that says which file comes next.
Position ==
  /\ next \in 1..(Len(Files) + 1) /\ phase \in Phase
  /\ phase = "loading" => next \in 1..Len(Files)

LEMMA Positioned == Spec => []Position
<1>1. Init => Position
  BY DEF Init, Position, Files, Phase
<1>2. Position /\ [Next]_vars => Position'
  <2> SUFFICES ASSUME Position, [Next]_vars PROVE Position'
    OBVIOUS
  <2>1. Len(Files) = 4
    BY DEF Files
  <2>2. CASE Visit
    BY <2>1, <2>2 DEF Visit, Position, Phase
  <2>3. ASSUME NEW f, NEW v, phase = "loading", Receive(f, v) PROVE Position'
    BY <2>1, <2>3 DEF Receive, End, Position, Phase
  <2>4. CASE LoadCached \/ LoadFetched \/ LoadFailed
    BY <2>3, <2>4 DEF LoadCached, LoadFetched, LoadFailed
  <2>5. CASE Onload \/ LoadSpec
    BY <2>1, <2>5 DEF Onload, LoadSpec, End, Position, Phase
  <2>6. CASE Tick \/ Deploy \/ UNCHANGED vars
    BY <2>6 DEF Tick, Deploy, vars, page, Position
  <2> QED BY <2>2, <2>4, <2>5, <2>6 DEF Next, Load
<1> QED BY <1>1, <1>2, PTL DEF Spec
-----------------------------------------------------------------------------
LEMMA InitOK == Init => IInv
  BY SiteAssumption DEF Init, IInv, Types, CopiesOK, SinceOK, PageOfOneMinute, NoCopies, Version, Busy

LEMMA VisitOK == ASSUME IInv, Visit PROVE IInv'
<1>1. CopiesOK' /\ Types'
  BY SiteAssumption, SameCopies DEF Visit, IInv, Types, Since, NoCopies, server
<1>2. SinceOK'
  BY SiteAssumption DEF Visit, IInv, Types, Since, SinceOK
<1>3. PageOfOneMinute'
  BY DEF Visit, PageOfOneMinute, NoCopies
<1> QED BY <1>1, <1>2, <1>3 DEF IInv

LEMMA LoadFilesOK ==
  ASSUME IInv, Position, LoadCached \/ LoadFetched \/ LoadFailed PROVE IInv'
<1> DEFINE f == Files[next]
<1>1. phase = "loading" /\ phase \in Busy /\ f \in File
  BY FilesAreFiles DEF Position, LoadCached, LoadFetched, LoadFailed, Busy
<1>2. CASE LoadCached
  <2>1. cache[f] # Nil /\ clock < cache[f].expires /\ Receive(f, cache[f].version) /\ UNCHANGED cache
    BY <1>2 DEF LoadCached
  <2>2. UNCHANGED <<clock, ends, server>>
    BY <2>1 DEF Receive
  <2>3. cache[f].version \in Version
    BY <1>1, <2>1 DEF IInv, Types
  <2> QED BY <1>1, <2>1, <2>2, <2>3, FreshCopy, SameCopies, ReceiveOK
<1>3. CASE LoadFetched
  <2>1. PICK c \in Answers(f) : cache' = [cache EXCEPT ![f] = c] /\ Receive(f, c.version)
    BY <1>3 DEF LoadFetched
  <2>2. UNCHANGED <<clock, ends, server>>
    BY <2>1 DEF Receive
  <2>3. /\ c \in [version: Version, etag: Int, expires: Int] /\ CopyOK(c)
        /\ Lasted(c.version, since)
    BY <1>1, AnswerOK
  <2>4. cache' \in [File -> [version: Version, etag: Int, expires: Int] \cup {Nil}]
    BY <1>1, <2>1, <2>3 DEF IInv, Types
  <2>5. CopiesOK'
    BY <1>1, <2>1, <2>2, <2>3 DEF IInv, Types, CopiesOK, CopyOK, Lasted, server
  <2> QED BY <1>1, <2>1, <2>3, <2>4, <2>5, ReceiveOK
<1>4. CASE LoadFailed
  <2>1. Receive(f, Nil) /\ UNCHANGED cache
    BY <1>4 DEF LoadFailed
  <2>2. UNCHANGED <<clock, ends, server>>
    BY <2>1 DEF Receive
  <2> QED BY <1>1, <2>1, <2>2, SameCopies, ReceiveOK
<1> QED BY <1>2, <1>3, <1>4

LEMMA ScriptsOK == ASSUME IInv, Onload \/ LoadSpec PROVE IInv'
<1>1. UNCHANGED <<clock, ends, server, cache>>
  BY DEF Onload, LoadSpec
<1>2. ASSUME NEW p \in Phase \ Busy, End(p) PROVE IInv'
  BY <1>1, <1>2, SameCopies, EndOK
<1>3. CASE phase = "onload" /\ UNCHANGED <<got, since>>
  <2>1. CopiesOK' /\ Types'
    BY <1>1, <1>3, SameCopies DEF IInv, Types, server
  <2>2. SinceOK'
    BY <1>1, <1>3 DEF IInv, SinceOK, Busy
  <2>3. PageOfOneMinute'
    BY <1>1, <1>3 DEF IInv, PageOfOneMinute, Lasted, server
  <2> QED BY <2>1, <2>2, <2>3 DEF IInv
<1> QED BY <1>2, <1>3 DEF Onload, LoadSpec, Phase, Busy

\* The clock only goes on, and when a minute ends its copies become those of the last.
LEMMA TickOK == ASSUME IInv, Tick PROVE IInv'
<1>1. UNCHANGED <<version, replaced, cache, phase, got, since>> /\ clock' = clock + 1
  BY DEF Tick, server, page
<1>2. ends' = ends \/ (ends' = ends + Minute /\ clock' = ends)
  BY DEF Tick
<1>3. Types'
  BY <1>1, SiteAssumption DEF Tick, IInv, Types
<1>4. ASSUME NEW f \in File, cache[f] # Nil PROVE CopyOK(cache[f])'
  <2>1. cache[f].etag \in Int /\ CopyOK(cache[f])
    BY <1>4 DEF IInv, Types, CopiesOK
  <2> QED BY <1>1, <1>2, <2>1, SiteAssumption DEF CopyOK, IInv, Types, Lasted
<1>5. CopiesOK'
  BY <1>1, <1>4 DEF CopiesOK
<1>6. SinceOK'
  BY <1>1, <1>2, SiteAssumption DEF IInv, Types, SinceOK
<1>7. PageOfOneMinute'
  BY <1>1 DEF IInv, PageOfOneMinute, Lasted
<1> QED BY <1>3, <1>5, <1>6, <1>7 DEF IInv

\* A version that is replaced now was deployed at every time that anything refers to.
LEMMA DeployOK == ASSUME IInv, Deploy PROVE IInv'
<1>1. /\ UNCHANGED <<clock, ends, cache, phase, got, since>> /\ version' = version + 1
      /\ replaced' = [replaced EXCEPT ![version] = clock]
  BY DEF Deploy, page
<1>2. Types'
  BY <1>1, SiteAssumption DEF Deploy, IInv, Types, Version
<1>3. ASSUME NEW v \in Version, NEW t \in Int, t <= clock, Lasted(v, t) PROVE Lasted(v, t)'
  BY <1>1, <1>3, SiteAssumption DEF Lasted, IInv, Types
<1>4. ASSUME NEW f \in File, cache[f] # Nil PROVE CopyOK(cache[f])'
  <2>1. /\ cache[f] \in [version: Version, etag: Int, expires: Int] /\ CopyOK(cache[f])
    BY <1>4 DEF IInv, Types, CopiesOK
  <2>2. cache[f].etag - Minute <= clock /\ cache[f].etag - Minute \in Int
    BY <2>1, SiteAssumption DEF CopyOK, IInv, Types
  <2>3. Lasted(cache[f].version, cache[f].etag - Minute)'
    BY <1>1, <1>3, <2>1, <2>2 DEF CopyOK
  <2> QED BY <1>1, <2>1, <2>3 DEF CopyOK
<1>5. CopiesOK'
  BY <1>1, <1>4 DEF CopiesOK
<1>6. SinceOK'
  BY <1>1 DEF IInv, SinceOK
<1>7. PageOfOneMinute'
  <2>1. since <= clock
    BY SiteAssumption DEF IInv, Types, SinceOK
  <2> QED BY <1>1, <1>3, <2>1 DEF IInv, Types, PageOfOneMinute
<1> QED BY <1>2, <1>5, <1>6, <1>7 DEF IInv

LEMMA NextOK == ASSUME IInv, Position, [Next]_vars PROVE IInv'
<1>1. CASE UNCHANGED vars
  BY <1>1 DEF vars, IInv, Types, CopiesOK, CopyOK, SinceOK, PageOfOneMinute, Lasted
<1> QED BY <1>1, VisitOK, LoadFilesOK, ScriptsOK, TickOK, DeployOK DEF Next, Load

\* The files of a page are of one version, unless a version was replaced in the
\* minute of the visit or, within half a second of its start, in the one before.
THEOREM PageOfOneMinuteAlways == Spec => []PageOfOneMinute
<1>1. IInv /\ Position /\ [Next]_vars => IInv'
  BY NextOK
<1>2. IInv => PageOfOneMinute
  BY DEF IInv
<1> QED BY <1>1, <1>2, InitOK, Positioned, PTL DEF Spec
=============================================================================
