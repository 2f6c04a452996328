----------------------------- MODULE StaticSite -----------------------------
(***************************************************************************)
(* The static files of the web server, as a browser with a cache gets      *)
(* them, and the page among them that shows the API's documentation.       *)
(*                                                                         *)
(* cmd/web/main.go lets every file be cached until the next full minute,   *)
(* so that copies of files that belong together expire together; the age   *)
(* is given in whole seconds, the tag of a file names nothing but the end  *)
(* of the minute.  The page loads three scripts one after the other and    *)
(* starts the documentation when everything has arrived or failed.  New    *)
(* versions of all the files are deployed at any time.  Styles and icons   *)
(* are loaded the same way and left out.                                   *)
(***************************************************************************)
EXTENDS Integers, Sequences

CONSTANTS Second, Minute, \* how many ticks of the clock they last
          Nil,
          MaxTime,        \* bound on the clock
          MaxVersion      \* bound on deployments

ASSUME SiteAssumption ==
  /\ Second \in Nat \ {0} /\ Minute \in Nat /\ Minute >= Second
  /\ MaxTime \in Nat /\ MaxVersion \in Nat
  /\ Nil \notin Int

Page == "index.html"
Bundle == "swagger-ui-bundle.js"
Preset == "swagger-ui-standalone-preset.js"
Initializer == "swagger-initializer.js"
\* The order in which the page asks for them.
Files == <<Page, Bundle, Preset, Initializer>>
File == {Page, Bundle, Preset, Initializer}

VARIABLES clock,
          ends,     \* end of the current minute
          version,  \* version of all the files on the server
          replaced, \* history: replaced[v]: when version v was replaced
          cache,    \* cache[f]: the browser's copy of f, or Nil
          phase,    \* what the page is doing
          next,     \* next file that it loads
          got,      \* got[f]: the version of f that it has, Nil when it has none
          since     \* history: nothing older than this is meant to be on the page

server == <<version, replaced>>
page == <<phase, next, got, since>>
vars == <<clock, ends, version, replaced, cache, phase, next, got, since>>

Phase == {"none", "loading", "onload", "spec", "shown", "failed", "broken", "blank"}
Version == 0..MaxVersion
Copy == [version: Version, etag: Nat, expires: Nat]
NoCopies == [f \in File |-> Nil]
Busy == {"loading", "onload", "spec"}
-----------------------------------------------------------------------------
Init ==
  /\ clock = 0 /\ ends = Minute
  /\ version = 0 /\ replaced = [v \in Version |-> Nil]
  /\ cache = NoCopies /\ phase = "none" /\ next = 1 /\ got = NoCopies
  /\ since = 0

\* max-age: the time to the end of the minute, rounded to seconds.
FullMinute == {Minute}
MaxAges == {m \in 0..Minute :
  /\ m % Second = 0
  /\ 2 * (m - (ends - clock)) <= Second /\ 2 * ((ends - clock) - m) <= Second}

\* The whole file, or 304 when the tag of the browser's copy is that of the minute.
AnsweredByDate(f, c) == c.version = IF cache[f] # Nil THEN cache[f].version ELSE version
Answered(f, c) ==
  c.version = IF cache[f] # Nil /\ cache[f].etag = ends THEN cache[f].version ELSE version

\* Copies that the server's answer may leave with the browser.
Answers(f) == {c \in [version: Version, etag: {ends}, expires: {clock + m : m \in MaxAges}] : Answered(f, c)}
-----------------------------------------------------------------------------
\* What the minute before started with may be shown half a second longer.
Since == IF 2 * (clock - (ends - Minute)) < Second THEN ends - 2 * Minute ELSE ends - Minute

Visit ==
  /\ phase \notin Busy
  /\ phase' = "loading" /\ next' = 1 /\ got' = NoCopies /\ since' = Since
  /\ UNCHANGED <<clock, ends, server, cache>>

\* The page has ended as p says; what it was made of is forgotten.
End(p) == phase' = p /\ next' = 1 /\ got' = NoCopies /\ since' = 0

\* File f of version v (Nil: not at all) is on the page, which goes on; there is
\* no page without the first of them.
Receive(f, v) ==
  /\ IF f = Page /\ v = Nil THEN End("blank")
     ELSE /\ got' = [got EXCEPT ![f] = v] /\ next' = next + 1 /\ UNCHANGED since
          /\ phase' = IF next = Len(Files) THEN "onload" ELSE "loading"
  /\ UNCHANGED <<clock, ends, server>>

LoadCached ==
  /\ phase = "loading"
  /\ LET f == Files[next] IN
       /\ cache[f] # Nil /\ clock < cache[f].expires
       /\ Receive(f, cache[f].version)
  /\ UNCHANGED cache
\* A copy that has expired, and on a reload any copy, is asked for again.
LoadFetched ==
  /\ phase = "loading"
  /\ LET f == Files[next] IN \E c \in Answers(f) :
       /\ cache' = [cache EXCEPT ![f] = c]
       /\ Receive(f, c.version)
\* The server does not answer; "must-revalidate" forbids to use an old copy then.
LoadFailed ==
  /\ phase = "loading" /\ Receive(Files[next], Nil)
  /\ UNCHANGED cache

\* The globals that window.onload reads, and the scripts that define them.
Globals == {Bundle, Preset}

\* window.onload, if the script that sets it came: it creates the UI, whose bundle
\* asks for /api/swagger.json, or stops at a global that is not there.
Onload ==
  /\ phase = "onload"
  /\ \/ got[Initializer] = Nil /\ End("blank")
     \/ got[Initializer] # Nil /\ (\E f \in Globals : got[f] = Nil) /\ End("broken")
     \/ /\ got[Initializer] # Nil /\ \A f \in Globals : got[f] # Nil
        /\ phase' = "spec" /\ UNCHANGED <<next, got, since>>
  /\ UNCHANGED <<clock, ends, server, cache>>

\* The description of the API, which is not cached, comes or does not.
LoadSpec ==
  /\ phase = "spec" /\ (End("shown") \/ End("failed"))
  /\ UNCHANGED <<clock, ends, server, cache>>
-----------------------------------------------------------------------------
Tick ==
  /\ clock < MaxTime /\ clock' = clock + 1
  /\ ends' = IF clock' = ends THEN ends + Minute ELSE ends
  /\ UNCHANGED <<server, cache, page>>

Deploy ==
  /\ version < MaxVersion /\ version' = version + 1
  /\ replaced' = [replaced EXCEPT ![version] = clock]
  /\ UNCHANGED <<clock, ends, cache, page>>

Load == LoadCached \/ LoadFetched \/ LoadFailed \/ Onload \/ LoadSpec
Next == Visit \/ Load \/ Tick \/ Deploy

Spec == Init /\ [][Next]_vars
-----------------------------------------------------------------------------
\* The type of every variable; only a page that is loading has files.
TypeOK ==
  /\ clock \in Nat /\ ends \in Nat /\ version \in Version
  /\ replaced \in [Version -> Nat \cup {Nil}]
  /\ cache \in [File -> Copy \cup {Nil}] /\ phase \in Phase /\ next \in 1..(Len(Files) + 1)
  /\ got \in [File -> Version \cup {Nil}] /\ (phase \in Busy \/ got = NoCopies)
  /\ since \in Int

\* v is on the server, or was at some time from t on.
Lasted(v, t) == v = version \/ (replaced[v] # Nil /\ replaced[v] >= t)

\* "Cache all the static files aligned at the 1-minute boundary": whatever was
\* cached, validated, expired or reloaded, the files of a page are of one version,
\* unless a version was replaced in the minute in which the page was asked for,
\* or, within half a second after a boundary, in the one before.
PageOfOneMinute == \A f \in File : got[f] # Nil => Lasted(got[f], since)
=============================================================================
