----------------------------- MODULE Downloads ------------------------------
(***************************************************************************)
(* The downloads of `mihomo-cli install` and `update` (installer.rs): the  *)
(* Core's archive, which a user's commands collect in `<binary>.part` and  *)
(* resume in later attempts and later commands, and the two geo databases, *)
(* collected in a directory of the command's own.                          *)
(*                                                                         *)
(* A file is the sequence of its chunks, each named by the release it came *)
(* from; an error page served in place of an asset is a chunk of its own.  *)
(* Two processes share `<binary>.part` by its name: one that removes it    *)
(* leaves the other appending to a file that has no name any more.         *)
(***************************************************************************)
EXTENDS DownloadPromises, Sequences

CONSTANTS Procs,          \* commands that may run at the same time
          Urls,           \* GitHub and its mirrors, tried as 1..Urls
          Tries,          \* attempts per URL
          MaxCommands, MaxFaults   \* bounds; MaxFaults for downloads of the Core

ASSUME DownloadsAssumption == "part" \notin Procs /\ {Urls, Tries} \subseteq Nat \ {0}

VARIABLES
  file,   \* file["part"]: the shared part file; file[p]: the geo temporary file of p
  geo,    \* the installed geo databases
  dl,     \* the command of each process
  latest  \* the release of the geo databases that each URL serves

vars == <<file, geo, dl, latest, past>>

-----------------------------------------------------------------------------
(* Files and assets.                                                       *)

Page == 0
Mirrors == 1..Urls   \* github_asset_urls_with_mirrors: GitHub first
Releases == {1, 2}
Names == <<"geoip", "geosite">>

Absent == <<9>>                               \* the one file no server serves
Whole(r) == [i \in 1..(r + 1) |-> r]         \* a later Core is larger
Database(r) == [i \in 1..2 |-> r]

\* What a URL serves for the download of p: the Core's version is part of the
\* URL, the geo databases are whatever is the latest there.
Asset(p) == IF dl[p].op = "geo" THEN Database(latest[dl[p].url]) ELSE Whole(dl[p].version)

Place(p) == IF dl[p].op = "geo" THEN p ELSE "part"
Size(f) == IF f = Absent THEN 0 ELSE Len(f)

\* GzDecoder reads the first member and ignores what follows it.
Decoded(bytes) ==
  {r \in Releases : Size(bytes) >= Len(Whole(r)) /\ SubSeq(bytes, 1, Len(Whole(r))) = Whole(r)}

\* The Core does not load a page or a short file, and may load one put together from two
\* releases.
Loadable(f) == {i \in 1..Size(f) : f[i] # Page} = 1..2
Mixed(f) == Loadable(f) /\ f[1] # f[2]

\* geo_files_are_valid holds of whole databases; it may hold of a short or a mixed one too,
\* which then is not downloaded.
GeoValid == \A i \in 1..2 : Loadable(geo[i]) /\ ~Mixed(geo[i])

Idle == [pc |-> "idle", op |-> "none", version |-> 1, alone |-> TRUE, url |-> 1, try |-> 1,
         offset |-> 0, body |-> <<>>, open |-> FALSE, bytes |-> <<>>, staged |-> <<>>]

Running(p) == dl[p].pc # "idle"

Init ==
  /\ file = [x \in Procs \cup {"part"} |-> Absent]
  /\ geo = [i \in 1..2 |-> Absent]
  /\ dl = [p \in Procs |-> Idle]
  /\ latest = [u \in Mirrors |-> 1]
  /\ \E what \in {"core", "geo"} :
       past = [what |-> what, commands |-> 0, faults |-> 0, streak |-> 0, left |-> FALSE,
               wrong |-> FALSE]

-----------------------------------------------------------------------------
(* Steps of a command.                                                     *)

Goto(p, l) == dl' = [dl EXCEPT ![p].pc = l]
\* Enough faults for every URL of a geo database to fail.
FaultBound == IF past.what = "geo" THEN Urls * Tries ELSE MaxFaults
Fault == /\ past.faults < FaultBound
         /\ past' = [past EXCEPT !.faults = @ + 1, !.streak = 0]

\* Removing a file by its name: whoever has it open goes on without the name.
Closed(d, place) == [q \in Procs |-> [d[q] EXCEPT !.open = @ /\ Place(q) # place]]

\* `install` or `update` of a version: the part file is shared by all of them.
CoreCommand(p) ==
  /\ ~Running(p) /\ past.what = "core" /\ past.commands < MaxCommands
  /\ \E v \in Releases :
       LET others == {q \in Procs \ {p} : Running(q) /\ dl[q].op = "core"}
           me == [Idle EXCEPT !.pc = "ask", !.op = "core", !.version = v, !.alone = (others = {})]
       IN  dl' = [q \in Procs |-> IF q = p THEN me
                                  ELSE [dl[q] EXCEPT !.alone = @ /\ q \notin others]]
  /\ past' = [past EXCEPT !.commands = @ + 1]
  /\ UNCHANGED <<file, geo, latest>>

\* An installation downloads the geo databases unless those it finds are valid.  It shares
\* nothing with another process: it is followed by itself, in behaviours of their own.
GeoCommand(p) ==
  /\ \A q \in Procs : ~Running(q)
  /\ ~GeoValid
  /\ past.what = "geo" /\ past.commands < MaxCommands
  /\ dl' = [dl EXCEPT ![p] = [Idle EXCEPT !.pc = "ask", !.op = "geo"]]
  /\ latest' \in [Mirrors -> Releases]
  /\ past' = [past EXCEPT !.commands = @ + 1]
  /\ UNCHANGED <<file, geo>>

\* The size of what is there decides whether the request asks for a range.
Ask(p) ==
  /\ dl[p].pc = "ask"
  /\ dl' = [dl EXCEPT ![p].offset = Size(file[Place(p)]), ![p].pc = "answer"]
  /\ UNCHANGED <<file, geo, latest, past>>

\* An attempt failed: the next one, and after the last the next URL.  Leaving a
\* URL discards what it served.
\* (Mutant: the partial file is kept.)
SwitchedKept(p) == file
Switched(p) == [file EXCEPT ![Place(p)] = Absent]

\* (Mutant: a new URL takes its attempts from the first one.)
UrlAfterForever(p) == (dl[p].url % Urls) + 1
UrlAfter(p) == dl[p].url + 1

LastTry(p) == dl[p].try = Tries   \* the pauses between attempts are left out

AttemptFailed(p) ==
  LET last == LastTry(p)
      more == UrlAfter(p) \in Mirrors
  IN
  /\ file' = IF last THEN Switched(p) ELSE file
  /\ dl' = [(IF last THEN Closed(dl, Place(p)) ELSE dl) EXCEPT
              ![p].open = FALSE, ![p].body = <<>>,
              ![p].pc  = IF last /\ ~more THEN "failed" ELSE "ask",
              ![p].try = IF last THEN 1 ELSE @ + 1,
              ![p].url = IF last /\ more THEN UrlAfter(p) ELSE @]

\* plan_download_response for an answer with the chunks `body` of an asset, from
\* `from` on.  A response that ignores the range discards what is there; the Core's
\* archive is always appended to, a geo database is truncated when it starts anew.
Receive(p, from, body) ==
  LET place == Place(p)
      fresh == IF dl[p].offset > 0 /\ from = 0 THEN Absent ELSE file[place]
  IN
  /\ file' = [file EXCEPT ![place] =
                IF fresh = Absent \/ (dl[p].op = "geo" /\ from = 0) THEN <<>> ELSE fresh]
  /\ dl' = [(IF fresh = file[place] THEN dl ELSE Closed(dl, place)) EXCEPT
              ![p].pc = "body", ![p].open = TRUE, ![p].offset = 0, ![p].body = body]

Rest(s, n) == SubSeq(s, n + 1, Len(s))

\* A sound answer: the rest, or the whole from a server that does not resume, or 416,
\* after which the whole is asked for.
Answer(p) ==
  LET o == dl[p].offset IN
  /\ dl[p].pc = "answer"
  /\ \/ o \in 1..(Len(Asset(p)) - 1) /\ Receive(p, o, Rest(Asset(p), o))
     \/ Receive(p, 0, Asset(p))
     \/ /\ o >= Len(Asset(p))
        /\ file' = [file EXCEPT ![Place(p)] = Absent]
        /\ dl' = [Closed(dl, Place(p)) EXCEPT ![p].offset = 0]
  /\ UNCHANGED <<geo, latest, past>>

\* No answer or an HTTP error; an error page with status 200; a body without a
\* length that ends early.
BadAnswer(p) ==
  /\ dl[p].pc = "answer" /\ Fault
  /\ \/ AttemptFailed(p)
     \/ Receive(p, 0, <<Page>>)
     \/ dl[p].offset = 0 /\ Receive(p, 0, SubSeq(Asset(p), 1, 1))
  /\ UNCHANGED <<geo, latest>>

Chunk(p) ==
  /\ dl[p].pc = "body" /\ dl[p].body # <<>>
  /\ file' = IF dl[p].open THEN [file EXCEPT ![Place(p)] = Append(@, Head(dl[p].body))] ELSE file
  /\ dl' = [dl EXCEPT ![p].body = Tail(@)]
  /\ UNCHANGED <<geo, latest, past>>

\* The stream breaks: what was written stays.
Break(p) ==
  /\ dl[p].pc = "body" /\ dl[p].body # <<>>
  /\ Fault /\ AttemptFailed(p)
  /\ UNCHANGED <<geo, latest>>

-----------------------------------------------------------------------------
(* The Core's archive is complete.                                         *)

\* finalize_part_download reads the file by its name.
ReadBack(p) ==
  /\ dl[p].pc = "body" /\ dl[p].body = <<>> /\ dl[p].op = "core"
  /\ IF file["part"] = Absent
     THEN AttemptFailed(p)
     ELSE /\ dl' = [dl EXCEPT ![p].bytes = file["part"], ![p].open = FALSE, ![p].pc = "install"]
          /\ UNCHANGED file
  /\ UNCHANGED <<geo, latest, past>>

\* "clean up .part immediately so a corrupt file never lingers"
\* (Mutants: only after the archive has been decompressed; never.)
WithoutGoodPart(p) ==
  IF Decoded(dl[p].bytes) = {} THEN file ELSE [file EXCEPT !["part"] = Absent]
WithPart(p) == file
WithoutPart(p) == [file EXCEPT !["part"] = Absent]

\* install_downloaded_archive: decompressed in memory, checked, written and run once.
\* Bytes that do not decompress fail the command; no other URL is tried.
Install(p) ==
  LET got == Decoded(dl[p].bytes) IN
  /\ dl[p].pc = "install"
  /\ file' = WithoutPart(p)
  /\ dl' = [(IF file' = file THEN dl ELSE Closed(dl, "part")) EXCEPT
              ![p] = IF got = {} THEN [@ EXCEPT !.pc = "failed"] ELSE Idle]
  /\ past' = IF got = {} THEN past
             ELSE [past EXCEPT !.streak = 0,
                               !.wrong = @ \/ (dl[p].alone /\ dl[p].version \notin got)]
  /\ UNCHANGED <<geo, latest>>

CoreFails(p) ==
  /\ dl[p].pc = "failed" /\ dl[p].op = "core"
  /\ dl' = [dl EXCEPT ![p] = Idle]
  /\ past' = [past EXCEPT !.streak = IF dl[p].alone THEN @ + 1 ELSE 0]
  /\ UNCHANGED <<file, geo, latest>>

-----------------------------------------------------------------------------
(* The geo databases (ensure_geo_files_in).                                *)

\* One is complete, or no URL served it; the other follows.
GeoNext(p, staged) ==
  /\ dl' = [dl EXCEPT ![p] = [@ EXCEPT !.pc = IF dl[p].staged = <<>> THEN "ask" ELSE "validate",
                                       !.staged = Append(dl[p].staged, staged),
                                       !.url = 1, !.try = 1, !.open = FALSE]]
  /\ file' = [file EXCEPT ![p] = Absent]

GeoSaved(p) ==
  /\ dl[p].pc = "body" /\ dl[p].body = <<>> /\ dl[p].op = "geo"
  /\ GeoNext(p, file[p])
  /\ UNCHANGED <<geo, latest, past>>

GeoFailed(p) ==
  /\ dl[p].pc = "failed" /\ dl[p].op = "geo"
  /\ GeoNext(p, Absent)
  /\ UNCHANGED <<geo, latest, past>>

\* With both there, the Core must load them, or both are discarded.  With one missing,
\* the other is taken as it is.

GeoInstall(p) ==
  /\ dl[p].pc = "validate"
  /\ LET s == dl[p].staged
         both == \A i \in 1..2 : s[i] # Absent
         loads == \A i \in 1..2 : Loadable(s[i])
         kept == [i \in 1..2 |-> IF s[i] = Absent THEN geo[i] ELSE s[i]]
     IN  \/ (both => loads) /\ geo' = kept
         \/ both /\ (~loads \/ \E i \in 1..2 : Mixed(s[i])) /\ UNCHANGED geo
  /\ dl' = [dl EXCEPT ![p] = Idle]
  /\ UNCHANGED <<file, latest, past>>

-----------------------------------------------------------------------------
(* The environment.                                                        *)

\* A process is killed; nothing reads its own temporary directory again.
Kill(p) ==
  /\ Running(p) /\ past.faults < FaultBound
  /\ past' = [past EXCEPT !.faults = @ + 1, !.streak = 0,
                          !.left = @ \/ Decoded(file["part"]) # {}]
  /\ dl' = [dl EXCEPT ![p] = Idle]
  /\ file' = [file EXCEPT ![p] = Absent]
  /\ UNCHANGED <<geo, latest>>

\* The geo databases are released anew at a URL.
Rerelease(u) ==
  /\ latest[u] = 1 /\ \E p \in Procs : dl[p].op = "geo"
  /\ latest' = [latest EXCEPT ![u] = 2]
  /\ UNCHANGED <<file, geo, dl, past>>

Step(p) ==
  \/ Ask(p) \/ Answer(p) \/ BadAnswer(p) \/ Chunk(p) \/ Break(p)
  \/ ReadBack(p) \/ Install(p) \/ CoreFails(p)
  \/ GeoSaved(p) \/ GeoFailed(p) \/ GeoInstall(p)

Next ==
  \/ \E p \in Procs : CoreCommand(p) \/ GeoCommand(p) \/ Step(p) \/ Kill(p)
  \/ \E u \in Mirrors : Rerelease(u)

Spec == Init /\ [][Next]_vars

\* A command runs on: every request has a timeout, every loop a bound.
FairSpec == Spec /\ \A p \in Procs : WF_vars(Step(p))

-----------------------------------------------------------------------------
(* Properties.                                                             *)

TypeOK ==
  /\ DOMAIN file = Procs \cup {"part"}
  /\ \A p \in Procs : /\ dl[p].pc \in {"idle", "ask", "answer", "body", "install",
                                        "validate", "failed"}
                       /\ dl[p].url \in Mirrors /\ dl[p].try \in 1..Tries

\* Every download ends: attempts, URLs and files are bounded, whatever is answered.
DownloadEnds == \A p \in Procs : Running(p) ~> ~Running(p)
=============================================================================
