----------------------------- MODULE ClientBuild ----------------------------
(***************************************************************************)
(* Which page the server serves (client_html.ts, build_prod.ts).  At its   *)
(* start the server rebuilds client.prod.html when a file of client_src is *)
(* newer, and then reads the page; build_prod.ts may also be run by hand.  *)
(* A build reads the sources one after the other, waits for the service    *)
(* that obfuscates them, and writes the file.  Developers edit meanwhile.  *)
(*                                                                         *)
(* The content of a file is the number of its last edit.                   *)
(***************************************************************************)
EXTENDS Integers, FiniteSets, FiniteSetsExt

CONSTANTS
    File,       \* the files of client_src
    Proc,       \* processes
    Server,     \* the one that runs main.ts; the others run build_prod.ts
    Absent,
    MAX_RETRIES,
    MaxClock,     \* bound on time
    MaxEdits    \* bound on edits

ASSUME BuildAssumption ==
    /\ File # {} /\ IsFiniteSet(File)
    /\ Server \in Proc
    /\ MaxEdits \in Nat
    /\ {MaxClock, MAX_RETRIES} \subseteq Nat \ {0}
    /\ Absent \notin Nat
    /\ Absent \notin [content : [File -> 0 .. MaxEdits], mtime : 1 .. MaxClock]

VARIABLES
    clock,
    edits,      \* edits so far
    src,        \* file -> its content and mtime
    prod,       \* client.prod.html: the contents it was built from and its
                \* mtime, or Absent
    pc,         \* process -> where it stands
    read,       \* process -> the contents it has read, Absent where it has not
    attempt,    \* process -> number of its present call of the service
    page,       \* CLIENT_HTML: contents, or Absent
    source,     \* CLIENT_HTML_SOURCE
    raced       \* history: an edit came during a build or as the file was
                \* written

bvars == <<clock, edits, src, prod, pc, read, attempt, page, source, raced>>

Unread == [f \in File |-> Absent]
Content == [f \in File |-> src[f].content]
Building == \E i \in Proc : pc[i] \in {"read", "obfuscate", "write"}

\* Mutant: the mtime of the file that was changed first.
EarliestMtime == Min({src[f].mtime : f \in File})

getLatestMtime == Max({src[f].mtime : f \in File})

shouldRebuild == prod # Absent => getLatestMtime > prod.mtime

BuildInit ==
    /\ clock = 1
    /\ edits = 0
    /\ src = [f \in File |-> [content |-> 0, mtime |-> 1]]
    /\ prod = Absent
    /\ pc = [i \in Proc |-> "off"]
    /\ read = [i \in Proc |-> Unread]
    /\ attempt = [i \in Proc |-> 1]
    /\ page = Absent
    /\ source = Absent
    /\ raced = FALSE

----------------------------------------------------------------------------
BuildTick ==
    /\ clock < MaxClock
    /\ clock' = clock + 1
    /\ UNCHANGED <<attempt, edits, src, prod, pc, read, page, source, raced>>

Edit(f) ==
    /\ edits < MaxEdits
    /\ edits' = edits + 1
    /\ src' = [src EXCEPT ![f] = [content |-> edits', mtime |-> clock]]
    /\ raced' = (raced \/ Building \/ (prod # Absent /\ prod.mtime = clock))
    /\ UNCHANGED <<attempt, clock, prod, pc, read, page, source>>

\* The test that begins the start of the server and a run by hand, with or
\* without --force.
Start(i) ==
    /\ pc[i] = "off"
    /\ \/ shouldRebuild /\ pc' = [pc EXCEPT ![i] = "read"]
       \/ ~shouldRebuild /\ pc' = [pc EXCEPT ![i] = IF i = Server THEN "stat" ELSE "off"]
       \/ i # Server /\ pc' = [pc EXCEPT ![i] = "read"]
    /\ read' = [read EXCEPT ![i] = Unread]
    /\ attempt' = [attempt EXCEPT ![i] = 1]
    /\ UNCHANGED <<clock, edits, src, prod, page, source, raced>>

\* buildProdHtml reads one of the sources.
ReadSource(i, f) ==
    /\ pc[i] = "read"
    /\ read[i][f] = Absent
    /\ read' = [read EXCEPT ![i][f] = src[f].content]
    /\ pc' = [pc EXCEPT ![i] = IF Absent \in {read'[i][g] : g \in File}
                               THEN "read" ELSE "obfuscate"]
    /\ UNCHANGED <<attempt, clock, edits, src, prod, page, source, raced>>

\* obfuscateJS got its answer.
Obfuscated(i) ==
    /\ pc[i] = "obfuscate"
    /\ pc' = [pc EXCEPT ![i] = "write"]
    /\ UNCHANGED <<attempt, clock, edits, src, prod, read, page, source, raced>>

\* obfuscateJS failed, and tries again after a pause.
RetryService(i) ==
    /\ pc[i] = "obfuscate"
    /\ attempt[i] < MAX_RETRIES
    /\ attempt' = [attempt EXCEPT ![i] = @ + 1]
    /\ UNCHANGED <<clock, edits, src, prod, pc, read, page, source, raced>>

\* Where a process stands after its build, successful or not.
AfterBuild(i) == pc' = [pc EXCEPT ![i] = IF i = Server THEN "stat" ELSE "off"]

Write(i) ==
    /\ pc[i] = "write"
    /\ prod' = [content |-> read[i], mtime |-> clock]
    /\ AfterBuild(i)
    /\ UNCHANGED <<attempt, clock, edits, src, read, page, source, raced>>

\* A file cannot be read or written, or the service fails for the last time:
\* the server logs it and goes on.
BuildFails(i) ==
    /\ pc[i] \in {"read", "obfuscate", "write"}
    /\ pc[i] = "obfuscate" => attempt[i] = MAX_RETRIES
    /\ AfterBuild(i)
    /\ UNCHANGED <<attempt, clock, edits, src, prod, read, page, source, raced>>

\* loadClientHtml after the build: the source is labelled by the two times.
Stat ==
    /\ pc[Server] = "stat"
    /\ pc' = [pc EXCEPT ![Server] = "load"]
    /\ source' = IF shouldRebuild THEN "dev" ELSE "prod"
    /\ UNCHANGED <<attempt, clock, edits, src, prod, read, page, raced>>

\* Whatever the label, the page is read from client.prod.html.
Load ==
    /\ pc[Server] = "load"
    /\ IF prod = Absent
       THEN pc' = [pc EXCEPT ![Server] = "failed"] /\ UNCHANGED page
       ELSE pc' = [pc EXCEPT ![Server] = "serving"] /\ page' = prod.content
    /\ UNCHANGED <<attempt, clock, edits, src, prod, read, source, raced>>

\* The server stops, or is started again after it failed.
Stop ==
    /\ pc[Server] \in {"serving", "failed"}
    /\ pc' = [pc EXCEPT ![Server] = "off"]
    /\ page' = Absent
    /\ source' = Absent
    /\ UNCHANGED <<attempt, clock, edits, src, prod, read, raced>>

BuildNext ==
    \/ BuildTick \/ Stat \/ Load \/ Stop
    \/ \E f \in File : Edit(f)
    \/ \E i \in Proc : \/ Start(i) \/ Obfuscated(i) \/ RetryService(i)
                       \/ Write(i) \/ BuildFails(i)
                       \/ \E f \in File : ReadSource(i, f)

BuildSpec == BuildInit /\ [][BuildNext]_bvars

----------------------------------------------------------------------------
Contents == [File -> 0 .. MaxEdits]

\* Type invariant: a file that was written holds all sources.
BuildTypeOK ==
    /\ clock \in 1 .. MaxClock
    /\ edits \in 0 .. MaxEdits
    /\ src \in [File -> [content : 0 .. MaxEdits, mtime : 1 .. MaxClock]]
    /\ prod = Absent \/ prod \in [content : Contents, mtime : 1 .. MaxClock]
    /\ pc \in [Proc -> {"off", "read", "obfuscate", "write", "stat", "load",
                    "serving", "failed"}]
    /\ read \in [Proc -> [File -> 0 .. MaxEdits \cup {Absent}]]
    /\ attempt \in [Proc -> 1 .. MAX_RETRIES]
    /\ page = Absent \/ page \in Contents
    /\ source \in {"dev", "prod", Absent}
    /\ raced \in BOOLEAN

\* client.prod.html is taken for up to date only when it holds the present
\* sources, as long as no edit came during a build.
FreshUnlessRaced == ~ (raced \/ shouldRebuild) => prod.content = Content
=============================================================================
