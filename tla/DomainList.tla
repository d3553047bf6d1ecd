----------------------------- MODULE DomainList -----------------------------
(***************************************************************************)
(* The list of protected domains: the handlers of httpapi/hosts.go and     *)
(* httpapi/tags.go, the kvas commands they run (kvas/exec.go and           *)
(* opt/bin/kvas), the file of the resolver that bin/main/dnsmasq generates *)
(* from the list line by line, and the resolver, which takes in this file, *)
(* and the directive of httpapi/adblock.go, when it is restarted.          *)
(*                                                                         *)
(* The commands compare domains as text: two relations say which domains   *)
(* begin, end with another or hold it.  The list is a set of lines: its    *)
(* order and repeated lines decide nothing.                                *)
(***************************************************************************)
EXTENDS FiniteSets, Integers

CONSTANTS
  Tab,        \* where requests come from
  Domain,     \* the domains NormalizeDomain accepts, as it writes them
  Junk,       \* a line it refuses
  Starts,     \* <<l, d>>: line l begins with d
  Ends,       \* <<l, d>>: line l ends with d
  Holds,      \* <<l, d>>: line l holds d
  Tags,       \* the domain groups of tags.list, each a set of lines
  Texts,      \* what may be imported, each a set of lines
  BatchSize,  \* domains in one run of kvas
  MaxKills    \* runs of kvas killed or failed unseen in a behaviour

ASSUME ListAssumption ==
  /\ Junk \notin Domain
  /\ \A d \in Domain : <<d, d>> \in Starts \cap Ends
  /\ Starts \cup Ends \subseteq Holds /\ Holds \subseteq Domain \X Domain
  /\ Tags \cup Texts \subseteq SUBSET (Domain \cup {Junk})
  /\ BatchSize \in Nat \ {0} /\ MaxKills \in Nat

VARIABLES
  list,    \* kvas.list
  bak,     \* kvas.list.bak
  conf,    \* dnsmasq.d/kvas.dnsmasq, generated from the list
  loaded,  \* what the resolver read of it at its last restart
  stale,   \* the directive may have changed since that restart
  req,     \* req[t]: the request of tab t
  kills,   \* runs of kvas killed, and steps that failed unseen, so far
  missed,  \* there was one since a generation of conf last began
  mixed    \* another was still writing conf when it did

resolver == <<conf, loaded, stale>>
vars == <<list, bak, conf, loaded, stale, req, kills, missed, mixed>>

\* asked: its domains; left: those not handed to kvas yet; batch: those in the
\* current run; changed: the run changed the list; copy: what the current
\* command has yet to write of what it read of the list; alone: no other request for the list ran at the same time.
NoRequest == [op |-> "none", at |-> "idle", asked |-> {}, left |-> {}, batch |-> {},
              changed |-> FALSE, copy |-> {}, alone |-> FALSE]

\* The commands of a run of kvas, and the other steps of the handlers.
Running == {"kvas", "sed", "refresh", "import", "append", "clear", "truncate",
            "write", "update", "fill", "reload"}
Serving == {"backup", "have", "next", "toggle", "restart", "done"}

Valid(lines) == lines \cap Domain

Go(t, at) == req' = [req EXCEPT ![t].at = at]
Files == <<list, bak>>
Kept == UNCHANGED <<kills, missed, mixed>>

\* Nobody else's request is about the list.
Apart == {"none", "toggle", "stray"}

-----------------------------------------------------------------------------
(***************************************************************************)
(* The requests                                                            *)
(***************************************************************************)

Begin(t, op, lines, at) ==
  /\ req[t].at = "idle" /\ Valid(lines) # {}
  /\ LET alone == \A u \in Tab : req[u].op \in Apart
     IN  req' = [u \in Tab |->
           IF u = t
           THEN [NoRequest EXCEPT !.op = op, !.at = at, !.alone = alone,
                   !.asked = Valid(lines), !.left = Valid(lines)]
           ELSE [req[u] EXCEPT !.alone = FALSE]]
  /\ UNCHANGED <<Files, resolver>> /\ Kept

HostAdd(t) == \E d \in Domain : Begin(t, "add", {d}, "next")
HostDel(t) == \E d \in Domain : Begin(t, "del", {d}, "next")

ApplyTag(t) == \E tag \in Tags, op \in {"add", "del"} : Begin(t, op, tag, "next")

Import(t) ==
  \E lines \in Texts, op \in {"append", "replace"} :
    Begin(t, op, lines, "backup")

\* A mutant of Saved: the copy is taken once.
Saved_Once == IF bak = {} THEN list ELSE bak

Saved == list

\* backupHostsList.
Backup(t) ==
  /\ req[t].at = "backup"
  /\ bak' = Saved
  /\ Go(t, IF req[t].op = "append" THEN "have" ELSE "import")
  /\ UNCHANGED <<list, resolver>> /\ Kept

\* appendHostsList hands on only what the list does not have.
Have(t) ==
  /\ req[t].at = "have"
  /\ req' = [req EXCEPT ![t].left = @ \ list, ![t].at = "next"]
  /\ UNCHANGED <<Files, resolver>> /\ Kept

\* A mutant of LastBatch: what does not fill a batch is left.
LastBatch_Full(t) == Cardinality(req[t].left) < BatchSize

LastBatch(t) == req[t].left = {}

\* The next run of kvas, if any: the loops of appendHostsList and runBatched.
NextBatch(t) ==
  /\ req[t].at = "next"
  /\ \/ LastBatch(t) /\ Go(t, "done")
     \/ /\ ~LastBatch(t)
        /\ \E batch \in SUBSET req[t].left :
             /\ \/ Cardinality(batch) = BatchSize
                \/ batch = req[t].left /\ Cardinality(batch) < BatchSize
             /\ req' = [req EXCEPT ![t].batch = batch, ![t].left = @ \ batch,
                                   ![t].at = "kvas"]
  /\ UNCHANGED <<Files, resolver>> /\ Kept

\* The handler answers that all went well.
Reply(t) ==
  /\ req[t].at = "done"
  /\ req' = [req EXCEPT ![t] = NoRequest]
  /\ UNCHANGED <<Files, resolver>> /\ Kept

-----------------------------------------------------------------------------
(***************************************************************************)
(* kvas add and kvas del                                                   *)
(***************************************************************************)

\* cmd_add_one_host passes over a domain some line begins with.
Listed(lines, d) == \E l \in lines : <<l, d>> \in Starts

AddOne(t) ==
  /\ req[t].at = "kvas" /\ req[t].op \in {"add", "append"}
  /\ \E d \in req[t].batch :
       /\ list' = IF Listed(list, d) THEN list ELSE list \cup {d}
       /\ req' = [req EXCEPT ![t].batch = @ \ {d},
                             ![t].changed = @ \/ ~Listed(list, d)]
  /\ UNCHANGED <<bak, resolver>> /\ Kept

\* A domain no line ends with is passed over; else sed reads the list.
Matched(q, d) ==
  IF \E l \in list : <<l, d>> \in Ends
  THEN [q EXCEPT !.at = "sed", !.copy = {l \in list : <<l, d>> \notin Holds},
                 !.changed = TRUE, !.batch = @ \ {d}]
  ELSE [q EXCEPT !.batch = @ \ {d}]

DelOne(t) ==
  /\ req[t].at = "kvas" /\ req[t].op = "del"
  /\ \E d \in req[t].batch : req' = [req EXCEPT ![t] = Matched(@, d)]
  /\ UNCHANGED <<Files, resolver>> /\ Kept

\* sed -i puts its copy in place of the list.
Sed(t) ==
  /\ req[t].at = "sed"
  /\ list' = req[t].copy
  /\ req' = [req EXCEPT ![t].at = "kvas", ![t].copy = {}]
  /\ UNCHANGED <<bak, resolver>> /\ Kept

\* A mutant of Finished: only what kvas add changes is passed on.
Finished_Quiet(t) == req[t].changed /\ req[t].op # "del"

Finished(t) == req[t].changed

\* The run ends; one that changed the list passes it on to the resolver first.
RunEnds(t) ==
  /\ req[t].at = "kvas" /\ req[t].batch = {}
  /\ Go(t, IF Finished(t) THEN "refresh" ELSE "next")
  /\ UNCHANGED <<Files, resolver>> /\ Kept

-----------------------------------------------------------------------------
(***************************************************************************)
(* From the list to the resolver: update_ipset, bin/main/dnsmasq and the   *)
(* restart, which also end kvas import (cmd_kvas_init)                     *)
(***************************************************************************)

\* Somebody is writing the file of the resolver.
Writing(u) == req[u].at \in {"fill", "stray"} /\ req[u].copy # {}

\* The generation begins by emptying the file.  It is run once more if it ends
\* and its lines are not counted as expected; the count is not modelled.
Empty(t) ==
  /\ \/ req[t].at \in {"refresh", "update"}
     \/ req[t].at = "fill" /\ req[t].copy = {}
  /\ conf' = {} /\ missed' = FALSE
  /\ mixed' = \E u \in Tab \ {t} : Writing(u)
  /\ req' = [req EXCEPT ![t].at = "fill", ![t].copy = list, ![t].changed = FALSE]
  /\ UNCHANGED <<Files, loaded, stale, kills>>

\* The reader may not meet a line that is no longer there, or one that an
\* import moves in the file below it.
PassedOver(d) ==
  \/ d \notin list
  \/ \E u \in Tab : req[u].at \in {"write", "update"}

\* A line of the list is appended to the file.
Fill(t) ==
  /\ Writing(t)
  /\ \E d \in req[t].copy :
       /\ \/ conf' = conf \cup {d}
          \/ conf' = conf /\ PassedOver(d)
       /\ req' = [req EXCEPT ![t].copy = @ \ {d}]
  /\ UNCHANGED <<Files, loaded, stale>> /\ Kept

Filled(t) ==
  /\ req[t].at = "fill" /\ req[t].copy = {}
  /\ Go(t, "reload")
  /\ UNCHANGED <<Files, resolver>> /\ Kept

Restarted == loaded' = conf /\ stale' = FALSE

\* What the run does when the resolver is restarted.
Onward(t) == IF req[t].op = "replace" THEN "done" ELSE "next"

Reload(t) ==
  /\ req[t].at = "reload"
  /\ Restarted
  /\ Go(t, Onward(t))
  /\ UNCHANGED <<Files, conf>> /\ Kept

\* The file cannot be written, or the resolver not restarted: kvas goes on.
FailUnseen(t) ==
  /\ req[t].at \in {"refresh", "update", "fill", "reload"} /\ kills < MaxKills
  /\ req' = [req EXCEPT ![t].at = IF @ = "reload" THEN Onward(t) ELSE "reload",
                        ![t].copy = {}, ![t].changed = FALSE]
  /\ kills' = kills + 1 /\ missed' = TRUE
  /\ UNCHANGED <<Files, resolver, mixed>>

-----------------------------------------------------------------------------
(***************************************************************************)
(* kvas import, which replaceHostsList runs: it adds to the list           *)
(***************************************************************************)

ReadExisting(t) ==
  /\ req[t].at = "import"
  /\ req' = [req EXCEPT ![t].at = "append", ![t].copy = list]
  /\ UNCHANGED <<Files, resolver>> /\ Kept

AppendAll(t) ==
  /\ req[t].at = "append"
  /\ list' = list \cup {d \in req[t].asked : ~Listed(req[t].copy, d)}
  /\ req' = [req EXCEPT ![t].at = "clear", ![t].copy = {}]
  /\ UNCHANGED <<bak, resolver>> /\ Kept

\* clear_file_content reads the list, empties it, writes what it read.
Clear(t) ==
  /\ req[t].at = "clear"
  /\ req' = [req EXCEPT ![t].at = "truncate", ![t].copy = list]
  /\ UNCHANGED <<Files, resolver>> /\ Kept

Truncate(t) ==
  /\ req[t].at = "truncate"
  /\ list' = {}
  /\ Go(t, "write")
  /\ UNCHANGED <<bak, resolver>> /\ Kept

Write(t) ==
  /\ req[t].at = "write"
  /\ list' = req[t].copy
  /\ req' = [req EXCEPT ![t].at = "update", ![t].copy = {}]
  /\ UNCHANGED <<bak, resolver>> /\ Kept

\* A handler that cannot read or write a file of its own answers with an error.
GiveUp(t) ==
  /\ req[t].at \in {"backup", "have", "toggle"}
  /\ req' = [req EXCEPT ![t] = NoRequest]
  /\ UNCHANGED <<Files, resolver>> /\ Kept

\* A kill does not reach a generation under way, which goes on by itself.
Remains(t) ==
  IF req[t].at = "fill"
  THEN [NoRequest EXCEPT !.op = "stray", !.at = "stray", !.copy = req[t].copy]
  ELSE NoRequest

\* The run is killed: its two minutes are over, or its tab was closed (an import
\* goes on without its tab); or the resolver does not restart.  The handler
\* answers with an error.
Kill(t) ==
  /\ req[t].at \in Running \cup {"restart"} /\ kills < MaxKills
  /\ req' = [req EXCEPT ![t] = Remains(t)]
  /\ kills' = kills + 1 /\ missed' = TRUE
  /\ UNCHANGED <<Files, resolver, mixed>>

StrayEnds(t) ==
  /\ req[t].at = "stray" /\ req[t].copy = {}
  /\ req' = [req EXCEPT ![t] = NoRequest]
  /\ UNCHANGED <<Files, resolver>> /\ Kept

-----------------------------------------------------------------------------
(***************************************************************************)
(* The advertisement directive                                             *)
(***************************************************************************)

AdblockToggle(t) ==
  /\ req[t].at = "idle"
  /\ req' = [req EXCEPT ![t] = [NoRequest EXCEPT !.op = "toggle", !.at = "toggle"]]
  /\ UNCHANGED <<Files, resolver>> /\ Kept

\* AppendLine or RemoveLines, which may find nothing to change.
Toggle(t) ==
  /\ req[t].at = "toggle"
  /\ stale' \in {TRUE, stale}
  /\ Go(t, "restart")
  /\ UNCHANGED <<Files, conf, loaded>> /\ Kept

\* It generates nothing: the resolver reads the file as it is.
RestartResolver(t) ==
  /\ req[t].at = "restart"
  /\ Restarted
  /\ Go(t, "done")
  /\ UNCHANGED <<Files, conf>> /\ Kept

-----------------------------------------------------------------------------
Init ==
  /\ list \in SUBSET Domain /\ bak = {}
  /\ conf = list /\ loaded = list /\ stale = FALSE /\ mixed = FALSE
  /\ req = [t \in Tab |-> NoRequest]
  /\ kills = 0 /\ missed = FALSE

Request(t) == HostAdd(t) \/ HostDel(t) \/ ApplyTag(t) \/ Import(t) \/ AdblockToggle(t)

Step(t) ==
  \/ Backup(t) \/ Have(t) \/ NextBatch(t) \/ Reply(t)
  \/ AddOne(t) \/ DelOne(t) \/ Sed(t) \/ RunEnds(t)
  \/ Empty(t) \/ Fill(t) \/ Filled(t) \/ Reload(t) \/ FailUnseen(t)
  \/ ReadExisting(t) \/ AppendAll(t) \/ Clear(t) \/ Truncate(t) \/ Write(t)
  \/ Toggle(t) \/ RestartResolver(t) \/ GiveUp(t)

Next == \E t \in Tab : Request(t) \/ Step(t) \/ Kill(t) \/ StrayEnds(t)

Spec == Init /\ [][Next]_vars

-----------------------------------------------------------------------------
Requests == [op: {"none", "add", "del", "append", "replace", "toggle",
                  "stray"},
             at: {"idle", "stray"} \cup Running \cup Serving, asked: SUBSET Domain,
             left: SUBSET Domain, batch: SUBSET Domain,
             changed: BOOLEAN, copy: SUBSET Domain, alone: BOOLEAN]

TypeOK ==
  /\ list \subseteq Domain /\ bak \subseteq Domain
  /\ conf \subseteq Domain /\ loaded \subseteq Domain /\ stale \in BOOLEAN
  /\ req \in [Tab -> Requests]
  /\ kills \in 0..MaxKills /\ missed \in BOOLEAN /\ mixed \in BOOLEAN

\* A request that no other overlapped and that reports success did all it was
\* asked, batch by batch: of what was to be added every domain is listed or
\* hidden behind a longer one, and no line ends with a domain that was to be
\* removed (runBatched, appendHostsList, kvas import).
Reported ==
  \A t \in Tab : req[t].at = "done" /\ req[t].alone =>
    \A d \in req[t].asked :
      IF req[t].op = "del" THEN \A l \in list : <<l, d>> \notin Ends
                           ELSE Listed(list, d)

\* A domain leaves the list because its line holds the text of a domain being
\* removed, or in an import, which has it in the copy of the list or among
\* its own domains.  A request that others overlap may lose what they add
\* (sed -i and clear_file_content put back what they read).
LossAccounted ==
  [][\A d \in list \ list' : \E t \in Tab :
       \/ req[t].at = "sed" /\ \E x \in req[t].asked : <<d, x>> \in Holds
       \/ req[t].at = "truncate" /\ d \in bak \cup req[t].asked
       \/ req[t].at \in {"sed", "truncate", "write"} /\ ~req[t].alone]_vars

\* When nothing runs, and no killed run or unseen failure waits for the next
\* generation, the resolver works with the directive in its file and with every
\* domain of the list, and with no other unless two generations were at work at
\* once, however requests overlapped: each change of the list is followed by a
\* generation and a restart of its own.  A restart alone, as the toggle makes
\* it, makes good no generation that a killed run owes.
ResolverFollows ==
  (\A t \in Tab : req[t].at = "idle") /\ ~missed =>
    /\ ~stale /\ list \subseteq loaded
    /\ ~mixed => loaded = list
=============================================================================
