-------------------------- MODULE DomainList_proofs --------------------------
(***************************************************************************)
(* For any number of tabs, domains and killed runs, any relation between   *)
(* the texts of domains and any size of a batch: what a request reports,   *)
(* what may leave the list, and when the resolver works with it.           *)
(***************************************************************************)
EXTENDS DomainList, TLAPS

\* What a request is between two of its steps.
Shape(r) ==
  /\ r.op = "none" <=> r.at = "idle"
  /\ r.op = "stray" <=> r.at = "stray"
  /\ r.op = "toggle" => r.at \in {"toggle", "restart", "done"}
  /\ r.op \in {"add", "del"} =>
       r.at \in {"kvas", "next", "refresh", "fill", "reload", "sed", "done"}
  /\ r.op = "append" =>
       r.at \in {"backup", "have", "kvas", "next", "refresh", "fill", "reload", "done"}
  /\ r.op = "replace" => r.at \in {"backup", "import", "append", "clear", "truncate",
                                   "write", "update", "fill", "reload", "done"}
  /\ r.at \notin {"kvas", "sed", "refresh"} => r.changed = FALSE
  /\ r.at \notin {"kvas", "sed"} => r.batch = {}
  /\ r.at = "sed" => r.changed = TRUE /\ r.op = "del"
  /\ r.at = "refresh" => r.changed = TRUE
  /\ r.op \in {"toggle", "stray"} => r.asked = {}
  /\ r.op \in Apart => r.alone = FALSE
  /\ r.at \in {"backup", "have"} => r.left = r.asked
  /\ r.at = "done" /\ r.op # "replace" => r.left = {}
  /\ r.left \cup r.batch \subseteq r.asked

\* What a request that is alone has done to the list so far, and what it is
\* about to do.
Added(r, lines) ==
  \A d \in r.asked : d \in r.left \cup r.batch \/ Listed(lines, d)
Removed(r, lines) ==
  \A d \in r.asked : d \in r.left \cup r.batch \/ \A l \in lines : <<l, d>> \notin Ends
Imported(r, lines) == \A d \in r.asked : Listed(lines, d)

Progress(r, lines) ==
  /\ r.op \in {"add", "append"} => Added(r, lines)
  /\ r.op = "del" => Removed(r, IF r.at = "sed" THEN r.copy ELSE lines)
  /\ r.at = "append" => r.copy = lines
  /\ r.op = "replace" /\ 
         r.at \in {"clear", "truncate", "update", "fill", "reload", "done"} =>
       Imported(r, lines)
  /\ r.at \in {"truncate", "write"} => Imported(r, r.copy)

Losses(r, lines, backup) ==
  /\ r.at = "sed" =>
       \A l \in lines \ r.copy : \E x \in r.asked : <<l, x>> \in Holds
  /\ r.at = "import" => lines \subseteq backup
  /\ r.at \in {"append", "clear", "truncate"} => lines \subseteq backup \cup r.asked
  /\ r.at = "write" => lines = {}

\* The values of everything but the requests.
Values ==
  /\ list \subseteq Domain /\ bak \subseteq Domain
  /\ conf \subseteq Domain /\ loaded \subseteq Domain /\ stale \in BOOLEAN
  /\ kills \in 0..MaxKills /\ missed \in BOOLEAN /\ mixed \in BOOLEAN

\* A request that is alone with the list is.
Alone ==
  \A t, u \in Tab : req[t].alone = TRUE /\ u # t => req[u].op \in Apart

Tabwise ==
  \A t \in Tab :
    /\ Shape(req[t])
    /\ req[t].alone = TRUE => Progress(req[t], list) /\ Losses(req[t], list, bak)

Inv == TypeOK /\ Alone /\ Tabwise

\* A step makes a request of the one it was, and may hand it the list.
Continues(q, r) ==
  /\ r.op \in Apart \/ r.op = q.op
  /\ r.alone = TRUE => q.alone = TRUE

-----------------------------------------------------------------------------
\* A domain in the list is found there.
LEMMA ListedItself == \A lines : \A d \in lines \cap Domain : Listed(lines, d)
BY ListAssumption DEF Listed

\* What is found in a list is found in a longer one.
LEMMA ListedMore ==
  \A lines, more, d : lines \subseteq more /\ Listed(lines, d) => Listed(more, d)
BY DEF Listed

\* A tab without a request has the empty one.
LEMMA NoRequestType == NoRequest \in Requests
BY DEF NoRequest, Requests

\* The empty request is as its step demands.
LEMMA NoRequestShape == Shape(NoRequest)
BY DEF NoRequest, Shape, Apart

\* The invariant holds at first.
LEMMA InitInv == Init => Inv
<1> SUFFICES ASSUME Init PROVE Inv
  OBVIOUS
<1>1. \A t \in Tab : req[t] = NoRequest
  BY DEF Init
<1>2. TypeOK
  <2>1. req \in [Tab -> Requests]
    BY NoRequestType DEF Init
  <2>2. 0 \in 0..MaxKills
    BY ListAssumption
  <2> QED
    BY <2>1, <2>2 DEF Init, TypeOK
<1>3. NoRequest.alone = FALSE
  BY DEF NoRequest
<1>4. Alone /\ Tabwise
  BY <1>1, <1>3, NoRequestShape DEF Init, Alone, Tabwise
<1> QED
  BY <1>2, <1>4 DEF Inv

\* Nobody but the tab that takes a step is concerned by it.
LEMMA OneTab ==
  ASSUME Inv, NEW t \in Tab, NEW r \in Requests, req' = [req EXCEPT ![t] = r], Values',
         req[t].op \notin Apart \/ (list' = list /\ bak' = bak),
         Continues(req[t], r), Shape(r),
         r.alone = TRUE => Progress(r, list') /\ Losses(r, list', bak')
  PROVE  Inv'
<1>1. req'[t] = r /\ \A u \in Tab : u # t => req'[u] = req[u]
  BY DEF Inv, TypeOK
<1>2. TypeOK'
  BY DEF Inv, TypeOK, Values
<1>3. Alone'
  BY <1>1 DEF Inv, Alone, Continues
<1>4. Tabwise'
  <2>1. ASSUME NEW u \in Tab, u # t, req[u].alone = TRUE
        PROVE  list' = list /\ bak' = bak
    BY <2>1 DEF Inv, Alone
  <2> QED
    BY <1>1, <2>1 DEF Inv, Tabwise
<1> QED
  BY <1>2, <1>3, <1>4 DEF Inv

-----------------------------------------------------------------------------
(* One step of one tab *)

\* Backup keeps the invariant.
LEMMA BackupInv ==
  ASSUME Inv, NEW t \in Tab, Backup(t)
  PROVE  Inv'
<1>1. /\ req[t] \in Requests /\ req \in [Tab -> Requests] /\ Shape(req[t]) /\ TypeOK
      /\ req[t].alone = TRUE => Progress(req[t], list) /\ Losses(req[t], list, bak)
      /\ req[t].op \in {"none", "add", "del", "append", "replace", "toggle", "stray"}
      /\ req[t].asked \subseteq Domain
  BY DEF Inv, TypeOK, Tabwise, Requests
<1> DEFINE q == req[t]
           r == [q EXCEPT !.at = IF q.op = "append" THEN "have" ELSE "import"]
<1>2. req' = [req EXCEPT ![t] = r]
  BY <1>1 DEF Backup, Saved, Go, Files, resolver, Kept
<1>3. r \in Requests
  BY <1>1
     DEF Backup, Saved, Go, Files, resolver, Kept, Requests, Running, Serving, TypeOK
<1>4. /\ r.op = q.op /\ r.at = IF q.op = "append" THEN "have" ELSE "import"
      /\ r.asked = q.asked /\ r.left = q.left /\ r.batch = q.batch
      /\ r.changed = q.changed /\ r.copy = q.copy /\ r.alone = q.alone
  BY <1>1 DEF Requests
<1> HIDE DEF r
<1>5. Shape(r) /\ Continues(q, r)
  BY <1>1, <1>4
     DEF Backup, Saved, Go, Files, resolver, Kept, Shape, Apart, Continues, LastBatch
<1>6. r.alone = TRUE => Progress(r, list') /\ Losses(r, list', bak')
  BY <1>1, <1>4, ListedItself, ListedMore
     DEF Backup, Saved, Go, Files, resolver, Kept, Shape, Progress, Losses, Added,
         Removed, Imported, LastBatch
<1>7. Values'
  BY <1>1, ListAssumption
     DEF Backup, Saved, Go, Files, resolver, Kept, Requests, TypeOK, Values
<1>8. q.op \notin Apart \/ (list' = list /\ bak' = bak)
  BY <1>1 DEF Backup, Saved, Go, Files, resolver, Kept, Shape, Apart
<1> QED
  BY <1>2, <1>3, <1>5, <1>6, <1>7, <1>8, OneTab

\* Have keeps the invariant.
LEMMA HaveInv ==
  ASSUME Inv, NEW t \in Tab, Have(t)
  PROVE  Inv'
<1>1. /\ req[t] \in Requests /\ req \in [Tab -> Requests] /\ Shape(req[t]) /\ TypeOK
      /\ req[t].alone = TRUE => Progress(req[t], list) /\ Losses(req[t], list, bak)
      /\ req[t].op \in {"none", "add", "del", "append", "replace", "toggle", "stray"}
      /\ req[t].asked \subseteq Domain
  BY DEF Inv, TypeOK, Tabwise, Requests
<1> DEFINE q == req[t]
           r == [q EXCEPT !.left = q.left \ list, !.at = "next"]
<1>2. req' = [req EXCEPT ![t] = r]
  BY <1>1 DEF Have, Files, resolver, Kept
<1>3. r \in Requests
  BY <1>1 DEF Have, Files, resolver, Kept, Requests, Running, Serving, TypeOK
<1>4. /\ r.op = q.op /\ r.at = "next" /\ r.asked = q.asked
      /\ r.left = q.left \ list /\ r.batch = q.batch /\ r.changed = q.changed
      /\ r.copy = q.copy /\ r.alone = q.alone
  BY <1>1 DEF Requests
<1> HIDE DEF r
<1>5. Shape(r) /\ Continues(q, r)
  BY <1>1, <1>4 DEF Have, Files, resolver, Kept, Shape, Apart, Continues, LastBatch
<1>6. r.alone = TRUE => Progress(r, list') /\ Losses(r, list', bak')
  BY <1>1, <1>4, ListedItself, ListedMore
     DEF Have, Files, resolver, Kept, Shape, Progress, Losses, Added, Removed, Imported,
         LastBatch
<1>7. Values'
  BY <1>1, ListAssumption DEF Have, Files, resolver, Kept, Requests, TypeOK, Values
<1>8. q.op \notin Apart \/ (list' = list /\ bak' = bak)
  BY <1>1 DEF Have, Files, resolver, Kept, Shape, Apart
<1> QED
  BY <1>2, <1>3, <1>5, <1>6, <1>7, <1>8, OneTab

\* Sed keeps the invariant.
LEMMA SedInv ==
  ASSUME Inv, NEW t \in Tab, Sed(t)
  PROVE  Inv'
<1>1. /\ req[t] \in Requests /\ req \in [Tab -> Requests] /\ Shape(req[t]) /\ TypeOK
      /\ req[t].alone = TRUE => Progress(req[t], list) /\ Losses(req[t], list, bak)
      /\ req[t].op \in {"none", "add", "del", "append", "replace", "toggle", "stray"}
      /\ req[t].asked \subseteq Domain
  BY DEF Inv, TypeOK, Tabwise, Requests
<1> DEFINE q == req[t]
           r == [q EXCEPT !.at = "kvas", !.copy = {}]
<1>2. req' = [req EXCEPT ![t] = r]
  BY <1>1 DEF Sed, Kept
<1>3. r \in Requests
  BY <1>1 DEF Sed, Kept, Requests, Running, Serving, TypeOK
<1>4. /\ r.op = q.op /\ r.at = "kvas" /\ r.asked = q.asked /\ r.left = q.left
      /\ r.batch = q.batch /\ r.changed = q.changed /\ r.copy = {}
      /\ r.alone = q.alone
  BY <1>1 DEF Requests
<1> HIDE DEF r
<1>5. Shape(r) /\ Continues(q, r)
  BY <1>1, <1>4 DEF Sed, Kept, Shape, Apart, Continues, LastBatch
<1>6. r.alone = TRUE => Progress(r, list') /\ Losses(r, list', bak')
  BY <1>1, <1>4, ListedItself, ListedMore
     DEF Sed, Kept, Shape, Progress, Losses, Added, Removed, Imported, LastBatch
<1>7. Values'
  BY <1>1, ListAssumption DEF Sed, Kept, resolver, Requests, TypeOK, Values
<1>8. q.op \notin Apart \/ (list' = list /\ bak' = bak)
  BY <1>1 DEF Sed, Kept, Shape, Apart
<1> QED
  BY <1>2, <1>3, <1>5, <1>6, <1>7, <1>8, OneTab

\* RunEnds keeps the invariant.
LEMMA RunEndsInv ==
  ASSUME Inv, NEW t \in Tab, RunEnds(t)
  PROVE  Inv'
<1>1. /\ req[t] \in Requests /\ req \in [Tab -> Requests] /\ Shape(req[t]) /\ TypeOK
      /\ req[t].alone = TRUE => Progress(req[t], list) /\ Losses(req[t], list, bak)
      /\ req[t].op \in {"none", "add", "del", "append", "replace", "toggle", "stray"}
      /\ req[t].asked \subseteq Domain
  BY DEF Inv, TypeOK, Tabwise, Requests
<1> DEFINE q == req[t]
           r == [q EXCEPT !.at = IF q.changed THEN "refresh" ELSE "next"]
<1>2. req' = [req EXCEPT ![t] = r]
  BY <1>1 DEF RunEnds, Finished, Go, Files, resolver, Kept
<1>3. r \in Requests
  BY <1>1
     DEF RunEnds, Finished, Go, Files, resolver, Kept, Requests, Running, Serving, TypeOK
<1>4. /\ r.op = q.op /\ r.at = IF q.changed THEN "refresh" ELSE "next"
      /\ r.asked = q.asked /\ r.left = q.left /\ r.batch = q.batch
      /\ r.changed = q.changed /\ r.copy = q.copy /\ r.alone = q.alone
  BY <1>1 DEF Requests
<1> HIDE DEF r
<1>5. Shape(r) /\ Continues(q, r)
  BY <1>1, <1>4
     DEF RunEnds, Finished, Go, Files, resolver, Kept, Shape, Apart, Continues, LastBatch
<1>6. r.alone = TRUE => Progress(r, list') /\ Losses(r, list', bak')
  BY <1>1, <1>4, ListedItself, ListedMore
     DEF RunEnds, Finished, Go, Files, resolver, Kept, Shape, Progress, Losses, Added,
         Removed, Imported, LastBatch
<1>7. Values'
  BY <1>1, ListAssumption
     DEF RunEnds, Finished, Go, Files, resolver, Kept, Requests, TypeOK, Values
<1>8. q.op \notin Apart \/ (list' = list /\ bak' = bak)
  BY <1>1 DEF RunEnds, Finished, Go, Files, resolver, Kept, Shape, Apart
<1> QED
  BY <1>2, <1>3, <1>5, <1>6, <1>7, <1>8, OneTab

\* ReadExisting keeps the invariant.
LEMMA ReadExistingInv ==
  ASSUME Inv, NEW t \in Tab, ReadExisting(t)
  PROVE  Inv'
<1>1. /\ req[t] \in Requests /\ req \in [Tab -> Requests] /\ Shape(req[t]) /\ TypeOK
      /\ req[t].alone = TRUE => Progress(req[t], list) /\ Losses(req[t], list, bak)
      /\ req[t].op \in {"none", "add", "del", "append", "replace", "toggle", "stray"}
      /\ req[t].asked \subseteq Domain
  BY DEF Inv, TypeOK, Tabwise, Requests
<1> DEFINE q == req[t]
           r == [q EXCEPT !.at = "append", !.copy = list]
<1>2. req' = [req EXCEPT ![t] = r]
  BY <1>1 DEF ReadExisting, Files, resolver, Kept
<1>3. r \in Requests
  BY <1>1 DEF ReadExisting, Files, resolver, Kept, Requests, Running, Serving, TypeOK
<1>4. /\ r.op = q.op /\ r.at = "append" /\ r.asked = q.asked /\ r.left = q.left
      /\ r.batch = q.batch /\ r.changed = q.changed /\ r.copy = list
      /\ r.alone = q.alone
  BY <1>1 DEF Requests
<1> HIDE DEF r
<1>5. Shape(r) /\ Continues(q, r)
  BY <1>1, <1>4
     DEF ReadExisting, Files, resolver, Kept, Shape, Apart, Continues, LastBatch
<1>6. r.alone = TRUE => Progress(r, list') /\ Losses(r, list', bak')
  BY <1>1, <1>4, ListedItself, ListedMore
     DEF ReadExisting, Files, resolver, Kept, Shape, Progress, Losses, Added, Removed,
         Imported, LastBatch
<1>7. Values'
  BY <1>1, ListAssumption
     DEF ReadExisting, Files, resolver, Kept, Requests, TypeOK, Values
<1>8. q.op \notin Apart \/ (list' = list /\ bak' = bak)
  BY <1>1 DEF ReadExisting, Files, resolver, Kept, Shape, Apart
<1> QED
  BY <1>2, <1>3, <1>5, <1>6, <1>7, <1>8, OneTab

\* AppendAll keeps the invariant.
LEMMA AppendAllInv ==
  ASSUME Inv, NEW t \in Tab, AppendAll(t)
  PROVE  Inv'
<1>1. /\ req[t] \in Requests /\ req \in [Tab -> Requests] /\ Shape(req[t]) /\ TypeOK
      /\ req[t].alone = TRUE => Progress(req[t], list) /\ Losses(req[t], list, bak)
      /\ req[t].op \in {"none", "add", "del", "append", "replace", "toggle", "stray"}
      /\ req[t].asked \subseteq Domain
  BY DEF Inv, TypeOK, Tabwise, Requests
<1> DEFINE q == req[t]
           r == [q EXCEPT !.at = "clear", !.copy = {}]
<1>2. req' = [req EXCEPT ![t] = r]
  BY <1>1 DEF AppendAll, Kept
<1>3. r \in Requests
  BY <1>1 DEF AppendAll, Kept, Requests, Running, Serving, TypeOK
<1>4. /\ r.op = q.op /\ r.at = "clear" /\ r.asked = q.asked /\ r.left = q.left
      /\ r.batch = q.batch /\ r.changed = q.changed /\ r.copy = {}
      /\ r.alone = q.alone
  BY <1>1 DEF Requests
<1> HIDE DEF r
<1>5. Shape(r) /\ Continues(q, r)
  BY <1>1, <1>4 DEF AppendAll, Kept, Shape, Apart, Continues, LastBatch
<1>6. r.alone = TRUE => Progress(r, list') /\ Losses(r, list', bak')
  BY <1>1, <1>4, ListedItself, ListedMore
     DEF AppendAll, Kept, Shape, Progress, Losses, Added, Removed, Imported, LastBatch
<1>7. Values'
  BY <1>1, ListAssumption DEF AppendAll, Kept, resolver, Requests, TypeOK, Values
<1>8. q.op \notin Apart \/ (list' = list /\ bak' = bak)
  BY <1>1 DEF AppendAll, Kept, Shape, Apart
<1> QED
  BY <1>2, <1>3, <1>5, <1>6, <1>7, <1>8, OneTab

\* Clear keeps the invariant.
LEMMA ClearInv ==
  ASSUME Inv, NEW t \in Tab, Clear(t)
  PROVE  Inv'
<1>1. /\ req[t] \in Requests /\ req \in [Tab -> Requests] /\ Shape(req[t]) /\ TypeOK
      /\ req[t].alone = TRUE => Progress(req[t], list) /\ Losses(req[t], list, bak)
      /\ req[t].op \in {"none", "add", "del", "append", "replace", "toggle", "stray"}
      /\ req[t].asked \subseteq Domain
  BY DEF Inv, TypeOK, Tabwise, Requests
<1> DEFINE q == req[t]
           r == [q EXCEPT !.at = "truncate", !.copy = list]
<1>2. req' = [req EXCEPT ![t] = r]
  BY <1>1 DEF Clear, Files, resolver, Kept
<1>3. r \in Requests
  BY <1>1 DEF Clear, Files, resolver, Kept, Requests, Running, Serving, TypeOK
<1>4. /\ r.op = q.op /\ r.at = "truncate" /\ r.asked = q.asked /\ r.left = q.left
      /\ r.batch = q.batch /\ r.changed = q.changed /\ r.copy = list
      /\ r.alone = q.alone
  BY <1>1 DEF Requests
<1> HIDE DEF r
<1>5. Shape(r) /\ Continues(q, r)
  BY <1>1, <1>4 DEF Clear, Files, resolver, Kept, Shape, Apart, Continues, LastBatch
<1>6. r.alone = TRUE => Progress(r, list') /\ Losses(r, list', bak')
  BY <1>1, <1>4, ListedItself, ListedMore
     DEF Clear, Files, resolver, Kept, Shape, Progress, Losses, Added, Removed, Imported,
         LastBatch
<1>7. Values'
  BY <1>1, ListAssumption DEF Clear, Files, resolver, Kept, Requests, TypeOK, Values
<1>8. q.op \notin Apart \/ (list' = list /\ bak' = bak)
  BY <1>1 DEF Clear, Files, resolver, Kept, Shape, Apart
<1> QED
  BY <1>2, <1>3, <1>5, <1>6, <1>7, <1>8, OneTab

\* Truncate keeps the invariant.
LEMMA TruncateInv ==
  ASSUME Inv, NEW t \in Tab, Truncate(t)
  PROVE  Inv'
<1>1. /\ req[t] \in Requests /\ req \in [Tab -> Requests] /\ Shape(req[t]) /\ TypeOK
      /\ req[t].alone = TRUE => Progress(req[t], list) /\ Losses(req[t], list, bak)
      /\ req[t].op \in {"none", "add", "del", "append", "replace", "toggle", "stray"}
      /\ req[t].asked \subseteq Domain
  BY DEF Inv, TypeOK, Tabwise, Requests
<1> DEFINE q == req[t]
           r == [q EXCEPT !.at = "write"]
<1>2. req' = [req EXCEPT ![t] = r]
  BY <1>1 DEF Truncate, Go, Kept
<1>3. r \in Requests
  BY <1>1 DEF Truncate, Go, Kept, Requests, Running, Serving, TypeOK
<1>4. /\ r.op = q.op /\ r.at = "write" /\ r.asked = q.asked /\ r.left = q.left
      /\ r.batch = q.batch /\ r.changed = q.changed /\ r.copy = q.copy
      /\ r.alone = q.alone
  BY <1>1 DEF Requests
<1> HIDE DEF r
<1>5. Shape(r) /\ Continues(q, r)
  BY <1>1, <1>4 DEF Truncate, Go, Kept, Shape, Apart, Continues, LastBatch
<1>6. r.alone = TRUE => Progress(r, list') /\ Losses(r, list', bak')
  BY <1>1, <1>4, ListedItself, ListedMore
     DEF Truncate, Go, Kept, Shape, Progress, Losses, Added, Removed, Imported, LastBatch
<1>7. Values'
  BY <1>1, ListAssumption DEF Truncate, Go, Kept, resolver, Requests, TypeOK, Values
<1>8. q.op \notin Apart \/ (list' = list /\ bak' = bak)
  BY <1>1 DEF Truncate, Go, Kept, Shape, Apart
<1> QED
  BY <1>2, <1>3, <1>5, <1>6, <1>7, <1>8, OneTab

\* Write keeps the invariant.
LEMMA WriteInv ==
  ASSUME Inv, NEW t \in Tab, Write(t)
  PROVE  Inv'
<1>1. /\ req[t] \in Requests /\ req \in [Tab -> Requests] /\ Shape(req[t]) /\ TypeOK
      /\ req[t].alone = TRUE => Progress(req[t], list) /\ Losses(req[t], list, bak)
      /\ req[t].op \in {"none", "add", "del", "append", "replace", "toggle", "stray"}
      /\ req[t].asked \subseteq Domain
  BY DEF Inv, TypeOK, Tabwise, Requests
<1> DEFINE q == req[t]
           r == [q EXCEPT !.at = "update", !.copy = {}]
<1>2. req' = [req EXCEPT ![t] = r]
  BY <1>1 DEF Write, Kept
<1>3. r \in Requests
  BY <1>1 DEF Write, Kept, Requests, Running, Serving, TypeOK
<1>4. /\ r.op = q.op /\ r.at = "update" /\ r.asked = q.asked /\ r.left = q.left
      /\ r.batch = q.batch /\ r.changed = q.changed /\ r.copy = {}
      /\ r.alone = q.alone
  BY <1>1 DEF Requests
<1> HIDE DEF r
<1>5. Shape(r) /\ Continues(q, r)
  BY <1>1, <1>4 DEF Write, Kept, Shape, Apart, Continues, LastBatch
<1>6. r.alone = TRUE => Progress(r, list') /\ Losses(r, list', bak')
  BY <1>1, <1>4, ListedItself, ListedMore
     DEF Write, Kept, Shape, Progress, Losses, Added, Removed, Imported, LastBatch
<1>7. Values'
  BY <1>1, ListAssumption DEF Write, Kept, resolver, Requests, TypeOK, Values
<1>8. q.op \notin Apart \/ (list' = list /\ bak' = bak)
  BY <1>1 DEF Write, Kept, Shape, Apart
<1> QED
  BY <1>2, <1>3, <1>5, <1>6, <1>7, <1>8, OneTab

\* Toggle keeps the invariant.
LEMMA ToggleInv ==
  ASSUME Inv, NEW t \in Tab, Toggle(t)
  PROVE  Inv'
<1>1. /\ req[t] \in Requests /\ req \in [Tab -> Requests] /\ Shape(req[t]) /\ TypeOK
      /\ req[t].alone = TRUE => Progress(req[t], list) /\ Losses(req[t], list, bak)
      /\ req[t].op \in {"none", "add", "del", "append", "replace", "toggle", "stray"}
      /\ req[t].asked \subseteq Domain
  BY DEF Inv, TypeOK, Tabwise, Requests
<1> DEFINE q == req[t]
           r == [q EXCEPT !.at = "restart"]
<1>2. req' = [req EXCEPT ![t] = r]
  BY <1>1 DEF Toggle, Go, Files, resolver, Kept
<1>3. r \in Requests
  BY <1>1 DEF Toggle, Go, Files, resolver, Kept, Requests, Running, Serving, TypeOK
<1>4. /\ r.op = q.op /\ r.at = "restart" /\ r.asked = q.asked /\ r.left = q.left
      /\ r.batch = q.batch /\ r.changed = q.changed /\ r.copy = q.copy
      /\ r.alone = q.alone
  BY <1>1 DEF Requests
<1> HIDE DEF r
<1>5. Shape(r) /\ Continues(q, r)
  BY <1>1, <1>4 DEF Toggle, Go, Files, resolver, Kept, Shape, Apart, Continues, LastBatch
<1>6. r.alone = TRUE => Progress(r, list') /\ Losses(r, list', bak')
  BY <1>1, <1>4, ListedItself, ListedMore
     DEF Toggle, Go, Files, resolver, Kept, Shape, Progress, Losses, Added, Removed,
         Imported, LastBatch
<1>7. Values'
  BY <1>1, ListAssumption DEF Toggle, Go, Files, resolver, Kept, Requests, TypeOK, Values
<1>8. q.op \notin Apart \/ (list' = list /\ bak' = bak)
  BY <1>1 DEF Toggle, Go, Files, resolver, Kept, Shape, Apart
<1> QED
  BY <1>2, <1>3, <1>5, <1>6, <1>7, <1>8, OneTab

\* RestartResolver keeps the invariant.
LEMMA RestartResolverInv ==
  ASSUME Inv, NEW t \in Tab, RestartResolver(t)
  PROVE  Inv'
<1>1. /\ req[t] \in Requests /\ req \in [Tab -> Requests] /\ Shape(req[t]) /\ TypeOK
      /\ req[t].alone = TRUE => Progress(req[t], list) /\ Losses(req[t], list, bak)
      /\ req[t].op \in {"none", "add", "del", "append", "replace", "toggle", "stray"}
      /\ req[t].asked \subseteq Domain
  BY DEF Inv, TypeOK, Tabwise, Requests
<1> DEFINE q == req[t]
           r == [q EXCEPT !.at = "done"]
<1>2. req' = [req EXCEPT ![t] = r]
  BY <1>1 DEF RestartResolver, Restarted, Go, Files, Kept
<1>3. r \in Requests
  BY <1>1
     DEF RestartResolver, Restarted, Go, Files, Kept, Requests, Running, Serving, TypeOK
<1>4. /\ r.op = q.op /\ r.at = "done" /\ r.asked = q.asked /\ r.left = q.left
      /\ r.batch = q.batch /\ r.changed = q.changed /\ r.copy = q.copy
      /\ r.alone = q.alone
  BY <1>1 DEF Requests
<1> HIDE DEF r
<1>5. Shape(r) /\ Continues(q, r)
  BY <1>1, <1>4
     DEF RestartResolver, Restarted, Go, Files, Kept, Shape, Apart, Continues, LastBatch
<1>6. r.alone = TRUE => Progress(r, list') /\ Losses(r, list', bak')
  BY <1>1, <1>4, ListedItself, ListedMore
     DEF RestartResolver, Restarted, Go, Files, Kept, Shape, Progress, Losses, Added,
         Removed, Imported, LastBatch
<1>7. Values'
  BY <1>1, ListAssumption
     DEF RestartResolver, Restarted, Go, Files, Kept, Requests, TypeOK, Values
<1>8. q.op \notin Apart \/ (list' = list /\ bak' = bak)
  BY <1>1 DEF RestartResolver, Restarted, Go, Files, Kept, Shape, Apart
<1> QED
  BY <1>2, <1>3, <1>5, <1>6, <1>7, <1>8, OneTab

\* Reply keeps the invariant.
LEMMA ReplyInv ==
  ASSUME Inv, NEW t \in Tab, Reply(t)
  PROVE  Inv'
<1>1. /\ req[t] \in Requests /\ req \in [Tab -> Requests] /\ Shape(req[t]) /\ TypeOK
      /\ req[t].alone = TRUE => Progress(req[t], list) /\ Losses(req[t], list, bak)
      /\ req[t].op \in {"none", "add", "del", "append", "replace", "toggle", "stray"}
      /\ req[t].asked \subseteq Domain
  BY DEF Inv, TypeOK, Tabwise, Requests
<1> DEFINE q == req[t]
           r == NoRequest
<1>2. req' = [req EXCEPT ![t] = r]
  BY <1>1 DEF Reply, Files, resolver, Kept
<1>3. r \in Requests
  BY <1>1, NoRequestType
     DEF Reply, Files, resolver, Kept, Requests, Running, Serving, TypeOK
<1>4. /\ r.op = "none" /\ r.at = "idle" /\ r.asked = {} /\ r.left = {} /\ r.batch = {}
      /\ r.changed = FALSE /\ r.copy = {} /\ r.alone = FALSE
  BY <1>1 DEF Requests, NoRequest
<1> HIDE DEF r
<1>5. Shape(r) /\ Continues(q, r)
  BY <1>1, <1>4 DEF Reply, Files, resolver, Kept, Shape, Apart, Continues, LastBatch
<1>6. r.alone = TRUE => Progress(r, list') /\ Losses(r, list', bak')
  BY <1>1, <1>4, ListedItself, ListedMore
     DEF Reply, Files, resolver, Kept, Shape, Progress, Losses, Added, Removed, Imported,
         LastBatch
<1>7. Values'
  BY <1>1, ListAssumption DEF Reply, Files, resolver, Kept, Requests, TypeOK, Values
<1>8. q.op \notin Apart \/ (list' = list /\ bak' = bak)
  BY <1>1 DEF Reply, Files, resolver, Kept, Shape, Apart
<1> QED
  BY <1>2, <1>3, <1>5, <1>6, <1>7, <1>8, OneTab

\* GiveUp keeps the invariant.
LEMMA GiveUpInv ==
  ASSUME Inv, NEW t \in Tab, GiveUp(t)
  PROVE  Inv'
<1>1. /\ req[t] \in Requests /\ req \in [Tab -> Requests] /\ Shape(req[t]) /\ TypeOK
      /\ req[t].alone = TRUE => Progress(req[t], list) /\ Losses(req[t], list, bak)
      /\ req[t].op \in {"none", "add", "del", "append", "replace", "toggle", "stray"}
      /\ req[t].asked \subseteq Domain
  BY DEF Inv, TypeOK, Tabwise, Requests
<1> DEFINE q == req[t]
           r == NoRequest
<1>2. req' = [req EXCEPT ![t] = r]
  BY <1>1 DEF GiveUp, Files, resolver, Kept
<1>3. r \in Requests
  BY <1>1, NoRequestType
     DEF GiveUp, Files, resolver, Kept, Requests, Running, Serving, TypeOK
<1>4. /\ r.op = "none" /\ r.at = "idle" /\ r.asked = {} /\ r.left = {} /\ r.batch = {}
      /\ r.changed = FALSE /\ r.copy = {} /\ r.alone = FALSE
  BY <1>1 DEF Requests, NoRequest
<1> HIDE DEF r
<1>5. Shape(r) /\ Continues(q, r)
  BY <1>1, <1>4 DEF GiveUp, Files, resolver, Kept, Shape, Apart, Continues, LastBatch
<1>6. r.alone = TRUE => Progress(r, list') /\ Losses(r, list', bak')
  BY <1>1, <1>4, ListedItself, ListedMore
     DEF GiveUp, Files, resolver, Kept, Shape, Progress, Losses, Added, Removed,
         Imported, LastBatch
<1>7. Values'
  BY <1>1, ListAssumption DEF GiveUp, Files, resolver, Kept, Requests, TypeOK, Values
<1>8. q.op \notin Apart \/ (list' = list /\ bak' = bak)
  BY <1>1 DEF GiveUp, Files, resolver, Kept, Shape, Apart
<1> QED
  BY <1>2, <1>3, <1>5, <1>6, <1>7, <1>8, OneTab

\* AdblockToggle keeps the invariant.
LEMMA AdblockToggleInv ==
  ASSUME Inv, NEW t \in Tab, AdblockToggle(t)
  PROVE  Inv'
<1>1. /\ req[t] \in Requests /\ req \in [Tab -> Requests] /\ Shape(req[t]) /\ TypeOK
      /\ req[t].alone = TRUE => Progress(req[t], list) /\ Losses(req[t], list, bak)
      /\ req[t].op \in {"none", "add", "del", "append", "replace", "toggle", "stray"}
      /\ req[t].asked \subseteq Domain
  BY DEF Inv, TypeOK, Tabwise, Requests
<1> DEFINE q == req[t]
           r == [NoRequest EXCEPT !.op = "toggle", !.at = "toggle"]
<1>2. req' = [req EXCEPT ![t] = r]
  BY <1>1 DEF AdblockToggle, Files, resolver, Kept
<1>3. r \in Requests
  BY <1>1, NoRequestType
     DEF AdblockToggle, Files, resolver, Kept, Requests, Running, Serving, TypeOK
<1>4. /\ r.op = "toggle" /\ r.at = "toggle" /\ r.asked = {} /\ r.left = {} /\ r.batch = {}
      /\ r.changed = FALSE /\ r.copy = {} /\ r.alone = FALSE
  BY <1>1 DEF Requests, NoRequest
<1> HIDE DEF r
<1>5. Shape(r) /\ Continues(q, r)
  BY <1>1, <1>4
     DEF AdblockToggle, Files, resolver, Kept, Shape, Apart, Continues, LastBatch
<1>6. r.alone = TRUE => Progress(r, list') /\ Losses(r, list', bak')
  BY <1>1, <1>4, ListedItself, ListedMore
     DEF AdblockToggle, Files, resolver, Kept, Shape, Progress, Losses, Added, Removed,
         Imported, LastBatch
<1>7. Values'
  BY <1>1, ListAssumption
     DEF AdblockToggle, Files, resolver, Kept, Requests, TypeOK, Values
<1>8. q.op \notin Apart \/ (list' = list /\ bak' = bak)
  BY <1>1 DEF AdblockToggle, Files, resolver, Kept, Shape, Apart
<1> QED
  BY <1>2, <1>3, <1>5, <1>6, <1>7, <1>8, OneTab


\* Empty keeps the invariant.
LEMMA EmptyInv ==
  ASSUME Inv, NEW t \in Tab, Empty(t)
  PROVE  Inv'
<1>1. /\ req[t] \in Requests /\ req \in [Tab -> Requests] /\ Shape(req[t]) /\ TypeOK
      /\ req[t].alone = TRUE => Progress(req[t], list) /\ Losses(req[t], list, bak)
      /\ req[t].op \in {"none", "add", "del", "append", "replace", "toggle", "stray"}
      /\ req[t].asked \subseteq Domain /\ req[t].copy \subseteq Domain
  BY DEF Inv, TypeOK, Tabwise, Requests
<1> DEFINE q == req[t]
           r == [q EXCEPT !.at = "fill", !.copy = list, !.changed = FALSE]
<1>2. req' = [req EXCEPT ![t] = r]
  BY <1>1 DEF Empty, Files
<1>3. r \in Requests
  BY <1>1, NoRequestType DEF Empty, Files, Requests, Running, Serving, TypeOK
<1>4. /\ r.op = q.op /\ r.at = "fill" /\ r.asked = q.asked /\ r.left = q.left
      /\ r.batch = q.batch /\ r.changed = FALSE /\ r.copy = list
      /\ r.alone = q.alone
  BY <1>1 DEF Requests, NoRequest
<1> HIDE DEF r
<1>5. Shape(r) /\ Continues(q, r)
  BY <1>1, <1>4 DEF Empty, Files, Shape, Apart, Continues
<1>6. r.alone = TRUE => Progress(r, list') /\ Losses(r, list', bak')
  BY <1>1, <1>4
     DEF Empty, Files, Shape, Progress, Losses, Added, Removed, Imported
<1>7. Values'
  BY <1>1, ListAssumption
     DEF Empty, Files, Requests, TypeOK, Values
<1>8. q.op \notin Apart \/ (list' = list /\ bak' = bak)
  BY <1>1 DEF Empty, Files, Shape, Apart
<1> QED
  BY <1>2, <1>3, <1>5, <1>6, <1>7, <1>8, OneTab

\* Fill keeps the invariant.
LEMMA FillInv ==
  ASSUME Inv, NEW t \in Tab, Fill(t)
  PROVE  Inv'
<1>1. /\ req[t] \in Requests /\ req \in [Tab -> Requests] /\ Shape(req[t]) /\ TypeOK
      /\ req[t].alone = TRUE => Progress(req[t], list) /\ Losses(req[t], list, bak)
      /\ req[t].op \in {"none", "add", "del", "append", "replace", "toggle", "stray"}
      /\ req[t].asked \subseteq Domain /\ req[t].copy \subseteq Domain
  BY DEF Inv, TypeOK, Tabwise, Requests
<1>p. PICK d \in req[t].copy :
        /\ conf' = conf \cup {d} \/ conf' = conf
        /\ req' = [req EXCEPT ![t].copy = @ \ {d}]
  BY DEF Fill
<1> DEFINE q == req[t]
           r == [q EXCEPT !.copy = q.copy \ {d}]
<1>2. req' = [req EXCEPT ![t] = r]
  BY <1>1, <1>p DEF Fill, Writing, Files, Kept
<1>3. r \in Requests
  BY <1>1, <1>p, NoRequestType
     DEF Fill, Writing, Files, Kept, Requests, Running, Serving, TypeOK
<1>4. /\ r.op = q.op /\ r.at = q.at /\ r.asked = q.asked /\ r.left = q.left
      /\ r.batch = q.batch /\ r.changed = q.changed /\ r.copy = q.copy \ {d}
      /\ r.alone = q.alone
  BY <1>1 DEF Requests, NoRequest
<1> HIDE DEF r
<1>5. Shape(r) /\ Continues(q, r)
  BY <1>1, <1>4, <1>p DEF Fill, Writing, Files, Kept, Shape, Apart, Continues
<1>6. r.alone = TRUE => Progress(r, list') /\ Losses(r, list', bak')
  BY <1>1, <1>4, <1>p
     DEF Fill, Writing, Files, Kept, Shape, Progress, Losses, Added, Removed, Imported
<1>7. Values'
  BY <1>1, <1>p, ListAssumption
     DEF Fill, Writing, Files, Kept, Requests, TypeOK, Values
<1>8. q.op \notin Apart \/ (list' = list /\ bak' = bak)
  BY <1>1, <1>p DEF Fill, Writing, Files, Kept, Shape, Apart
<1> QED
  BY <1>2, <1>3, <1>5, <1>6, <1>7, <1>8, OneTab

\* Filled keeps the invariant.
LEMMA FilledInv ==
  ASSUME Inv, NEW t \in Tab, Filled(t)
  PROVE  Inv'
<1>1. /\ req[t] \in Requests /\ req \in [Tab -> Requests] /\ Shape(req[t]) /\ TypeOK
      /\ req[t].alone = TRUE => Progress(req[t], list) /\ Losses(req[t], list, bak)
      /\ req[t].op \in {"none", "add", "del", "append", "replace", "toggle", "stray"}
      /\ req[t].asked \subseteq Domain /\ req[t].copy \subseteq Domain
  BY DEF Inv, TypeOK, Tabwise, Requests
<1> DEFINE q == req[t]
           r == [q EXCEPT !.at = "reload"]
<1>2. req' = [req EXCEPT ![t] = r]
  BY <1>1 DEF Filled, Go, Files, resolver, Kept
<1>3. r \in Requests
  BY <1>1, NoRequestType
     DEF Filled, Go, Files, resolver, Kept, Requests, Running, Serving, TypeOK
<1>4. /\ r.op = q.op /\ r.at = "reload" /\ r.asked = q.asked /\ r.left = q.left
      /\ r.batch = q.batch /\ r.changed = q.changed /\ r.copy = q.copy
      /\ r.alone = q.alone
  BY <1>1 DEF Requests, NoRequest
<1> HIDE DEF r
<1>5. Shape(r) /\ Continues(q, r)
  BY <1>1, <1>4 DEF Filled, Go, Files, resolver, Kept, Shape, Apart, Continues
<1>6. r.alone = TRUE => Progress(r, list') /\ Losses(r, list', bak')
  BY <1>1, <1>4
     DEF Filled, Go, Files, resolver, Kept, Shape, Progress, Losses, Added, Removed,
         Imported
<1>7. Values'
  BY <1>1, ListAssumption
     DEF Filled, Go, Files, resolver, Kept, Requests, TypeOK, Values
<1>8. q.op \notin Apart \/ (list' = list /\ bak' = bak)
  BY <1>1 DEF Filled, Go, Files, resolver, Kept, Shape, Apart
<1> QED
  BY <1>2, <1>3, <1>5, <1>6, <1>7, <1>8, OneTab

\* Reload keeps the invariant.
LEMMA ReloadInv ==
  ASSUME Inv, NEW t \in Tab, Reload(t)
  PROVE  Inv'
<1>1. /\ req[t] \in Requests /\ req \in [Tab -> Requests] /\ Shape(req[t]) /\ TypeOK
      /\ req[t].alone = TRUE => Progress(req[t], list) /\ Losses(req[t], list, bak)
      /\ req[t].op \in {"none", "add", "del", "append", "replace", "toggle", "stray"}
      /\ req[t].asked \subseteq Domain /\ req[t].copy \subseteq Domain
  BY DEF Inv, TypeOK, Tabwise, Requests
<1> DEFINE q == req[t]
           r == [q EXCEPT !.at = IF q.op = "replace" THEN "done" ELSE "next"]
<1>2. req' = [req EXCEPT ![t] = r]
  BY <1>1 DEF Reload, Onward, Restarted, Go, Files, Kept
<1>3. r \in Requests
  BY <1>1, NoRequestType
     DEF Reload, Onward, Restarted, Go, Files, Kept, Requests, Running, Serving, TypeOK
<1>4. /\ r.op = q.op /\ r.at = (IF q.op = "replace" THEN "done" ELSE "next")
      /\ r.asked = q.asked /\ r.left = q.left
      /\ r.batch = q.batch /\ r.changed = q.changed /\ r.copy = q.copy
      /\ r.alone = q.alone
  BY <1>1 DEF Requests, NoRequest
<1> HIDE DEF r
<1>5. Shape(r) /\ Continues(q, r)
  BY <1>1, <1>4 DEF Reload, Onward, Restarted, Go, Files, Kept, Shape, Apart, Continues
<1>6. r.alone = TRUE => Progress(r, list') /\ Losses(r, list', bak')
  BY <1>1, <1>4
     DEF Reload, Onward, Restarted, Go, Files, Kept, Shape, Progress, Losses, Added,
         Removed, Imported
<1>7. Values'
  BY <1>1, ListAssumption
     DEF Reload, Onward, Restarted, Go, Files, Kept, Requests, TypeOK, Values
<1>8. q.op \notin Apart \/ (list' = list /\ bak' = bak)
  BY <1>1 DEF Reload, Onward, Restarted, Go, Files, Kept, Shape, Apart
<1> QED
  BY <1>2, <1>3, <1>5, <1>6, <1>7, <1>8, OneTab

\* FailUnseen keeps the invariant.
LEMMA FailUnseenInv ==
  ASSUME Inv, NEW t \in Tab, FailUnseen(t)
  PROVE  Inv'
<1>1. /\ req[t] \in Requests /\ req \in [Tab -> Requests] /\ Shape(req[t]) /\ TypeOK
      /\ req[t].alone = TRUE => Progress(req[t], list) /\ Losses(req[t], list, bak)
      /\ req[t].op \in {"none", "add", "del", "append", "replace", "toggle", "stray"}
      /\ req[t].asked \subseteq Domain /\ req[t].copy \subseteq Domain
  BY DEF Inv, TypeOK, Tabwise, Requests
<1> DEFINE q == req[t]
           r == [q EXCEPT !.at = IF q.at # "reload" THEN "reload"
                                  ELSE IF q.op = "replace" THEN "done" ELSE "next",
                          !.copy = {}, !.changed = FALSE]
<1>2. req' = [req EXCEPT ![t] = r]
  BY <1>1 DEF FailUnseen, Onward, Files, resolver
<1>3. r \in Requests
  BY <1>1, NoRequestType
     DEF FailUnseen, Onward, Files, resolver, Requests, Running, Serving, TypeOK
<1>4. /\ r.op = q.op /\ r.at = (IF q.at # "reload" THEN "reload"
                  ELSE IF q.op = "replace" THEN "done" ELSE "next")
      /\ r.asked = q.asked /\ r.left = q.left
      /\ r.batch = q.batch /\ r.changed = FALSE /\ r.copy = {}
      /\ r.alone = q.alone
  BY <1>1 DEF Requests, NoRequest
<1> HIDE DEF r
<1>5. Shape(r) /\ Continues(q, r)
  BY <1>1, <1>4 DEF FailUnseen, Onward, Files, resolver, Shape, Apart, Continues
<1>6. r.alone = TRUE => Progress(r, list') /\ Losses(r, list', bak')
  BY <1>1, <1>4
     DEF FailUnseen, Onward, Files, resolver, Shape, Progress, Losses, Added, Removed,
         Imported
<1>7. Values'
  BY <1>1, ListAssumption
     DEF FailUnseen, Onward, Files, resolver, Requests, TypeOK, Values
<1>8. q.op \notin Apart \/ (list' = list /\ bak' = bak)
  BY <1>1 DEF FailUnseen, Onward, Files, resolver, Shape, Apart
<1> QED
  BY <1>2, <1>3, <1>5, <1>6, <1>7, <1>8, OneTab

\* StrayEnds keeps the invariant.
LEMMA StrayEndsInv ==
  ASSUME Inv, NEW t \in Tab, StrayEnds(t)
  PROVE  Inv'
<1>1. /\ req[t] \in Requests /\ req \in [Tab -> Requests] /\ Shape(req[t]) /\ TypeOK
      /\ req[t].alone = TRUE => Progress(req[t], list) /\ Losses(req[t], list, bak)
      /\ req[t].op \in {"none", "add", "del", "append", "replace", "toggle", "stray"}
      /\ req[t].asked \subseteq Domain /\ req[t].copy \subseteq Domain
  BY DEF Inv, TypeOK, Tabwise, Requests
<1> DEFINE q == req[t]
           r == NoRequest
<1>2. req' = [req EXCEPT ![t] = r]
  BY <1>1 DEF StrayEnds, Files, resolver, Kept
<1>3. r \in Requests
  BY <1>1, NoRequestType
     DEF StrayEnds, Files, resolver, Kept, Requests, Running, Serving, TypeOK
<1>4. /\ r.op = "none" /\ r.at = "idle" /\ r.asked = {} /\ r.left = {}
      /\ r.batch = {} /\ r.changed = FALSE /\ r.copy = {}
      /\ r.alone = FALSE
  BY <1>1 DEF Requests, NoRequest
<1> HIDE DEF r
<1>5. Shape(r) /\ Continues(q, r)
  BY <1>1, <1>4 DEF StrayEnds, Files, resolver, Kept, Shape, Apart, Continues
<1>6. r.alone = TRUE => Progress(r, list') /\ Losses(r, list', bak')
  BY <1>1, <1>4
     DEF StrayEnds, Files, resolver, Kept, Shape, Progress, Losses, Added, Removed,
         Imported
<1>7. Values'
  BY <1>1, ListAssumption
     DEF StrayEnds, Files, resolver, Kept, Requests, TypeOK, Values
<1>8. q.op \notin Apart \/ (list' = list /\ bak' = bak)
  BY <1>1 DEF StrayEnds, Files, resolver, Kept, Shape, Apart
<1> QED
  BY <1>2, <1>3, <1>5, <1>6, <1>7, <1>8, OneTab

\* A kill that ends all there was keeps the invariant.
LEMMA KilledInv ==
  ASSUME Inv, NEW t \in Tab, Kill(t), req' = [req EXCEPT ![t] = NoRequest]
  PROVE  Inv'
<1>1. /\ req[t] \in Requests /\ req \in [Tab -> Requests] /\ Shape(req[t]) /\ TypeOK
      /\ req[t].alone = TRUE => Progress(req[t], list) /\ Losses(req[t], list, bak)
      /\ req[t].op \in {"none", "add", "del", "append", "replace", "toggle", "stray"}
      /\ req[t].asked \subseteq Domain /\ req[t].copy \subseteq Domain
  BY DEF Inv, TypeOK, Tabwise, Requests
<1> DEFINE q == req[t]
           r == NoRequest
<1>2. req' = [req EXCEPT ![t] = r]
  BY <1>1 DEF Kill, Files, resolver
<1>3. r \in Requests
  BY <1>1, NoRequestType DEF Kill, Files, resolver, Requests, Running, Serving, TypeOK
<1>4. /\ r.op = "none" /\ r.at = "idle" /\ r.asked = {} /\ r.left = {}
      /\ r.batch = {} /\ r.changed = FALSE /\ r.copy = {}
      /\ r.alone = FALSE
  BY <1>1 DEF Requests, NoRequest
<1> HIDE DEF r
<1>5. Shape(r) /\ Continues(q, r)
  BY <1>1, <1>4 DEF Kill, Files, resolver, Shape, Apart, Continues
<1>6. r.alone = TRUE => Progress(r, list') /\ Losses(r, list', bak')
  BY <1>1, <1>4
     DEF Kill, Files, resolver, Shape, Progress, Losses, Added, Removed, Imported
<1>7. Values'
  BY <1>1, ListAssumption
     DEF Kill, Files, resolver, Requests, TypeOK, Values
<1>8. q.op \notin Apart \/ (list' = list /\ bak' = bak)
  BY <1>1 DEF Kill, Files, resolver, Shape, Apart
<1> QED
  BY <1>2, <1>3, <1>5, <1>6, <1>7, <1>8, OneTab

\* A kill that leaves a generation behind keeps the invariant.
LEMMA StrayInv ==
  ASSUME Inv, NEW t \in Tab, Kill(t),
         req' = [req EXCEPT ![t] = [NoRequest EXCEPT !.op = "stray", !.at = "stray",
                                                     !.copy = req[t].copy]]
  PROVE  Inv'
<1>1. /\ req[t] \in Requests /\ req \in [Tab -> Requests] /\ Shape(req[t]) /\ TypeOK
      /\ req[t].alone = TRUE => Progress(req[t], list) /\ Losses(req[t], list, bak)
      /\ req[t].op \in {"none", "add", "del", "append", "replace", "toggle", "stray"}
      /\ req[t].asked \subseteq Domain /\ req[t].copy \subseteq Domain
  BY DEF Inv, TypeOK, Tabwise, Requests
<1> DEFINE q == req[t]
           r == [NoRequest EXCEPT !.op = "stray", !.at = "stray", !.copy = req[t].copy]
<1>2. req' = [req EXCEPT ![t] = r]
  BY <1>1 DEF Kill, Files, resolver
<1>3. r \in Requests
  BY <1>1, NoRequestType DEF Kill, Files, resolver, Requests, Running, Serving, TypeOK
<1>4. /\ r.op = "stray" /\ r.at = "stray" /\ r.asked = {} /\ r.left = {}
      /\ r.batch = {} /\ r.changed = FALSE /\ r.copy = req[t].copy
      /\ r.alone = FALSE
  BY <1>1 DEF Requests, NoRequest
<1> HIDE DEF r
<1>5. Shape(r) /\ Continues(q, r)
  BY <1>1, <1>4 DEF Kill, Files, resolver, Shape, Apart, Continues
<1>6. r.alone = TRUE => Progress(r, list') /\ Losses(r, list', bak')
  BY <1>1, <1>4
     DEF Kill, Files, resolver, Shape, Progress, Losses, Added, Removed, Imported
<1>7. Values'
  BY <1>1, ListAssumption
     DEF Kill, Files, resolver, Requests, TypeOK, Values
<1>8. q.op \notin Apart \/ (list' = list /\ bak' = bak)
  BY <1>1 DEF Kill, Files, resolver, Shape, Apart
<1> QED
  BY <1>2, <1>3, <1>5, <1>6, <1>7, <1>8, OneTab

\* Kill keeps the invariant.
LEMMA KillInv ==
  ASSUME Inv, NEW t \in Tab, Kill(t)
  PROVE  Inv'
BY KilledInv, StrayInv DEF Kill, Remains

\* AddOne keeps the invariant.
LEMMA AddOneInv ==
  ASSUME Inv, NEW t \in Tab, AddOne(t)
  PROVE  Inv'
<1>1. /\ req[t] \in Requests /\ req \in [Tab -> Requests] /\ Shape(req[t]) /\ TypeOK
      /\ req[t].alone = TRUE => Progress(req[t], list) /\ Losses(req[t], list, bak)
      /\ req[t].op \in {"none", "add", "del", "append", "replace", "toggle", "stray"}
      /\ req[t].asked \subseteq Domain
  BY DEF Inv, TypeOK, Tabwise, Requests
<1>p. PICK d \in req[t].batch :
        /\ list' = (IF Listed(list, d) THEN list ELSE list \cup {d})
        /\ req' = [req EXCEPT ![t].batch = @ \ {d},
                              ![t].changed = @ \/ ~Listed(list, d)]
  BY DEF AddOne
<1>q. d \in Domain
  BY <1>p, <1>1 DEF Requests
<1> DEFINE q == req[t]
           r == [q EXCEPT !.batch = q.batch \ {d},
                           !.changed = (q.changed \/ ~Listed(list, d))]
<1>2. req' = [req EXCEPT ![t] = r]
  BY <1>p, <1>q, <1>1 DEF AddOne, Kept
<1>3. r \in Requests
  BY <1>p, <1>q, <1>1 DEF AddOne, Kept, Requests, Running, Serving, TypeOK
<1>4. /\ r.op = q.op /\ r.at = q.at /\ r.asked = q.asked /\ r.left = q.left
      /\ r.batch = q.batch \ {d} /\ r.changed = (q.changed \/ ~Listed(list, d))
      /\ r.copy = q.copy /\ r.alone = q.alone
  BY <1>1 DEF Requests
<1> HIDE DEF r
<1>5. Shape(r) /\ Continues(q, r)
  BY <1>p, <1>q, <1>1, <1>4 DEF AddOne, Kept, Shape, Apart, Continues, LastBatch
<1>6. r.alone = TRUE => Progress(r, list') /\ Losses(r, list', bak')
  BY <1>p, <1>q, <1>1, <1>4, ListedItself, ListedMore
     DEF AddOne, Kept, Shape, Progress, Losses, Added, Removed, Imported, LastBatch
<1>7. Values'
  BY <1>p, <1>q, <1>1, ListAssumption
     DEF AddOne, Kept, resolver, Requests, TypeOK, Values
<1>8. q.op \notin Apart \/ (list' = list /\ bak' = bak)
  BY <1>p, <1>q, <1>1 DEF AddOne, Kept, Shape, Apart
<1> QED
  BY <1>2, <1>3, <1>5, <1>6, <1>7, <1>8, OneTab

\* DelOne keeps the invariant.
LEMMA DelOneInv ==
  ASSUME Inv, NEW t \in Tab, DelOne(t)
  PROVE  Inv'
<1>1. /\ req[t] \in Requests /\ req \in [Tab -> Requests] /\ Shape(req[t]) /\ TypeOK
      /\ req[t].alone = TRUE => Progress(req[t], list) /\ Losses(req[t], list, bak)
      /\ req[t].op \in {"none", "add", "del", "append", "replace", "toggle", "stray"}
      /\ req[t].asked \subseteq Domain
  BY DEF Inv, TypeOK, Tabwise, Requests
<1>p. PICK d \in req[t].batch : req' = [req EXCEPT ![t] = Matched(req[t], d)]
  BY DEF DelOne
<1>q. d \in Domain
  BY <1>p, <1>1 DEF Requests
<1>2. CASE \E l \in list : <<l, d>> \in Ends
  <2> DEFINE q == req[t]
             r == [q EXCEPT !.at = "sed", !.copy = {l \in list : <<l, d>> \notin Holds},
                             !.changed = TRUE, !.batch = q.batch \ {d}]
  <2>a. Matched(q, d) = r
    BY <1>2 DEF Matched
  <2>1. req' = [req EXCEPT ![t] = r]
    <3> HIDE DEF r
    <3> QED
      BY <1>p, <2>a
  <2>2. r \in Requests
    BY <1>2, <1>p, <1>q, <1>1
       DEF DelOne, Files, resolver, Kept, Requests, Running, Serving, TypeOK
  <2>3. /\ r.op = q.op /\ r.at = "sed" /\ r.asked = q.asked /\ r.left = q.left
        /\ r.batch = q.batch \ {d} /\ r.changed = TRUE
        /\ r.copy = {l \in list : <<l, d>> \notin Holds} /\ r.alone = q.alone
    BY <1>1 DEF Requests
  <2> HIDE DEF r
  <2>4. Shape(r) /\ Continues(q, r)
    BY <1>2, <1>p, <1>q, <1>1, <2>3
       DEF DelOne, Files, resolver, Kept, Shape, Apart, Continues, LastBatch
  <2>5. r.alone = TRUE => Progress(r, list') /\ Losses(r, list', bak')
    BY <1>2, <1>p, <1>q, <1>1, <2>3, ListedItself, ListedMore, ListAssumption
       DEF DelOne, Files, resolver, Kept, Shape, Progress, Losses, Added, Removed,
           Imported, LastBatch
  <2>6. Values'
    BY <1>2, <1>p, <1>q, <1>1, ListAssumption
       DEF DelOne, Files, resolver, Kept, Requests, TypeOK, Values
  <2>7. q.op \notin Apart \/ (list' = list /\ bak' = bak)
    BY <1>2, <1>p, <1>q, <1>1 DEF DelOne, Files, resolver, Kept, Shape, Apart
  <2> QED
    BY <2>1, <2>2, <2>4, <2>5, <2>6, <2>7, OneTab
<1>3. CASE ~\E l \in list : <<l, d>> \in Ends
  <2> DEFINE q == req[t]
             r == [q EXCEPT !.batch = q.batch \ {d}]
  <2>a. Matched(q, d) = r
    BY <1>3 DEF Matched
  <2>1. req' = [req EXCEPT ![t] = r]
    <3> HIDE DEF r
    <3> QED
      BY <1>p, <2>a
  <2>2. r \in Requests
    BY <1>3, <1>p, <1>q, <1>1
       DEF DelOne, Files, resolver, Kept, Requests, Running, Serving, TypeOK
  <2>3. /\ r.op = q.op /\ r.at = q.at /\ r.asked = q.asked /\ r.left = q.left
        /\ r.batch = q.batch \ {d} /\ r.changed = q.changed /\ r.copy = q.copy
        /\ r.alone = q.alone
    BY <1>1 DEF Requests
  <2> HIDE DEF r
  <2>4. Shape(r) /\ Continues(q, r)
    BY <1>3, <1>p, <1>q, <1>1, <2>3
       DEF DelOne, Files, resolver, Kept, Shape, Apart, Continues, LastBatch
  <2>5. r.alone = TRUE => Progress(r, list') /\ Losses(r, list', bak')
    BY <1>3, <1>p, <1>q, <1>1, <2>3, ListedItself, ListedMore, ListAssumption
       DEF DelOne, Files, resolver, Kept, Shape, Progress, Losses, Added, Removed,
           Imported, LastBatch
  <2>6. Values'
    BY <1>3, <1>p, <1>q, <1>1, ListAssumption
       DEF DelOne, Files, resolver, Kept, Requests, TypeOK, Values
  <2>7. q.op \notin Apart \/ (list' = list /\ bak' = bak)
    BY <1>3, <1>p, <1>q, <1>1 DEF DelOne, Files, resolver, Kept, Shape, Apart
  <2> QED
    BY <2>1, <2>2, <2>4, <2>5, <2>6, <2>7, OneTab
<1> QED
  BY <1>2, <1>3, <1>p DEF DelOne

\* NextBatch keeps the invariant.
LEMMA NextBatchInv ==
  ASSUME Inv, NEW t \in Tab, NextBatch(t)
  PROVE  Inv'
<1>1. /\ req[t] \in Requests /\ req \in [Tab -> Requests] /\ Shape(req[t]) /\ TypeOK
      /\ req[t].alone = TRUE => Progress(req[t], list) /\ Losses(req[t], list, bak)
      /\ req[t].op \in {"none", "add", "del", "append", "replace", "toggle", "stray"}
      /\ req[t].asked \subseteq Domain
  BY DEF Inv, TypeOK, Tabwise, Requests
<1>2. CASE LastBatch(t) /\ Go(t, "done") /\ req[t].at = "next"
  <2> DEFINE q == req[t]
             r == [q EXCEPT !.at = "done"]
  <2>1. req' = [req EXCEPT ![t] = r]
    BY <1>2, <1>1 DEF NextBatch, Go, Files, resolver, Kept
  <2>2. r \in Requests
    BY <1>2, <1>1
       DEF NextBatch, Go, Files, resolver, Kept, Requests, Running, Serving, TypeOK
  <2>3. /\ r.op = q.op /\ r.at = "done" /\ r.asked = q.asked /\ r.left = q.left
        /\ r.batch = q.batch /\ r.changed = q.changed /\ r.copy = q.copy
        /\ r.alone = q.alone
    BY <1>1 DEF Requests
  <2> HIDE DEF r
  <2>4. Shape(r) /\ Continues(q, r)
    BY <1>2, <1>1, <2>3
       DEF NextBatch, Go, Files, resolver, Kept, Shape, Apart, Continues, LastBatch
  <2>5. r.alone = TRUE => Progress(r, list') /\ Losses(r, list', bak')
    BY <1>2, <1>1, <2>3, ListedItself, ListedMore
       DEF NextBatch, Go, Files, resolver, Kept, Shape, Progress, Losses, Added, Removed,
           Imported, LastBatch
  <2>6. Values'
    BY <1>2, <1>1, ListAssumption
       DEF NextBatch, Go, Files, resolver, Kept, Requests, TypeOK, Values
  <2>7. q.op \notin Apart \/ (list' = list /\ bak' = bak)
    BY <1>2, <1>1 DEF NextBatch, Go, Files, resolver, Kept, Shape, Apart
  <2> QED
    BY <2>1, <2>2, <2>4, <2>5, <2>6, <2>7, OneTab
<1>3. CASE ~LastBatch(t)
  <2>p. PICK batch \in SUBSET req[t].left :
          req' = [req EXCEPT ![t].batch = batch, ![t].left = @ \ batch, ![t].at = "kvas"]
    BY <1>3 DEF NextBatch, LastBatch, Go
  <2> DEFINE q == req[t]
             r == [q EXCEPT !.batch = batch, !.left = q.left \ batch, !.at = "kvas"]
  <2>1. req' = [req EXCEPT ![t] = r]
    BY <1>3, <2>p, <1>1 DEF NextBatch, Files, resolver, Kept
  <2>2. r \in Requests
    BY <1>3, <2>p, <1>1
       DEF NextBatch, Files, resolver, Kept, Requests, Running, Serving, TypeOK
  <2>3. /\ r.op = q.op /\ r.at = "kvas" /\ r.asked = q.asked
        /\ r.left = q.left \ batch /\ r.batch = batch /\ r.changed = q.changed
        /\ r.copy = q.copy /\ r.alone = q.alone
    BY <1>1 DEF Requests
  <2> HIDE DEF r
  <2>4. Shape(r) /\ Continues(q, r)
    BY <1>3, <2>p, <1>1, <2>3
       DEF NextBatch, Files, resolver, Kept, Shape, Apart, Continues, LastBatch
  <2>5. r.alone = TRUE => Progress(r, list') /\ Losses(r, list', bak')
    BY <1>3, <2>p, <1>1, <2>3, ListedItself, ListedMore
       DEF NextBatch, Files, resolver, Kept, Shape, Progress, Losses, Added, Removed,
           Imported, LastBatch
  <2>6. Values'
    BY <1>3, <2>p, <1>1, ListAssumption
       DEF NextBatch, Files, resolver, Kept, Requests, TypeOK, Values
  <2>7. q.op \notin Apart \/ (list' = list /\ bak' = bak)
    BY <1>3, <2>p, <1>1 DEF NextBatch, Files, resolver, Kept, Shape, Apart
  <2> QED
    BY <2>1, <2>2, <2>4, <2>5, <2>6, <2>7, OneTab
<1> QED
  BY <1>2, <1>3 DEF NextBatch, LastBatch

-----------------------------------------------------------------------------
(* A new request *)

\* Who has the list to itself loses it when another request begins.
LEMMA BeginInv ==
  ASSUME Inv, NEW t \in Tab, NEW op \in {"add", "del", "append", "replace"},
         NEW at, at = (IF op \in {"add", "del"} THEN "next" ELSE "backup"),
         NEW lines, Begin(t, op, lines, at)
  PROVE  Inv'
<1> DEFINE alone == \A u \in Tab : req[u].op \in Apart
           r == [NoRequest EXCEPT !.op = op, !.at = at, !.alone = alone,
                   !.asked = Valid(lines), !.left = Valid(lines)]
           other(u) == [req[u] EXCEPT !.alone = FALSE]
<1>1. /\ req \in [Tab -> Requests]
      /\ req' = [u \in Tab |-> IF u = t THEN r ELSE other(u)]
      /\ list' = list /\ bak' = bak /\ UNCHANGED <<resolver, kills, missed, mixed>>
  BY DEF Begin, Inv, TypeOK, Files, Kept
<1>2. /\ r.op = op /\ r.at = at /\ r.asked = Valid(lines) /\ r.left = Valid(lines)
      /\ r.batch = {} /\ r.changed = FALSE /\ r.copy = {} /\ r.alone = alone
  BY DEF NoRequest
<1>3. r \in Requests
  BY DEF Requests, Running, Serving, NoRequest, Valid
<1>4. ASSUME NEW u \in Tab
      PROVE  /\ other(u) \in Requests
             /\ other(u).op = req[u].op /\ other(u).at = req[u].at
             /\ other(u).asked = req[u].asked /\ other(u).left = req[u].left
             /\ other(u).batch = req[u].batch /\ other(u).changed = req[u].changed
             /\ other(u).copy = req[u].copy /\ other(u).alone = FALSE
  BY <1>1 DEF Requests
<1> HIDE DEF r, other
<1>5. req'[t] = r /\ \A u \in Tab : u # t => req'[u] = other(u)
  BY <1>1
<1>6. TypeOK'
  BY <1>1, <1>3, <1>4 DEF Inv, TypeOK, resolver
<1>7. Alone'
  <2>1. CASE alone
    <3>1. \A u \in Tab : req[u].op \in Apart
      BY <2>1
    <3>2. \A u \in Tab : u # t => /\ req'[u].alone # TRUE
                                 /\ req'[u].op \in Apart
      BY <1>4, <1>5, <3>1
    <3> QED
      BY <3>2 DEF Alone
  <2>2. CASE ~alone
    <3>1. r.alone # TRUE
      BY <1>2, <2>2
    <3> QED
      BY <1>4, <1>5, <3>1 DEF Alone
  <2> QED
    BY <2>1, <2>2
<1>8. Tabwise'
  <2>1. Shape(r)
    BY <1>2 DEF Shape, Apart
  <2>2. Progress(r, list') /\ Losses(r, list', bak')
    BY <1>2 DEF Progress, Losses, Added, Removed
  <2>3. ASSUME NEW u \in Tab PROVE Shape(other(u))
    <3>1. Shape(req[u])
      BY DEF Inv, Tabwise
    <3> QED
      BY <1>4, <3>1 DEF Shape
  <2> QED
    BY <1>4, <1>5, <2>1, <2>2, <2>3 DEF Tabwise
<1> QED
  BY <1>6, <1>7, <1>8 DEF Inv

-----------------------------------------------------------------------------
\* Every step keeps the invariant.
LEMMA NextInv == Inv /\ [Next]_vars => Inv'
<1> SUFFICES ASSUME Inv, [Next]_vars PROVE Inv'
  OBVIOUS
<1>1. CASE UNCHANGED vars
  BY <1>1 DEF vars, resolver, Inv, TypeOK, Alone, Tabwise
<1>2. ASSUME NEW t \in Tab, Request(t) PROVE Inv'
  <2>1. CASE HostAdd(t) \/ HostDel(t)
    <3>1. PICK d \in Domain, op \in {"add", "del"} : Begin(t, op, {d}, "next")
      BY <2>1 DEF HostAdd, HostDel
    <3> QED
      BY <3>1, BeginInv
  <2>2. CASE ApplyTag(t)
    <3>1. PICK tag \in Tags, op \in {"add", "del"} : Begin(t, op, tag, "next")
      BY <2>2 DEF ApplyTag
    <3> QED
      BY <3>1, BeginInv
  <2>3. CASE Import(t)
    <3>1. PICK lines \in Texts, op \in {"append", "replace"} :
            Begin(t, op, lines, "backup")
      BY <2>3 DEF Import
    <3> QED
      BY <3>1, BeginInv
  <2> QED
    BY <1>2, <2>1, <2>2, <2>3, AdblockToggleInv DEF Request
<1>3. ASSUME NEW t \in Tab, Step(t) PROVE Inv'
  BY <1>3, BackupInv, HaveInv, NextBatchInv, ReplyInv, AddOneInv, DelOneInv, SedInv,
     RunEndsInv, EmptyInv, FillInv, FilledInv, ReloadInv, FailUnseenInv, ReadExistingInv, 
     AppendAllInv, ClearInv, TruncateInv, WriteInv, ToggleInv, RestartResolverInv,
         GiveUpInv DEF Step
<1> QED
  BY <1>1, <1>2, <1>3, KillInv, StrayEndsInv DEF Next

\* The invariant holds of the list and its requests, however they overlap.
THEOREM Invariant == Spec => []Inv
BY InitInv, NextInv, PTL DEF Spec

\* However many tabs work on the list, it holds accepted domains and requests
\* keep their shape.
THEOREM Types == Spec => []TypeOK
<1>1. Inv => TypeOK
  BY DEF Inv
<1> QED
  BY <1>1, Invariant, PTL

\* A request that ran alone and reports success did all it was asked, whatever
\* the size of its batches and of the domains' texts.
THEOREM AlwaysReported == Spec => []Reported
<1>1. Inv => Reported
  <2> SUFFICES ASSUME Inv, NEW t \in Tab, req[t].at = "done", req[t].alone,
                      NEW d \in req[t].asked
               PROVE  IF req[t].op = "del" THEN \A l \in list : <<l, d>> \notin Ends
                                           ELSE Listed(list, d)
    BY DEF Reported
  <2>1. /\ Shape(req[t]) /\ Progress(req[t], list)
        /\ req[t].op \in {"none", "add", "del", "append", "replace", "toggle", "stray"}
    BY DEF Inv, Tabwise, TypeOK, Requests
  <2> QED
    BY <2>1 DEF Shape, Progress, Added, Removed, Imported
<1> QED
  BY <1>1, Invariant, PTL

-----------------------------------------------------------------------------
(* From the list to the resolver *)

\* The request is going to generate the file of the resolver.
Pending(r) == r.changed = TRUE \/ r.at \in {"clear", "truncate", "write", "update"}

\* A generation is owed: a request has it still before it, or one came to nothing.
Owed == missed = TRUE \/ \E t \in Tab : Pending(req[t])

\* A restart of the resolver after a generation is to come.
Underway == \E t \in Tab : req[t].at \in {"fill", "reload"}

\* Every domain is in the file, or still to be written there.
Written ==
  \A d \in list : d \in conf \/ \E t \in Tab : req[t].at = "fill" /\ d \in req[t].copy

\* Nothing else is, or will be.
NoOther ==
  /\ conf \subseteq list
  /\ \A t \in Tab : req[t].at \in {"fill", "stray"} => req[t].copy \subseteq list

\* The file, what the resolver has read of it, and the directive.
Generated == Owed \/ (Written /\ (mixed = TRUE \/ NoOther))
Taken ==
  \/ Owed \/ Underway
  \/ list \subseteq loaded /\ (mixed = TRUE \/ loaded \subseteq list)
Directed ==
  stale = TRUE =>
    missed = TRUE \/ \E t \in Tab : req[t].at \in {"fill", "reload", "restart"}

Resolver == Generated /\ Taken /\ Directed

\* What becomes of the request of the tab that takes a step.
LEMMA StepAt ==
  ASSUME Inv, NEW t \in Tab
  PROVE  /\ req \in [Tab -> Requests] /\ req[t] \in Requests /\ Shape(req[t])
         /\ req[t].changed \in BOOLEAN /\ missed \in BOOLEAN /\ mixed \in BOOLEAN
         /\ stale \in BOOLEAN
BY DEF Inv, TypeOK, Tabwise, Requests

\* A step that leaves the resolver and its file alone, and changes the list only
\* when a generation is to follow.
LEMMA Aside ==
  ASSUME Resolver, NEW t \in Tab, UNCHANGED <<resolver, missed, mixed>>,
         \A u \in Tab \ {t} : /\ req'[u].at = req[u].at /\ req'[u].copy = req[u].copy
                              /\ req'[u].changed = req[u].changed,
         req[t].at \notin {"fill", "reload", "restart"},
         req'[t].at \notin {"fill", "stray"},
         Pending(req[t]) => Pending(req'[t]),
         list' = list \/ Pending(req'[t])
  PROVE  Resolver'
<1>1. \A u \in Tab : Pending(req[u]) => Pending(req'[u])
  BY DEF Pending
<1>2. Owed => Owed'
  BY <1>1 DEF Owed
<1>3. Generated'
  <2>1. CASE Pending(req'[t])
    BY <2>1 DEF Generated, Owed, Pending
  <2>2. CASE list' = list
    <3>1. Written => Written'
      BY <2>2 DEF Written, resolver
    <3>2. NoOther => NoOther'
      BY <2>2 DEF NoOther, resolver
    <3> QED
      BY <1>2, <3>1, <3>2 DEF Resolver, Generated
  <2> QED
    BY <2>1, <2>2
<1>4. Taken'
  <2>1. CASE Pending(req'[t])
    BY <2>1 DEF Taken, Owed, Pending
  <2>2. CASE list' = list
    <3>1. Underway => Underway'
      BY DEF Underway
    <3> QED
      BY <1>2, <2>2, <3>1 DEF Resolver, Taken, resolver
  <2> QED
    BY <2>1, <2>2
<1>5. Directed'
  BY DEF Resolver, Directed, resolver
<1> QED
  BY <1>3, <1>4, <1>5 DEF Resolver

\* A new request.
LEMMA RequestFollows ==
  ASSUME Inv, Resolver, NEW t \in Tab, Request(t)
  PROVE  Resolver'
<1> USE StepAt
<1>1. CASE AdblockToggle(t)
  <2>1. req[t].at = "idle" /\ req'[t].at = "toggle" /\ list' = list
    BY <1>1 DEF AdblockToggle, NoRequest, Files
  <2>2. \A u \in Tab \ {t} : req'[u] = req[u]
    BY <1>1 DEF AdblockToggle
  <2>3. ~Pending(req[t])
    BY <2>1 DEF Shape, Pending
  <2>4. UNCHANGED <<resolver, missed, mixed>>
    BY <1>1 DEF AdblockToggle, Kept
  <2> QED
    BY <2>1, <2>2, <2>3, <2>4, Aside
<1>2. ASSUME NEW op, NEW lines, NEW at \in {"next", "backup"}, Begin(t, op, lines, at)
      PROVE  Resolver'
  <2>1. req[t].at = "idle" /\ list' = list
    BY <1>2 DEF Begin, Files
  <2>2. req'[t].at = at
    BY <1>2 DEF Begin, NoRequest
  <2>3. ASSUME NEW u \in Tab \ {t}
        PROVE  /\ req'[u].at = req[u].at /\ req'[u].copy = req[u].copy
               /\ req'[u].changed = req[u].changed
    <3>1. req'[u] = [req[u] EXCEPT !.alone = FALSE] /\ req[u] \in Requests
      BY <1>2 DEF Begin
    <3> QED
      BY <3>1 DEF Requests
  <2>4. ~Pending(req[t])
    BY <2>1 DEF Shape, Pending
  <2>5. UNCHANGED <<resolver, missed, mixed>>
    BY <1>2 DEF Begin, Kept
  <2> QED
    BY <2>1, <2>2, <2>3, <2>4, <2>5, Aside
<1> QED
  BY <1>1, <1>2 DEF Request, HostAdd, HostDel, ApplyTag, Import

\* The steps of the handlers and of kvas before a generation.
LEMMA AsideFollows ==
  ASSUME Inv, Resolver, NEW t \in Tab,
         \/ Backup(t) \/ Have(t) \/ NextBatch(t) \/ Reply(t) \/ AddOne(t) \/ DelOne(t)
         \/ Sed(t) \/ RunEnds(t) \/ ReadExisting(t) \/ AppendAll(t) \/ Clear(t)
         \/ Truncate(t) \/ Write(t) \/ GiveUp(t) \/ StrayEnds(t)
  PROVE  Resolver'
<1> USE StepAt
<1>1. UNCHANGED <<resolver, missed, mixed>>
  BY
     DEF Backup, Have, NextBatch, Reply, AddOne, DelOne, Sed, RunEnds, ReadExisting,
         AppendAll, Clear, Truncate, Write, GiveUp, StrayEnds, Kept
<1>2. \A u \in Tab \ {t} : req'[u] = req[u]
  BY
     DEF Backup, Have, NextBatch, Reply, AddOne, DelOne, Sed, RunEnds, ReadExisting,
         AppendAll, Clear, Truncate, Write, GiveUp, StrayEnds, Go
<1>3. req[t].at \notin {"fill", "reload", "restart"}
  BY
     DEF Backup, Have, NextBatch, Reply, AddOne, DelOne, Sed, RunEnds, ReadExisting,
         AppendAll, Clear, Truncate, Write, GiveUp, StrayEnds
<1>4. /\ req'[t].at \notin {"fill", "stray"}
      /\ Pending(req[t]) => Pending(req'[t])
      /\ list' = list \/ Pending(req'[t])
  <2>1. CASE Backup(t) \/ Have(t)
    <3>1. /\ req'[t].at \in {"have", "import", "next"} /\ list' = list
          /\ req[t].at \in {"backup", "have"}
      BY <2>1 DEF Backup, Have, Go, Files, Requests
    <3> QED
      BY <3>1 DEF Shape, Pending
  <2>2. CASE Reply(t) \/ GiveUp(t) \/ StrayEnds(t)
    <3>1. /\ req'[t].at = "idle" /\ list' = list
          /\ req[t].at \in {"done", "backup", "have", "toggle", "stray"}
      BY <2>2 DEF Reply, GiveUp, StrayEnds, Files, NoRequest
    <3> QED
      BY <3>1 DEF Shape, Pending
  <2>3. CASE ReadExisting(t)
    <3>1. req'[t].at = "append" /\ req[t].at = "import" /\ list' = list
      BY <2>3 DEF ReadExisting, Files, Requests
    <3> QED
      BY <3>1 DEF Shape, Pending
  <2>4. CASE AppendAll(t) \/ Clear(t) \/ Truncate(t) \/ Write(t)
    <3>1. req'[t].at \in {"clear", "truncate", "write", "update"}
      BY <2>4 DEF AppendAll, Clear, Truncate, Write, Go, Requests
    <3> QED
      BY <3>1 DEF Pending
  <2>5. CASE NextBatch(t) \/ RunEnds(t)
    <3>1. /\ req[t].at \in {"next", "kvas"} /\ list' = list
          /\ req'[t].at \in {"done", "kvas", "refresh", "next"}
          /\ req'[t].changed = req[t].changed
      <4>1. CASE RunEnds(t)
        BY <4>1 DEF RunEnds, Go, Files, Requests
      <4>2. CASE LastBatch(t) /\ NextBatch(t)
        BY <4>2 DEF NextBatch, Go, Files, Requests
      <4>3. CASE ~LastBatch(t) /\ NextBatch(t)
        <5>1. PICK batch \in SUBSET req[t].left :
                req' = [req EXCEPT ![t].batch = batch, ![t].left = @ \ batch,
                                   ![t].at = "kvas"]
          BY <4>3 DEF NextBatch
        <5> QED
          BY <4>3, <5>1 DEF NextBatch, Files, Requests
      <4> QED
        BY <2>5, <4>1, <4>2, <4>3
    <3> QED
      BY <3>1 DEF Pending
  <2>6. CASE AddOne(t)
    <3>1. PICK d \in req[t].batch :
            /\ list' = (IF Listed(list, d) THEN list ELSE list \cup {d})
            /\ req' = [req EXCEPT ![t].batch = @ \ {d},
                                  ![t].changed = @ \/ ~Listed(list, d)]
      BY <2>6 DEF AddOne
    <3>2. req'[t].at = "kvas" /\ req'[t].changed = (req[t].changed \/ ~Listed(list, d))
      BY <2>6, <3>1 DEF AddOne, Requests
    <3>3. CASE Listed(list, d)
      BY <2>6, <3>1, <3>2, <3>3 DEF AddOne, Pending
    <3>4. CASE ~Listed(list, d)
      BY <3>2, <3>4 DEF Pending
    <3> QED
      BY <3>3, <3>4
  <2>7. CASE DelOne(t)
    <3>1. PICK d \in req[t].batch : req' = [req EXCEPT ![t] = Matched(req[t], d)]
      BY <2>7 DEF DelOne
    <3>2. req'[t] = Matched(req[t], d) /\ req[t].at = "kvas" /\ list' = list
      BY <2>7, <3>1 DEF DelOne, Files
    <3>3. /\ Matched(req[t], d).at \in {"sed", "kvas"}
          /\ Matched(req[t], d).changed \in {TRUE, req[t].changed}
      BY <3>2 DEF Matched, Requests
    <3> QED
      BY <3>2, <3>3 DEF Pending
  <2>8. CASE Sed(t)
    <3>1. /\ req[t].at = "sed" /\ req'[t].at = "kvas"
          /\ req'[t].changed = req[t].changed
      BY <2>8 DEF Sed, Requests
    <3> QED
      BY <3>1 DEF Shape, Pending
  <2> QED
    BY <2>1, <2>2, <2>3, <2>4, <2>5, <2>6, <2>7, <2>8
<1> QED
  BY <1>1, <1>2, <1>3, <1>4, Aside

\* A generation that begins has the whole list before it.
LEMMA EmptyFollows ==
  ASSUME Inv, Resolver, NEW t \in Tab, Empty(t)
  PROVE  Resolver'
<1> USE StepAt
<1>1. /\ req'[t].at = "fill" /\ req'[t].copy = list /\ conf' = {} /\ list' = list
      /\ \A u \in Tab \ {t} : req'[u] = req[u]
  BY DEF Empty, Files, Requests
<1>2. Written'
  BY <1>1 DEF Written
<1>3. mixed' = TRUE \/ NoOther'
  <2>1. CASE \E u \in Tab \ {t} : Writing(u)
    BY <2>1 DEF Empty
  <2>2. CASE \A u \in Tab \ {t} : ~Writing(u)
    <3>1. \A u \in Tab \ {t} : req'[u].at \in {"fill", "stray"} => req'[u].copy = {}
      BY <1>1, <2>2 DEF Writing
    <3> QED
      BY <1>1, <3>1 DEF NoOther
  <2> QED
    BY <2>1, <2>2
<1> QED
  BY <1>1, <1>2, <1>3 DEF Resolver, Generated, Taken, Underway, Directed

\* A line is written to the file.
LEMMA FillFollows ==
  ASSUME Inv, Resolver, NEW t \in Tab, Fill(t)
  PROVE  Resolver'
<1> USE StepAt
<1>1. PICK d \in req[t].copy :
        /\ conf' = conf \cup {d} \/ (conf' = conf /\ PassedOver(d))
        /\ req' = [req EXCEPT ![t].copy = @ \ {d}]
  BY DEF Fill
<1>2. /\ req[t].at \in {"fill", "stray"}
      /\ req'[t].copy = req[t].copy \ {d} /\ req'[t].at = req[t].at
      /\ req'[t].changed = req[t].changed
      /\ \A u \in Tab \ {t} : req'[u] = req[u]
      /\ UNCHANGED <<list, loaded, stale, missed, mixed>>
  BY <1>1 DEF Fill, Writing, Files, Kept, Requests
<1>3. (\A u \in Tab : Pending(req'[u]) <=> Pending(req[u])) /\ (Owed <=> Owed')
  BY <1>2 DEF Owed, Pending
<1>4. Owed \/ (Written => Written')
  <2>1. CASE conf' = conf \cup {d}
    BY <1>2, <2>1 DEF Written
  <2>2. CASE conf' = conf /\ d \notin list
    BY <1>2, <2>2 DEF Written
  <2>3. CASE \E u \in Tab : req[u].at \in {"write", "update"}
    BY <2>3 DEF Owed, Pending
  <2> QED
    BY <1>1, <2>1, <2>2, <2>3 DEF PassedOver
<1>5. NoOther => NoOther'
  BY <1>1, <1>2 DEF NoOther
<1>6. Generated'
  BY <1>2, <1>3, <1>4, <1>5 DEF Resolver, Generated
<1>7. Taken'
  BY <1>2, <1>3 DEF Resolver, Taken, Underway
<1>8. Directed'
  BY <1>2 DEF Resolver, Directed
<1> QED
  BY <1>6, <1>7, <1>8 DEF Resolver

\* A generation has written all its lines.
LEMMA FilledFollows ==
  ASSUME Inv, Resolver, NEW t \in Tab, Filled(t)
  PROVE  Resolver'
<1> USE StepAt
<1>1. /\ req[t].at = "fill" /\ req[t].copy = {} /\ req'[t].at = "reload"
      /\ req'[t].changed = req[t].changed
      /\ \A u \in Tab \ {t} : req'[u] = req[u]
      /\ UNCHANGED <<list, conf, loaded, stale, missed, mixed>>
  BY DEF Filled, Go, Files, resolver, Kept, Requests
<1>2. Owed <=> Owed'
  BY <1>1 DEF Owed, Pending
<1>3. (Written => Written') /\ (NoOther => NoOther')
  BY <1>1 DEF Written, NoOther
<1> QED
  BY <1>1, <1>2, <1>3 DEF Resolver, Generated, Taken, Underway, Directed

\* A restart of the resolver takes in what the file holds.
LEMMA RestartFollows ==
  ASSUME Inv, Resolver, NEW t \in Tab, Reload(t) \/ RestartResolver(t)
  PROVE  Resolver'
<1> USE StepAt
<1>1. /\ req[t].at \in {"reload", "restart"} /\ req'[t].at \in {"done", "next"}
      /\ req'[t].changed = req[t].changed
      /\ \A u \in Tab \ {t} : req'[u] = req[u]
      /\ loaded' = conf /\ stale' = FALSE
      /\ UNCHANGED <<list, conf, missed, mixed>>
  BY DEF Reload, RestartResolver, Onward, Restarted, Go, Files, Kept, Requests
<1>2. Owed <=> Owed'
  BY <1>1 DEF Owed, Pending
<1>3. (Written => Written') /\ (NoOther => NoOther')
  BY <1>1 DEF Written, NoOther
<1>4. Taken'
  <2>1. CASE \E u \in Tab : req[u].at = "fill"
    <3>1. PICK u \in Tab : req[u].at = "fill"
      BY <2>1
    <3>2. Underway'
      BY <1>1, <3>1 DEF Underway
    <3> QED
      BY <3>2 DEF Taken
  <2>2. CASE \A u \in Tab : req[u].at # "fill"
    <3>1. Written => list \subseteq conf
      BY <2>2 DEF Written
    <3>2. NoOther => conf \subseteq list
      BY DEF NoOther
    <3> QED
      BY <1>1, <1>2, <3>1, <3>2 DEF Resolver, Generated, Taken
  <2> QED
    BY <2>1, <2>2
<1> QED
  BY <1>1, <1>2, <1>3, <1>4 DEF Resolver, Generated, Directed

\* What is killed or fails unseen leaves a generation owed.
LEMMA MissedFollows ==
  ASSUME Inv, Resolver, NEW t \in Tab, FailUnseen(t) \/ Kill(t)
  PROVE  Resolver'
<1>1. missed' = TRUE
  BY DEF FailUnseen, Kill
<1> QED
  BY <1>1 DEF Resolver, Generated, Taken, Directed, Owed

\* A change of the directive has its restart before it.
LEMMA ToggleFollows ==
  ASSUME Inv, Resolver, NEW t \in Tab, Toggle(t)
  PROVE  Resolver'
<1> USE StepAt
<1>1. /\ req[t].at = "toggle" /\ req'[t].at = "restart"
      /\ req'[t].changed = req[t].changed
      /\ \A u \in Tab \ {t} : req'[u] = req[u]
      /\ UNCHANGED <<list, conf, loaded, missed, mixed>>
  BY DEF Toggle, Go, Files, Kept, Requests
<1>2. Owed <=> Owed'
  BY <1>1 DEF Owed, Pending
<1>3. (Written => Written') /\ (NoOther => NoOther')
  BY <1>1 DEF Written, NoOther
<1> QED
  BY <1>1, <1>2, <1>3 DEF Resolver, Generated, Taken, Underway, Directed

\* The resolver has the list, or a generation or restart is to come or was lost.
LEMMA AlwaysResolver == Spec => []Resolver
<1>1. Init => Resolver
  BY DEF Init, Resolver, Generated, Taken, Directed, Written, NoOther, NoRequest
<1>2. Inv /\ Resolver /\ [Next]_vars => Resolver'
  <2> SUFFICES ASSUME Inv, Resolver, [Next]_vars PROVE Resolver'
    OBVIOUS
  <2>1. CASE UNCHANGED vars
    <3>1. UNCHANGED <<list, conf, loaded, stale, req, missed, mixed>>
      BY <2>1 DEF vars
    <3> QED
      BY <3>1 DEF Resolver, Generated, Taken, Directed, Owed, Underway, Written, NoOther
  <2>2. ASSUME NEW t \in Tab, Step(t) PROVE Resolver'
    BY <2>2, AsideFollows, EmptyFollows, FillFollows, FilledFollows, RestartFollows,
       MissedFollows, ToggleFollows DEF Step
  <2> QED
    BY <2>1, <2>2, RequestFollows, MissedFollows, AsideFollows DEF Next
<1> QED
  BY <1>1, <1>2, Invariant, PTL DEF Spec

\* However requests overlap, the last of them leaves a resolver that works with
\* the files, unless a killed run or an unseen failure still waits for a
\* generation; what was removed may stay only after overlapping generations.
THEOREM AlwaysFollows == Spec => []ResolverFollows
<1>1. Inv /\ Resolver => ResolverFollows
  <2> SUFFICES ASSUME Inv, Resolver, \A t \in Tab : req[t].at = "idle", ~missed
               PROVE  /\ ~stale /\ list \subseteq loaded
                      /\ ~mixed => loaded = list
    BY DEF ResolverFollows
  <2>1. \A t \in Tab : ~Pending(req[t])
    BY DEF Inv, Tabwise, Shape, Pending
  <2>2. ~Owed /\ ~Underway
    BY <2>1 DEF Owed, Underway
  <2> QED
    BY <2>2 DEF Resolver, Taken, Directed, Inv, TypeOK
<1> QED
  BY <1>1, Invariant, AlwaysResolver, PTL

-----------------------------------------------------------------------------
\* Only sed and clear_file_content take domains out of the list.
LEMMA ListKept ==
  ASSUME [Next]_vars
  PROVE  list \subseteq list' \/ \E t \in Tab : Sed(t) \/ Truncate(t) \/ Write(t)
<1> USE DEF Files
<1>1. ASSUME NEW t \in Tab, Request(t) PROVE list' = list
  BY <1>1 DEF Request, HostAdd, HostDel, ApplyTag, Import, AdblockToggle, Begin
<1>2. ASSUME NEW t \in Tab, Step(t), ~Sed(t), ~Truncate(t), ~Write(t)
      PROVE  list \subseteq list'
  <2>1. CASE AddOne(t) \/ AppendAll(t)
    BY <2>1 DEF AddOne, AppendAll
  <2>2. CASE ~AddOne(t) /\ ~AppendAll(t)
    BY <1>2, <2>2
       DEF Step, Backup, Have, NextBatch, Reply, DelOne, RunEnds, Empty, Fill, Filled,
           Reload, FailUnseen, ReadExisting, Clear, Toggle, RestartResolver, GiveUp
  <2> QED
    BY <2>1, <2>2
<1>3. ASSUME NEW t \in Tab, Kill(t) \/ StrayEnds(t) PROVE list' = list
  BY <1>3 DEF Kill, StrayEnds
<1> QED
  BY <1>1, <1>2, <1>3 DEF Next, vars

\* What leaves the list was to be removed, is in the copy, or was added by a
\* request that another overlapped.
THEOREM AccountedLosses == Spec => LossAccounted
<1>1. ASSUME Inv, [Next]_vars, NEW d \in list \ list'
      PROVE  \E t \in Tab :
               \/ req[t].at = "sed" /\ \E x \in req[t].asked : <<d, x>> \in Holds
               \/ req[t].at = "truncate" /\ d \in bak \cup req[t].asked
               \/ req[t].at \in {"sed", "truncate", "write"} /\ ~req[t].alone
  <2>1. PICK t \in Tab : Sed(t) \/ Truncate(t) \/ Write(t)
    BY <1>1, ListKept
  <2>2. CASE ~req[t].alone
    BY <2>1, <2>2 DEF Sed, Truncate, Write
  <2>3. CASE req[t].alone
    <3>1. Losses(req[t], list, bak)
      BY <1>1, <2>3 DEF Inv, Tabwise, TypeOK, Requests
    <3>2. CASE Sed(t)
      BY <1>1, <3>1, <3>2 DEF Sed, Losses
    <3>3. CASE Truncate(t)
      BY <1>1, <3>1, <3>3 DEF Truncate, Losses
    <3>4. CASE Write(t)
      BY <1>1, <3>1, <3>4 DEF Write, Losses
    <3> QED
      BY <2>1, <3>2, <3>3, <3>4
  <2> QED
    BY <2>2, <2>3
<1> DEFINE Accounted ==
      \A d \in list \ list' : \E t \in Tab :
        \/ req[t].at = "sed" /\ \E x \in req[t].asked : <<d, x>> \in Holds
        \/ req[t].at = "truncate" /\ d \in bak \cup req[t].asked
        \/ req[t].at \in {"sed", "truncate", "write"} /\ ~req[t].alone
<1>2. Inv /\ [Next]_vars => [Accounted]_vars
  BY <1>1
<1> QED
  BY <1>2, Invariant, PTL DEF Spec, LossAccounted
=============================================================================
