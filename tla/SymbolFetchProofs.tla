--------------------------- MODULE SymbolFetchProofs ---------------------------
(***************************************************************************)
(* Proofs about SymbolFetch for any number of lookups, servers, evictions  *)
(* and any contents of the .sym file.  What the parser computes does not   *)
(* matter here: it is left as it is.                                       *)
(*                                                                         *)
(* At the end, proofs about FileCreation, by which the files are created.  *)
(***************************************************************************)
EXTENDS SymbolFetch, FileCreation, TLAPS

\* The labels of a lookup that asks the servers, and those of one that has a file.
AtServer == {"connect"} \cup Downloading
ForIndex == {"ensure", "parse", "create_index", "write_index", "index_exists"}
HasPath  == {"open", "find_index", "open_index", "map"} \cup ForIndex
Labels   == {"start", "find"} \cup HasPath \cup AtServer \cup Ended

\* The state of a lookup, whose index, parser and symbols are in S.
LookupState(S) ==
  [pc : Labels, candidate : {"LocalBreakpadFile", "BreakpadSymbolServerFile"},
   path : {None, "readonly", "cache"}, server : Nat, parser : S, received : Nat, index : S,
   after : {None, "open", "open_index"}, symbols : S, refused : BOOLEAN]

Shaped == \E S : lookup \in [Lookups -> LookupState(S)]

Reports == Seq([lookup : Lookups, ends : Seq({"completed", "failed", "canceled"})])

Types ==
  /\ world \in [content : Contents, readonly : BOOLEAN, answers : Networks, full : BOOLEAN]
  /\ sym \in BOOLEAN
  /\ downloads \in Reports
  /\ disturbed \subseteq Lookups

IsBreakpadFile == is_breakpad_file(world.content)

\* Some server would deliver the file, and there is room for it.
Deliverable == ~world.full /\ \E s \in Servers : world.answers[s] = "delivers"

\* A lookup has a label after the index, and a file to map.
GoesOn(l) ==
  /\ lookup[l].pc \in ForIndex => lookup[l].after # None
  /\ lookup[l].pc \in HasPath => lookup[l].path # None
  /\ lookup[l].pc = "start" => lookup[l].path = None
  /\ lookup[l].path = "readonly" => world.readonly

\* The servers are asked after everything else.
Fresh(l) ==
  /\ lookup[l].pc = "start" => lookup[l].candidate = "LocalBreakpadFile"
  /\ lookup[l].pc = "find" => lookup[l].candidate = "BreakpadSymbolServerFile"
  /\ lookup[l].pc = "find" \/ lookup[l].candidate = "LocalBreakpadFile" => lookup[l].server = 0

\* The cached file that a lookup found is there, or was deleted after that.
CachedFile(l) ==
  (lookup[l].path = "cache" /\ lookup[l].pc \notin Ended) \/ lookup[l].pc = "sym_exists"
    => sym \/ l \in disturbed

\* The servers before the present one did not deliver; and unless the cached file was
\* deleted, there is none that did not come from a server.
ServersTried(l) ==
  lookup[l].pc \in AtServer =>
    /\ lookup[l].candidate = "BreakpadSymbolServerFile"
    /\ lookup[l].server \in Servers
    /\ \/ l \in disturbed
       \/ /\ world.full \/ \A s \in 1 .. lookup[l].server - 1 : world.answers[s] # "delivers"
          /\ sym => Deliverable

\* What is received comes from a server that delivers, or that breaks off before the end.
Receiving(l) ==
  /\ lookup[l].pc \in {"connect", "answer", "create_sym"} => lookup[l].received = 0
  /\ lookup[l].pc = "receive" /\ lookup[l].received # 0 =>
       /\ ~world.full
       /\ \/ world.answers[lookup[l].server] = "delivers"
          \/ lookup[l].received < Len(world.content)

\* A file in a symbol directory is found at once, and used if it is not refused.
FoundReadonly(l) ==
  world.readonly =>
    /\ lookup[l].pc \notin AtServer
    /\ lookup[l].pc \in {"find", "failed"} => lookup[l].refused
    /\ lookup[l].pc \in HasPath => lookup[l].path = "readonly"

Sound(l) == Fresh(l) /\ CachedFile(l) /\ ServersTried(l) /\ Receiving(l) /\ FoundReadonly(l)

\* FailsOnlyWithoutFile, of one lookup.
FailsRight(l) ==
  lookup[l].pc = "failed" /\ ~lookup[l].refused => ~world.readonly /\ (l \in disturbed \/ ~(sym \/ Deliverable))

Good(l) == GoesOn(l) /\ (IsBreakpadFile => Sound(l) /\ FailsRight(l))

IInv ==
  /\ Types
  /\ Shaped
  /\ DownloadsEndOnce
  /\ \A l \in Lookups : Good(l)

-----------------------------------------------------------------------------
(* The state of a lookup                                                   *)

LEMMA Wider == ASSUME NEW S, NEW T, S \subseteq T PROVE LookupState(S) \subseteq LookupState(T)
BY DEF LookupState

\* The lookup is at the same candidate and server.
Stays(l) ==
  lookup'[l].candidate = lookup[l].candidate /\ lookup'[l].server = lookup[l].server

LEMMA BecomesFacts ==
  ASSUME NEW S, lookup \in [Lookups -> LookupState(S)], NEW l \in Lookups, NEW s, Becomes(l, s)
  PROVE  /\ lookup'[l] = s
         /\ \A k \in Lookups \ {l} : lookup'[k] = lookup[k]
         /\ \A T : S \subseteq T /\ s \in LookupState(T) => lookup' \in [Lookups -> LookupState(T)]
<1>1. lookup'[l] = s /\ \A k \in Lookups \ {l} : lookup'[k] = lookup[k]
  BY DEF Becomes
<1>2. ASSUME NEW T, S \subseteq T, s \in LookupState(T)
      PROVE  lookup' \in [Lookups -> LookupState(T)]
  <2>1. lookup \in [Lookups -> LookupState(T)]
    BY <1>2, Wider
  <2> QED
    BY <1>2, <2>1 DEF Becomes
<1> QED
  BY <1>1, <1>2

\* A change of the label alone.
LEMMA GotoFacts ==
  ASSUME NEW S, lookup \in [Lookups -> LookupState(S)], NEW l \in Lookups, NEW label \in Labels,
         Goto(l, label)
  PROVE  /\ lookup' \in [Lookups -> LookupState(S)]
         /\ lookup'[l].pc = label /\ lookup'[l].candidate = lookup[l].candidate
         /\ lookup'[l].path = lookup[l].path /\ lookup'[l].server = lookup[l].server
         /\ lookup'[l].received = lookup[l].received /\ lookup'[l].after = lookup[l].after
<1> DEFINE s == [lookup[l] EXCEPT !.pc = label]
<1>1. lookup[l] \in LookupState(S)
  OBVIOUS
<1>2. s \in LookupState(S)
  BY <1>1 DEF LookupState
<1>3. lookup'[l] = s /\ lookup' \in [Lookups -> LookupState(S)]
  BY <1>2, BecomesFacts DEF Goto
<1> QED
  BY <1>1, <1>3 DEF LookupState

LEMMA NextCandidateFacts ==
  ASSUME NEW S, lookup \in [Lookups -> LookupState(S)], NEW l \in Lookups, NEW refused \in BOOLEAN,
         NextCandidate(l, refused)
  PROVE  /\ lookup' \in [Lookups -> LookupState(S)]
         /\ \/ /\ lookup[l].candidate = "LocalBreakpadFile"
               /\ lookup'[l].pc = "find" /\ lookup'[l].candidate = "BreakpadSymbolServerFile"
            \/ /\ lookup[l].candidate = "BreakpadSymbolServerFile"
               /\ lookup'[l].pc = "failed" /\ lookup'[l].candidate = "BreakpadSymbolServerFile"
         /\ lookup'[l].server = lookup[l].server
         /\ lookup'[l].path = lookup[l].path
         /\ lookup'[l].refused = refused
<1>1. lookup[l] \in LookupState(S)
  OBVIOUS
<1>2. CASE lookup[l].candidate = "LocalBreakpadFile"
  <2> DEFINE s == [lookup[l] EXCEPT !.pc = "find", !.candidate = "BreakpadSymbolServerFile",
                                    !.refused = refused]
  <2>1. /\ s \in LookupState(S) /\ s.pc = "find" /\ s.path = lookup[l].path /\ s.refused = refused
        /\ s.candidate = "BreakpadSymbolServerFile" /\ s.server = lookup[l].server
    BY <1>1 DEF LookupState, Labels
  <2>2. Becomes(l, s)
    BY <1>2 DEF NextCandidate
  <2> QED
    BY <1>2, <2>1, <2>2, BecomesFacts
<1>3. CASE lookup[l].candidate # "LocalBreakpadFile"
  <2> DEFINE s == [lookup[l] EXCEPT !.pc = "failed", !.refused = refused]
  <2>1. /\ s \in LookupState(S) /\ s.pc = "failed" /\ s.path = lookup[l].path /\ s.refused = refused
        /\ s.candidate = lookup[l].candidate /\ s.server = lookup[l].server
    BY <1>1 DEF LookupState, Labels, Ended
  <2>2. Becomes(l, s) /\ lookup[l].candidate = "BreakpadSymbolServerFile"
    BY <1>1, <1>3 DEF NextCandidate, LookupState
  <2> QED
    BY <2>1, <2>2, BecomesFacts
<1> QED
  BY <1>2, <1>3

LEMMA CandidateFailsFacts ==
  ASSUME NEW S, lookup \in [Lookups -> LookupState(S)], NEW l \in Lookups, CandidateFails(l)
  PROVE  /\ lookup' \in [Lookups -> LookupState(S)]
         /\ \/ /\ lookup[l].candidate = "LocalBreakpadFile"
               /\ lookup'[l].pc = "find" /\ lookup'[l].candidate = "BreakpadSymbolServerFile"
            \/ /\ lookup[l].candidate = "BreakpadSymbolServerFile"
               /\ lookup'[l].pc = "failed" /\ lookup'[l].candidate = "BreakpadSymbolServerFile"
         /\ lookup'[l].server = lookup[l].server
         /\ lookup'[l].path = lookup[l].path
<1>1. lookup[l].refused \in BOOLEAN
  BY DEF LookupState
<1> QED
  BY <1>1, NextCandidateFacts DEF CandidateFails

LEMMA ServerFailsFacts ==
  ASSUME NEW S, lookup \in [Lookups -> LookupState(S)], NEW l \in Lookups, ServerFails(l)
  PROVE  /\ Shaped'
         /\ lookup'[l].path = lookup[l].path
         /\ \/ /\ lookup[l].server < NServers
               /\ lookup'[l].pc = "connect" /\ lookup'[l].candidate = lookup[l].candidate
               /\ lookup'[l].server = lookup[l].server + 1 /\ lookup'[l].received = 0
            \/ ~(lookup[l].server < NServers) /\ CandidateFails(l)
<1>1. lookup[l] \in LookupState(S)
  OBVIOUS
<1>2. CASE lookup[l].server < NServers
  <2>k. PICK k \in Nat : k = lookup[l].server + 1
    BY <1>1 DEF LookupState
  <2> DEFINE s == [lookup[l] EXCEPT !.pc = "connect", !.server = k, !.parser = NewParser,
                                    !.received = 0]
  <2>0. PICK T : T = S \cup {NewParser}
    OBVIOUS
  <2>1. /\ s \in LookupState(T)
        /\ s.pc = "connect" /\ s.path = lookup[l].path /\ s.candidate = lookup[l].candidate
        /\ s.server = k /\ s.received = 0
    <3>1. lookup[l] \in LookupState(T) /\ NewParser \in T
      BY <1>1, <2>0, Wider
    <3>2. "connect" \in Labels
      BY DEF Labels, AtServer
    <3> QED
      BY <3>1, <3>2 DEF LookupState
  <2>2. Becomes(l, s)
    BY <1>2, <2>k DEF ServerFails
  <2>3. lookup'[l] = s /\ lookup' \in [Lookups -> LookupState(T)]
    BY <2>0, <2>1, <2>2, BecomesFacts
  <2> QED
    BY <1>2, <2>k, <2>1, <2>3 DEF Shaped
<1>3. CASE ~(lookup[l].server < NServers)
  BY <1>3, CandidateFailsFacts DEF ServerFails, Shaped
<1> QED
  BY <1>2, <1>3

\* The file is found.
LEMMA OpenFacts ==
  ASSUME NEW S, lookup \in [Lookups -> LookupState(S)], NEW l \in Lookups,
         NEW path \in {"readonly", "cache"},
         Becomes(l, [lookup[l] EXCEPT !.pc = "open", !.path = path])
  PROVE  Shaped' /\ Stays(l) /\ lookup'[l].path = path /\ lookup'[l].pc = "open"
<1>1. lookup[l] \in LookupState(S) /\ "open" \in Labels
  BY DEF Labels, HasPath
<1> DEFINE s == [lookup[l] EXCEPT !.pc = "open", !.path = path]
<1>2. /\ s \in LookupState(S) /\ s.path = path /\ s.pc = "open"
      /\ s.candidate = lookup[l].candidate /\ s.server = lookup[l].server
  BY <1>1 DEF LookupState
<1>3. lookup'[l] = s /\ lookup' \in [Lookups -> LookupState(S)]
  BY <1>2, BecomesFacts
<1> QED
  BY <1>2, <1>3 DEF Shaped, Stays

\* Its index file is looked for, or made.
LEMMA EnsureFacts ==
  ASSUME NEW S, lookup \in [Lookups -> LookupState(S)], NEW l \in Lookups,
         NEW path \in {"readonly", "cache"}, NEW after \in {"open", "open_index"},
         \/ Becomes(l, [lookup[l] EXCEPT !.pc = "ensure", !.after = after, !.path = path])
         \/ Becomes(l, [lookup[l] EXCEPT !.pc = "ensure", !.path = path, !.after = after])
  PROVE  /\ Shaped' /\ Stays(l) /\ lookup'[l].path = path
         /\ lookup'[l].pc = "ensure" /\ lookup'[l].after = after
<1>1. lookup[l] \in LookupState(S) /\ "ensure" \in Labels
  BY DEF Labels, HasPath, ForIndex
<1>2. PICK s : /\ Becomes(l, s)
               /\ \/ s = [lookup[l] EXCEPT !.pc = "ensure", !.after = after, !.path = path]
                  \/ s = [lookup[l] EXCEPT !.pc = "ensure", !.path = path, !.after = after]
  OBVIOUS
<1>3. /\ s \in LookupState(S) /\ s.path = path /\ s.pc = "ensure" /\ s.after = after
      /\ s.candidate = lookup[l].candidate /\ s.server = lookup[l].server
  BY <1>1, <1>2 DEF LookupState
<1>4. lookup'[l] = s /\ lookup' \in [Lookups -> LookupState(S)]
  BY <1>2, <1>3, BecomesFacts
<1> QED
  BY <1>3, <1>4 DEF Shaped, Stays

\* The lookup has its symbol map.
LEMMA HasMapFacts ==
  ASSUME NEW S, lookup \in [Lookups -> LookupState(S)], NEW l \in Lookups, NEW index, HasMap(l, index)
  PROVE  Shaped' /\ Stays(l) /\ lookup'[l].pc = "found" /\ lookup'[l].path = lookup[l].path
<1>1. PICK x : x = [a \in Addresses |-> lookup_sync(index, world.content, a)]
  OBVIOUS
<1>2. PICK T : T = S \cup {NoIndex, x}
  OBVIOUS
<1>3. lookup[l] \in LookupState(T) /\ NoIndex \in T /\ x \in T /\ "found" \in Labels
  BY <1>2, Wider DEF Labels, Ended
<1> DEFINE s == [lookup[l] EXCEPT !.pc = "found", !.index = NoIndex, !.symbols = x]
<1>4. /\ s \in LookupState(T) /\ s.pc = "found" /\ s.path = lookup[l].path
      /\ s.candidate = lookup[l].candidate /\ s.server = lookup[l].server
  BY <1>3 DEF LookupState
<1>5. Becomes(l, s)
  BY <1>1 DEF HasMap
<1>6. lookup'[l] = s /\ lookup' \in [Lookups -> LookupState(T)]
  BY <1>2, <1>4, <1>5, BecomesFacts
<1> QED
  BY <1>4, <1>6 DEF Shaped, Stays

\* A step that makes, keeps or forgets an index.
LEMMA IndexFacts ==
  ASSUME NEW S, lookup \in [Lookups -> LookupState(S)], NEW l \in Lookups, NEW label \in Labels, NEW x,
         \/ Becomes(l, [lookup[l] EXCEPT !.index = x, !.pc = label])
         \/ Becomes(l, [lookup[l] EXCEPT !.pc = label, !.index = x])
  PROVE  /\ Shaped' /\ Stays(l) /\ lookup'[l].pc = label
         /\ lookup'[l].path = lookup[l].path /\ lookup'[l].after = lookup[l].after
<1>2. PICK T : T = S \cup {x}
  OBVIOUS
<1>3. lookup[l] \in LookupState(T) /\ x \in T
  BY <1>2, Wider
<1>1. PICK s : Becomes(l, s) /\ \/ s = [lookup[l] EXCEPT !.index = x, !.pc = label]
                                \/ s = [lookup[l] EXCEPT !.pc = label, !.index = x]
  OBVIOUS
<1>4. /\ s \in LookupState(T) /\ s.pc = label /\ s.path = lookup[l].path /\ s.after = lookup[l].after
      /\ s.candidate = lookup[l].candidate /\ s.server = lookup[l].server
  BY <1>1, <1>3 DEF LookupState
<1>5. lookup'[l] = s /\ lookup' \in [Lookups -> LookupState(T)]
  BY <1>1, <1>2, <1>4, BecomesFacts
<1> QED
  BY <1>4, <1>5 DEF Shaped, Stays

LEMMA ReceiveFacts ==
  ASSUME NEW S, lookup \in [Lookups -> LookupState(S)], NEW l \in Lookups, NEW n \in Nat, NEW x,
         Becomes(l, [lookup[l] EXCEPT !.received = n, !.parser = x])
  PROVE  /\ Shaped' /\ lookup'[l].pc = lookup[l].pc /\ lookup'[l].path = lookup[l].path
         /\ Stays(l) /\ lookup'[l].received = n
<1>2. PICK T : T = S \cup {x}
  OBVIOUS
<1>3. lookup[l] \in LookupState(T) /\ x \in T
  BY <1>2, Wider
<1> DEFINE s == [lookup[l] EXCEPT !.received = n, !.parser = x]
<1>4. /\ s \in LookupState(T) /\ s.pc = lookup[l].pc /\ s.path = lookup[l].path
      /\ s.candidate = lookup[l].candidate /\ s.server = lookup[l].server /\ s.received = n
  BY <1>3 DEF LookupState
<1>5. lookup'[l] = s /\ lookup' \in [Lookups -> LookupState(T)]
  BY <1>2, <1>4, BecomesFacts
<1> QED
  BY <1>4, <1>5 DEF Shaped, Stays

LEMMA ReceivedFacts ==
  ASSUME NEW S, lookup \in [Lookups -> LookupState(S)], NEW l \in Lookups, receive_ends(l)
  PROVE  /\ Shaped' /\ Stays(l) /\ lookup'[l].path = "cache" /\ lookup'[l].after = "open"
         /\ lookup'[l].pc \in {"open", "create_index"}
<1>1. PICK x : x = finish(lookup[l].parser)
  OBVIOUS
<1>2. PICK T : T = S \cup {x, NewParser}
  OBVIOUS
<1>3. lookup[l] \in LookupState(T) /\ x \in T /\ NewParser \in T
  BY <1>2, Wider
<1>4. PICK label \in {"open", "create_index"} : label = IF x = NoIndex THEN "open" ELSE "create_index"
  OBVIOUS
<1>5. label \in Labels
  BY DEF Labels, HasPath, ForIndex
<1> DEFINE s == [lookup[l] EXCEPT !.path = "cache", !.parser = NewParser, !.received = 0, !.pc = label,
                                  !.index = x, !.after = "open"]
<1>6. /\ s \in LookupState(T) /\ s.path = "cache" /\ s.after = "open" /\ s.pc = label
      /\ s.candidate = lookup[l].candidate /\ s.server = lookup[l].server
  BY <1>3, <1>5 DEF LookupState
<1>7. Becomes(l, s)
  BY <1>1, <1>4 DEF receive_ends
<1>8. lookup'[l] = s /\ lookup' \in [Lookups -> LookupState(T)]
  BY <1>2, <1>6, <1>7, BecomesFacts
<1> QED
  BY <1>6, <1>8 DEF Shaped, Stays

LEMMA CancelFacts ==
  ASSUME NEW S, lookup \in [Lookups -> LookupState(S)], NEW l \in Lookups, cancel(l)
  PROVE  Shaped' /\ Stays(l) /\ lookup'[l].pc = "canceled" /\ lookup'[l].path = lookup[l].path
<1>1. PICK T : T = S \cup {NewParser, NoIndex}
  OBVIOUS
<1>2. lookup[l] \in LookupState(T) /\ NewParser \in T /\ NoIndex \in T /\ "canceled" \in Labels
  BY <1>1, Wider DEF Labels, Ended
<1> DEFINE s == [lookup[l] EXCEPT !.pc = "canceled", !.parser = NewParser, !.received = 0,
                                  !.index = NoIndex]
<1>3. /\ s \in LookupState(T) /\ s.pc = "canceled" /\ s.path = lookup[l].path
      /\ s.candidate = lookup[l].candidate /\ s.server = lookup[l].server
  BY <1>2 DEF LookupState
<1>4. Becomes(l, s)
  BY DEF cancel
<1>5. lookup'[l] = s /\ lookup' \in [Lookups -> LookupState(T)]
  BY <1>1, <1>3, <1>4, BecomesFacts
<1> QED
  BY <1>3, <1>5 DEF Shaped, Stays

-----------------------------------------------------------------------------
(* Where a lookup finds the file                                           *)

LEMMA LabelSets ==
  /\ AtServer = {"connect", "answer", "create_sym", "receive", "sym_exists"}
  /\ ForIndex = {"ensure", "parse", "create_index", "write_index", "index_exists"}
  /\ HasPath = {"open", "find_index", "open_index", "map", "ensure", "parse", "create_index",
                "write_index", "index_exists"}
  /\ Ended = {"found", "failed", "canceled"}
BY DEF AtServer, Downloading, ForIndex, HasPath, Ended

\* What the others do is no harm: a file that appears comes from a server, and who is
\* concerned knows that the file was deleted.
LEMMA OtherLookup ==
  ASSUME NEW l \in Lookups, Good(l), lookup'[l] = lookup[l], world' = world,
         disturbed \subseteq disturbed',
         sym' /\ IsBreakpadFile => sym \/ Deliverable,
         sym /\ ~sym' => l \in disturbed' \/ lookup[l].pc \in Ended \cup {"start"}
  PROVE  Good(l)'
<1>1. GoesOn(l)'
  BY DEF Good, GoesOn
<1>2. IsBreakpadFile' = IsBreakpadFile /\ Deliverable' = Deliverable
  BY DEF IsBreakpadFile, Deliverable
<1>3. ASSUME IsBreakpadFile PROVE Sound(l)' /\ FailsRight(l)'
  <2>1. Fresh(l)' /\ Receiving(l)' /\ FoundReadonly(l)'
    BY <1>3 DEF Good, Sound, Fresh, Receiving, FoundReadonly
  <2>2. CachedFile(l)'
    BY <1>3, LabelSets DEF Good, Sound, CachedFile, GoesOn, None
  <2>3. ServersTried(l)'
    BY <1>2, <1>3, LabelSets DEF Good, Sound, ServersTried
  <2>4. FailsRight(l)'
    BY <1>2, <1>3 DEF Good, FailsRight
  <2> QED
    BY <2>1, <2>2, <2>3, <2>4 DEF Sound
<1> QED
  BY <1>1, <1>2, <1>3 DEF Good

\* A server fails, and the next one is asked; when all have failed, the file is nowhere.
LEMMA NextServer ==
  ASSUME Types, NEW S, lookup \in [Lookups -> LookupState(S)], NEW l \in Lookups, Good(l),
         ServerFails(l), UNCHANGED <<world, sym, disturbed>>,
         \/ /\ lookup[l].pc \in {"start", "find"} /\ lookup[l].candidate = "BreakpadSymbolServerFile"
            /\ ~world.readonly /\ ~sym
         \/ /\ lookup[l].pc \in AtServer
            /\ \/ l \in disturbed \/ world.full \/ world.answers[lookup[l].server] # "delivers"
               \/ ~IsBreakpadFile
  PROVE  Good(l)' /\ Shaped'
<1>1. IsBreakpadFile' = IsBreakpadFile /\ Deliverable' = Deliverable
  BY DEF IsBreakpadFile, Deliverable
<1>2. Shaped' /\ lookup'[l].path = lookup[l].path
  BY ServerFailsFacts
<1>3. lookup[l] \in LookupState(S)
  OBVIOUS
<1>4. lookup[l].server \in Nat /\ NServers \in Nat
  BY <1>3, SymbolFetchAssumption DEF LookupState
<1>5. CASE /\ lookup[l].server < NServers
           /\ lookup'[l].pc = "connect" /\ lookup'[l].candidate = lookup[l].candidate
           /\ lookup'[l].server = lookup[l].server + 1 /\ lookup'[l].received = 0
  <2>1. GoesOn(l)'
    BY <1>2, <1>5, LabelSets DEF Good, GoesOn
  <2>2. ASSUME IsBreakpadFile PROVE Sound(l)' /\ FailsRight(l)'
    <3>1. lookup[l].candidate = "BreakpadSymbolServerFile"
      BY <2>2 DEF Good, Sound, ServersTried
    <3>2. Fresh(l)' /\ Receiving(l)' /\ FailsRight(l)'
      BY <1>5, <3>1 DEF Fresh, Receiving, FailsRight
    <3>3. FoundReadonly(l)'
      BY <1>5, <2>2, LabelSets DEF Good, Sound, FoundReadonly
    <3>4. CachedFile(l)'
      BY <1>2, <1>5, <2>2, LabelSets DEF Good, Sound, CachedFile
    <3>5. ServersTried(l)'
      <4>1. lookup'[l].server \in Servers
        BY <1>4, <1>5 DEF Servers
      <4>2. CASE lookup[l].pc \in {"start", "find"} /\ ~sym
        <5>1. lookup'[l].server = 1
          BY <1>5, <2>2, <3>1, <4>2 DEF Good, Sound, Fresh
        <5> QED
          BY <1>5, <3>1, <4>1, <4>2, <5>1 DEF ServersTried
      <4>3. CASE lookup[l].pc \in AtServer
        <5>1. \A s \in 1 .. lookup'[l].server - 1 : s \in 1 .. lookup[l].server - 1 \/ s = lookup[l].server
          BY <1>4, <1>5
        <5>2. \/ l \in disturbed
              \/ /\ \/ world.full
                    \/ \A s \in 1 .. lookup'[l].server - 1 : world.answers[s] # "delivers"
                 /\ sym => Deliverable
          BY <2>2, <4>3, <5>1, LabelSets DEF Good, Sound, ServersTried
        <5> QED
          BY <1>1, <1>5, <3>1, <4>1, <5>2 DEF ServersTried
      <4> QED
        BY <4>2, <4>3
    <3> QED
      BY <3>2, <3>3, <3>4, <3>5 DEF Sound
  <2> QED
    BY <1>1, <1>2, <2>1, <2>2 DEF Good
<1>6. CASE ~(lookup[l].server < NServers) /\ CandidateFails(l)
  <2>1. /\ \/ /\ lookup[l].candidate = "LocalBreakpadFile"
              /\ lookup'[l].pc = "find" /\ lookup'[l].candidate = "BreakpadSymbolServerFile"
           \/ /\ lookup[l].candidate = "BreakpadSymbolServerFile"
              /\ lookup'[l].pc = "failed" /\ lookup'[l].candidate = "BreakpadSymbolServerFile"
        /\ lookup'[l].server = lookup[l].server
    BY <1>6, CandidateFailsFacts
  <2>2. GoesOn(l)'
    BY <1>2, <2>1, LabelSets DEF Good, GoesOn
  <2>3. ASSUME IsBreakpadFile PROVE Sound(l)' /\ FailsRight(l)'
    <3>1. lookup[l].candidate = "BreakpadSymbolServerFile" /\ lookup'[l].pc = "failed"
      BY <2>1, <2>3 DEF Good, Sound, ServersTried
    <3>2. Sound(l)'
      <4>1. ~world.readonly
        BY <2>3 DEF Good, Sound, FoundReadonly
      <4> QED
        BY <2>1, <3>1, <4>1, LabelSets DEF Sound, Fresh, CachedFile, ServersTried, Receiving,
                                           FoundReadonly
    <3>3. FailsRight(l)'
      <4>1. ~world.readonly
        BY <2>3 DEF Good, Sound, FoundReadonly
      <4>2. CASE lookup[l].pc \in {"start", "find"} /\ ~sym
        <5>1. Servers = {}
          BY <1>4, <1>6, <2>3, <3>1, <4>2 DEF Good, Sound, Fresh, Servers
        <5> QED
          BY <1>1, <4>1, <4>2, <5>1 DEF FailsRight, Deliverable
      <4>3. CASE lookup[l].pc \in AtServer
        <5>1. \A s \in Servers : s \in 1 .. lookup[l].server - 1 \/ s = lookup[l].server
          BY <1>4, <1>6, <2>3, <4>3 DEF Good, Sound, ServersTried, Servers
        <5>2. l \in disturbed \/ (~Deliverable /\ (sym => Deliverable))
          BY <2>3, <4>3, <5>1, LabelSets DEF Good, Sound, ServersTried, Deliverable
        <5> QED
          BY <1>1, <4>1, <5>2 DEF FailsRight
      <4> QED
        BY <4>2, <4>3
    <3> QED
      BY <3>2, <3>3
  <2> QED
    BY <1>1, <1>2, <2>2, <2>3 DEF Good
<1> QED
  BY <1>5, <1>6, ServerFailsFacts

\* The steps of a lookup that do not fail at a server.
LEMMA CandidateFailsGood ==
  ASSUME NEW S, lookup \in [Lookups -> LookupState(S)], NEW l \in Lookups, Good(l),
         CandidateFails(l), UNCHANGED <<world, sym, disturbed>>,
         \/ lookup[l].pc \in {"start", "find"} /\ ~world.readonly
            /\ lookup[l].candidate = "LocalBreakpadFile"
         \/ lookup[l].pc = "open" /\ ~(HasFile(lookup[l].path) /\ IsBreakpadFile)
  PROVE  Good(l)' /\ Shaped'
<1>1. /\ Shaped' /\ lookup'[l].path = lookup[l].path /\ lookup'[l].server = lookup[l].server
      /\ \/ /\ lookup[l].candidate = "LocalBreakpadFile"
            /\ lookup'[l].pc = "find" /\ lookup'[l].candidate = "BreakpadSymbolServerFile"
         \/ /\ lookup[l].candidate = "BreakpadSymbolServerFile"
            /\ lookup'[l].pc = "failed" /\ lookup'[l].candidate = "BreakpadSymbolServerFile"
  BY CandidateFailsFacts DEF Shaped
<1>2. IsBreakpadFile' = IsBreakpadFile
  BY DEF IsBreakpadFile
<1>3. GoesOn(l)'
  BY <1>1, LabelSets DEF Good, GoesOn
<1>4. ASSUME IsBreakpadFile PROVE Sound(l)' /\ FailsRight(l)'
  <2>1. CachedFile(l) /\ Fresh(l) /\ FoundReadonly(l) /\ GoesOn(l)
    BY <1>4 DEF Good, Sound
  <2>2. lookup[l] \in LookupState(S)
    OBVIOUS
  \* A file that cannot be opened was deleted.
  <2>3. lookup[l].pc = "open" => ~world.readonly /\ l \in disturbed
    BY <1>4, <2>1, <2>2, LabelSets DEF HasFile, FoundReadonly, CachedFile, GoesOn, LookupState
  <2>4. ~world.readonly
    BY <2>3
  <2>5. lookup'[l].pc = "failed" => l \in disturbed
    BY <1>1, <2>3
  <2>6. CachedFile(l)'
    BY <1>1, <2>1, <2>3, LabelSets DEF CachedFile
  <2> QED
    BY <1>1, <2>1, <2>4, <2>5, <2>6, LabelSets
       DEF Sound, Fresh, ServersTried, Receiving, FoundReadonly, FailsRight
<1> QED
  BY <1>1, <1>2, <1>3, <1>4 DEF Good

\* A file is refused for its contents.
LEMMA RefusesGood ==
  ASSUME NEW S, lookup \in [Lookups -> LookupState(S)], NEW l \in Lookups, Good(l),
         NextCandidate(l, TRUE), UNCHANGED <<world, sym, disturbed>>, lookup[l].pc \in HasPath
  PROVE  Good(l)' /\ Shaped'
<1>1. /\ Shaped' /\ lookup'[l].path = lookup[l].path /\ lookup'[l].server = lookup[l].server
      /\ lookup'[l].refused
      /\ \/ /\ lookup[l].candidate = "LocalBreakpadFile"
            /\ lookup'[l].pc = "find" /\ lookup'[l].candidate = "BreakpadSymbolServerFile"
         \/ /\ lookup[l].candidate = "BreakpadSymbolServerFile"
            /\ lookup'[l].pc = "failed" /\ lookup'[l].candidate = "BreakpadSymbolServerFile"
  BY NextCandidateFacts DEF Shaped
<1>2. IsBreakpadFile' = IsBreakpadFile
  BY DEF IsBreakpadFile
<1>3. GoesOn(l)'
  BY <1>1, LabelSets DEF Good, GoesOn
<1>4. ASSUME IsBreakpadFile PROVE Sound(l)' /\ FailsRight(l)'
  <2>1. CachedFile(l) /\ Fresh(l)
    BY <1>4 DEF Good, Sound
  <2>2. CachedFile(l)'
    BY <1>1, <2>1, LabelSets DEF CachedFile
  <2> QED
    BY <1>1, <2>1, <2>2, LabelSets DEF Sound, Fresh, ServersTried, Receiving, FoundReadonly, FailsRight
<1> QED
  BY <1>1, <1>2, <1>3, <1>4 DEF Good

\* A lookup that has a file, and goes on to map it, to make its index or to the end.
LEMMA HasFileGood ==
  ASSUME NEW l \in Lookups, Good(l), world' = world, Stays(l), disturbed' = disturbed,
         lookup'[l].pc \in HasPath \cup {"found", "canceled"},
         lookup'[l].pc \in ForIndex => lookup'[l].after # None,
         \/ lookup[l].pc \in HasPath /\ sym' = sym /\ lookup'[l].path = lookup[l].path
         \/ /\ sym' /\ lookup'[l].path = "cache"
            /\ ~world.readonly \/ lookup[l].pc \in AtServer
         \/ sym' = sym /\ world.readonly /\ lookup'[l].path = "readonly"
         \/ sym' = sym /\ lookup'[l].pc = "canceled" /\ lookup'[l].path = lookup[l].path
  PROVE  Good(l)'
<1>1. IsBreakpadFile' = IsBreakpadFile
  BY DEF IsBreakpadFile
<1>2. GoesOn(l)'
  BY LabelSets DEF Good, GoesOn, None
<1>3. ASSUME IsBreakpadFile PROVE Sound(l)' /\ FailsRight(l)'
  <2>1. CachedFile(l) /\ Fresh(l) /\ FoundReadonly(l) /\ GoesOn(l)
    BY <1>3 DEF Good, Sound
  <2>2. Fresh(l)'
    BY <2>1, LabelSets DEF Fresh, Stays
  <2>3. CachedFile(l)'
    BY <2>1, LabelSets DEF CachedFile
  <2>4. FoundReadonly(l)'
    BY <2>1, LabelSets DEF FoundReadonly
  <2> QED
    BY <2>2, <2>3, <2>4, LabelSets DEF Sound, ServersTried, Receiving, FailsRight
<1> QED
  BY <1>1, <1>2, <1>3 DEF Good

\* What a step of a lookup does to the file and to the others.
Harmless(l) ==
  /\ world' = world /\ disturbed' = disturbed
  /\ \A k \in Lookups \ {l} : lookup'[k] = lookup[k]
  /\ sym' /\ IsBreakpadFile => sym \/ Deliverable
  /\ sym => sym'

LEMMA FindSteps ==
  ASSUME IInv, NEW l \in Lookups, find(l) \/ open(l) \/ find_index(l)
  PROVE  Good(l)' /\ Shaped' /\ Harmless(l)
<1>0. PICK S : lookup \in [Lookups -> LookupState(S)]
  BY DEF IInv, Shaped
<1>1. Good(l) /\ Types
  BY DEF IInv
<1>2. UNCHANGED <<world, sym, disturbed>>
  BY DEF find, open, find_index, diskVars, otherVars
<1>3. \A k \in Lookups \ {l} : lookup'[k] = lookup[k]
  BY <1>0 DEF find, open, find_index, Goto, Becomes, NextCandidate, CandidateFails, ServerFails
<1>4. Harmless(l)
  BY <1>2, <1>3 DEF Harmless
<1>5. lookup[l] \in LookupState(S)
  BY <1>0
<1>6. PICK path \in {"readonly", "cache"} : path = IF world.readonly THEN "readonly" ELSE "cache"
  OBVIOUS
<1>7. "find_index" \in Labels /\ "map" \in Labels
  BY DEF Labels, HasPath
<1>8. CASE find(l)
  <2>1. CASE world.readonly \/ sym
    <3>1. Becomes(l, [lookup[l] EXCEPT !.pc = "open", !.path = path])
      BY <1>6, <1>8, <2>1 DEF find
    <3>2. Shaped' /\ Stays(l) /\ lookup'[l].path = path /\ lookup'[l].pc = "open"
      BY <1>0, <3>1, OpenFacts
    <3>3. Good(l)'
      BY <1>1, <1>2, <1>6, <2>1, <3>2, LabelSets, HasFileGood
    <3> QED
      BY <1>4, <3>2, <3>3
  <2>2. CASE ~(world.readonly \/ sym) /\ lookup[l].candidate = "LocalBreakpadFile"
    BY <1>0, <1>1, <1>2, <1>4, <1>8, <2>2, CandidateFailsGood DEF find
  <2>3. CASE ~(world.readonly \/ sym) /\ lookup[l].candidate # "LocalBreakpadFile"
    <3>1. ServerFails(l) /\ lookup[l].pc \in {"start", "find"}
      BY <1>8, <2>3 DEF find
    <3>2. lookup[l].candidate = "BreakpadSymbolServerFile"
      BY <1>5, <2>3 DEF LookupState
    <3> QED
      BY <1>0, <1>1, <1>2, <1>4, <2>3, <3>1, <3>2, NextServer
  <2> QED
    BY <2>1, <2>2, <2>3
<1>9. CASE open(l)
  <2>1. CASE HasFile(lookup[l].path) /\ IsBreakpadFile
    <3>1. Goto(l, "find_index") /\ lookup[l].pc = "open"
      BY <1>9, <2>1 DEF open, At, IsBreakpadFile
    <3>2. /\ lookup' \in [Lookups -> LookupState(S)] /\ lookup'[l].pc = "find_index"
          /\ Stays(l) /\ lookup'[l].path = lookup[l].path
      BY <1>0, <1>7, <3>1, GotoFacts DEF Stays
    <3>3. Good(l)'
      BY <1>1, <1>2, <3>1, <3>2, LabelSets, HasFileGood
    <3> QED
      BY <1>4, <3>2, <3>3 DEF Shaped
  <2>2. CASE ~(HasFile(lookup[l].path) /\ IsBreakpadFile)
    BY <1>0, <1>1, <1>2, <1>4, <1>9, <2>2, CandidateFailsGood DEF open, At, IsBreakpadFile
  <2> QED
    BY <2>1, <2>2
<1>10. CASE find_index(l)
  <2>1. CASE world.readonly \/ sym
    <3>1. Becomes(l, [lookup[l] EXCEPT !.pc = "ensure", !.after = "open_index", !.path = path])
      BY <1>6, <1>10, <2>1 DEF find_index
    <3>2. /\ Shaped' /\ Stays(l) /\ lookup'[l].path = path /\ lookup'[l].pc = "ensure"
          /\ lookup'[l].after = "open_index"
      BY <1>0, <3>1, EnsureFacts
    <3>3. Good(l)'
      BY <1>1, <1>2, <1>6, <2>1, <3>2, LabelSets, HasFileGood DEF None
    <3> QED
      BY <1>4, <3>2, <3>3
  <2>2. CASE ~(world.readonly \/ sym)
    <3>1. Goto(l, "map") /\ lookup[l].pc = "find_index"
      BY <1>10, <2>2 DEF find_index, Goto, At
    <3>2. /\ lookup' \in [Lookups -> LookupState(S)] /\ lookup'[l].pc = "map"
          /\ Stays(l) /\ lookup'[l].path = lookup[l].path
      BY <1>0, <1>7, <3>1, GotoFacts DEF Stays
    <3>3. Good(l)'
      BY <1>1, <1>2, <3>1, <3>2, LabelSets, HasFileGood
    <3> QED
      BY <1>4, <3>2, <3>3 DEF Shaped
  <2> QED
    BY <2>1, <2>2
<1> QED
  BY <1>8, <1>9, <1>10

LEMMA MapSteps ==
  ASSUME IInv, NEW l \in Lookups, open_index(l) \/ map(l)
  PROVE  Good(l)' /\ Shaped' /\ Harmless(l)
<1>0. PICK S : lookup \in [Lookups -> LookupState(S)]
  BY DEF IInv, Shaped
<1>1. Good(l)
  BY DEF IInv
<1>2. UNCHANGED <<world, sym, disturbed>> /\ lookup[l].pc \in HasPath
  BY LabelSets DEF open_index, map, diskVars, otherVars, At
<1>3. CASE Goto(l, "map")
  <2>1. "map" \in Labels
    BY DEF Labels, HasPath
  <2>2. /\ lookup' \in [Lookups -> LookupState(S)] /\ lookup'[l].pc = "map"
        /\ Stays(l) /\ lookup'[l].path = lookup[l].path
    BY <1>0, <1>3, <2>1, GotoFacts DEF Stays
  <2>3. Good(l)'
    BY <1>1, <1>2, <2>2, LabelSets, HasFileGood
  <2>4. \A k \in Lookups \ {l} : lookup'[k] = lookup[k]
    BY <1>0, <1>3 DEF Goto, Becomes
  <2> QED
    BY <1>2, <2>2, <2>3, <2>4 DEF Harmless, Shaped
<1>4. CASE NextCandidate(l, TRUE)
  <2>1. Good(l)' /\ Shaped'
    BY <1>0, <1>1, <1>2, <1>4, RefusesGood
  <2>2. \A k \in Lookups \ {l} : lookup'[k] = lookup[k]
    BY <1>0, <1>4 DEF NextCandidate, Becomes
  <2> QED
    BY <1>2, <2>1, <2>2 DEF Harmless
<1>5. ASSUME NEW index, HasMap(l, index) PROVE Good(l)' /\ Shaped' /\ Harmless(l)
  <2>1. Shaped' /\ Stays(l) /\ lookup'[l].pc = "found" /\ lookup'[l].path = lookup[l].path
    BY <1>0, <1>5, HasMapFacts
  <2>2. Good(l)'
    BY <1>1, <1>2, <2>1, LabelSets, HasFileGood
  <2>3. \A k \in Lookups \ {l} : lookup'[k] = lookup[k]
    BY <1>0, <1>5 DEF HasMap, Becomes
  <2> QED
    BY <1>2, <2>1, <2>2, <2>3 DEF Harmless
<1> QED
  BY <1>3, <1>4, <1>5 DEF open_index, map, CheckMap

LEMMA IndexSteps ==
  ASSUME IInv, NEW l \in Lookups,
         ensure(l) \/ parse(l) \/ create_index(l) \/ write_index(l) \/ index_exists(l)
  PROVE  Good(l)' /\ Shaped' /\ Harmless(l)
<1>0. PICK S : lookup \in [Lookups -> LookupState(S)]
  BY DEF IInv, Shaped
<1>1. Good(l)
  BY DEF IInv
<1>2. UNCHANGED <<world, sym, disturbed>> /\ lookup[l].pc \in ForIndex
  BY LabelSets DEF ensure, parse, create_index, write_index, index_exists, diskVars, otherVars, At
<1>3. \A label \in HasPath : label \in Labels
  BY DEF Labels
<1>4. lookup[l].after \in {"open", "open_index"}
  <2>1. lookup[l] \in LookupState(S)
    BY <1>0
  <2>2. lookup[l].after # None
    BY <1>1, <1>2 DEF Good, GoesOn
  <2> QED
    BY <2>1, <2>2 DEF LookupState
<1>5. ASSUME NEW label \in HasPath, Goto(l, label) PROVE Good(l)' /\ Shaped' /\ Harmless(l)
  <2>1. /\ lookup' \in [Lookups -> LookupState(S)] /\ lookup'[l].pc = label
        /\ Stays(l) /\ lookup'[l].path = lookup[l].path /\ lookup'[l].after = lookup[l].after
    BY <1>0, <1>3, <1>5, GotoFacts DEF Stays
  <2>2. Good(l)'
    BY <1>1, <1>2, <1>4, <2>1, LabelSets, HasFileGood DEF None
  <2>3. \A k \in Lookups \ {l} : lookup'[k] = lookup[k]
    BY <1>0, <1>5 DEF Goto, Becomes
  <2> QED
    BY <1>2, <2>1, <2>2, <2>3 DEF Harmless, Shaped
<1>6. ASSUME NEW label \in HasPath, NEW x,
             \/ Becomes(l, [lookup[l] EXCEPT !.index = x, !.pc = label])
             \/ Becomes(l, [lookup[l] EXCEPT !.pc = label, !.index = x])
      PROVE  Good(l)' /\ Shaped' /\ Harmless(l)
  <2>1. /\ Shaped' /\ lookup'[l].pc = label /\ Stays(l)
        /\ lookup'[l].path = lookup[l].path /\ lookup'[l].after = lookup[l].after
    BY <1>0, <1>3, <1>6, IndexFacts
  <2>2. Good(l)'
    BY <1>1, <1>2, <1>4, <2>1, LabelSets, HasFileGood DEF None
  <2>3. \A k \in Lookups \ {l} : lookup'[k] = lookup[k]
    BY <1>0, <1>6 DEF Becomes
  <2> QED
    BY <1>2, <2>1, <2>2, <2>3 DEF Harmless
<1>7. PICK a \in HasPath : a = lookup[l].after
  BY <1>4, LabelSets
<1>8. PICK b \in HasPath : b = IF lookup[l].after = "open" THEN "open" ELSE "map"
  BY LabelSets
<1>9. ASSUME IndexFails(l) PROVE Good(l)' /\ Shaped' /\ Harmless(l)
  <2>1. Becomes(l, [lookup[l] EXCEPT !.index = NoIndex, !.pc = b])
    BY <1>8, <1>9 DEF IndexFails
  <2> QED
    BY <1>6, <2>1
<1>10. CASE ensure(l)
  <2>1. PICK c \in HasPath : c = IF symindex # <<>> THEN lookup[l].after ELSE "parse"
    BY <1>7, LabelSets
  <2>2. Goto(l, c)
    BY <1>10, <2>1 DEF ensure
  <2> QED
    BY <1>5, <2>2
<1>11. CASE parse(l)
  <2>1. PICK x : x = IndexOfFile(world.content, ReadSize)
    OBVIOUS
  <2>2. Becomes(l, [lookup[l] EXCEPT !.pc = "create_index", !.index = x]) \/ IndexFails(l)
    BY <1>11, <2>1 DEF parse
  <2>3. "create_index" \in HasPath
    BY LabelSets
  <2> QED
    BY <1>6, <1>9, <2>2, <2>3
<1>12. CASE create_index(l)
  BY <1>5, <1>12, LabelSets DEF create_index
<1>13. CASE write_index(l) \/ index_exists(l)
  <2>1. IndexFails(l) \/ Becomes(l, [lookup[l] EXCEPT !.pc = a, !.index = NoIndex])
    BY <1>7, <1>13 DEF write_index, index_exists
  <2> QED
    BY <1>6, <1>9, <2>1
<1> QED
  BY <1>10, <1>11, <1>12, <1>13

\* A lookup goes on with the same server.
LEMMA AtServerGood ==
  ASSUME NEW l \in Lookups, Good(l), UNCHANGED <<world, sym, disturbed>>, Stays(l),
         lookup[l].pc \in AtServer, lookup'[l].pc \in AtServer, lookup'[l].path = lookup[l].path,
         lookup'[l].pc = "sym_exists" => sym, IsBreakpadFile => Receiving(l)'
  PROVE  Good(l)'
<1>1. IsBreakpadFile' = IsBreakpadFile /\ Deliverable' = Deliverable
  BY DEF IsBreakpadFile, Deliverable
<1>2. GoesOn(l)'
  BY LabelSets DEF Good, GoesOn
<1>3. ASSUME IsBreakpadFile PROVE Sound(l)' /\ FailsRight(l)'
  <2>1. CachedFile(l) /\ Fresh(l) /\ FoundReadonly(l) /\ ServersTried(l)
    BY <1>3 DEF Good, Sound
  <2>2. Fresh(l)' /\ CachedFile(l)' /\ FoundReadonly(l)' /\ FailsRight(l)'
    BY <2>1, LabelSets DEF Fresh, Stays, CachedFile, FoundReadonly, FailsRight
  <2>3. ServersTried(l)'
    BY <1>1, <2>1 DEF ServersTried, Stays
  <2> QED
    BY <1>3, <2>2, <2>3 DEF Sound
<1> QED
  BY <1>1, <1>2, <1>3 DEF Good

LEMMA ServerSteps ==
  ASSUME IInv, NEW l \in Lookups, connect(l) \/ answer(l) \/ create_sym(l)
  PROVE  Good(l)' /\ Shaped' /\ Harmless(l)
<1>0. PICK S : lookup \in [Lookups -> LookupState(S)]
  BY DEF IInv, Shaped
<1>1. Good(l) /\ Types
  BY DEF IInv
<1>2. UNCHANGED <<world, sym, disturbed>> /\ lookup[l].pc \in {"connect", "answer", "create_sym"}
  BY DEF connect, answer, create_sym, diskVars, otherVars, At
<1>3. lookup[l].pc \in AtServer
  BY <1>2, LabelSets
<1>4. \A k \in Lookups \ {l} : lookup'[k] = lookup[k]
  BY <1>0 DEF connect, answer, create_sym, Goto, Becomes, NextCandidate, CandidateFails, ServerFails
<1>5. Harmless(l)
  BY <1>2, <1>4 DEF Harmless
<1>6. ASSUME NEW label \in AtServer, Goto(l, label), label = "sym_exists" => sym PROVE Good(l)' /\ Shaped'
  <2>1. label \in Labels
    BY DEF Labels
  <2>2. /\ lookup' \in [Lookups -> LookupState(S)] /\ lookup'[l].pc = label /\ Stays(l)
        /\ lookup'[l].path = lookup[l].path /\ lookup'[l].received = lookup[l].received
    BY <1>0, <1>6, <2>1, GotoFacts DEF Stays
  <2>3. IsBreakpadFile => Receiving(l)'
    BY <1>1, <1>2, <2>2 DEF Good, Sound, Receiving
  <2> QED
    BY <1>1, <1>2, <1>3, <1>6, <2>2, <2>3, AtServerGood DEF Shaped
<1>7. CASE connect(l)
  BY <1>5, <1>6, <1>7, LabelSets DEF connect
<1>8. CASE answer(l)
  <2>1. CASE Goto(l, "create_sym")
    BY <1>5, <1>6, <2>1, LabelSets
  <2>2. CASE world.answers[lookup[l].server] = "refuses" /\ ServerFails(l)
    BY <1>0, <1>1, <1>2, <1>3, <1>5, <2>2, NextServer
  <2> QED
    BY <1>8, <2>1, <2>2 DEF answer
<1>9. CASE create_sym(l)
  BY <1>5, <1>6, <1>9, LabelSets DEF create_sym
<1> QED
  BY <1>7, <1>8, <1>9

LEMMA ReceiveSteps ==
  ASSUME IInv, NEW l \in Lookups, receive(l) \/ receive_fails(l) \/ receive_ends(l)
  PROVE  Good(l)' /\ Shaped' /\ Harmless(l)
<1>0. PICK S : lookup \in [Lookups -> LookupState(S)]
  BY DEF IInv, Shaped
<1>1. Good(l) /\ Types /\ lookup[l] \in LookupState(S)
  BY <1>0 DEF IInv
<1>2. UNCHANGED <<world, disturbed>> /\ lookup[l].pc = "receive" /\ lookup[l].pc \in AtServer
  BY LabelSets DEF receive, receive_fails, receive_ends, otherVars, At
<1>3. \A k \in Lookups \ {l} : lookup'[k] = lookup[k]
  BY <1>0 DEF receive, receive_fails, receive_ends, Becomes, NextCandidate, CandidateFails, ServerFails
<1>4. CASE receive(l)
  <2>1. sym' = sym
    BY <1>4 DEF receive, diskVars
  <2>2. PICK n \in 1 .. MaxChunk :
          /\ lookup[l].received + n <= Len(world.content)
          /\ world.answers[lookup[l].server] = "breaks" => lookup[l].received + n < Len(world.content)
          /\ Becomes(l, [lookup[l] EXCEPT !.received = lookup[l].received + n,
                !.parser = consume(@, SubSeq(world.content, lookup[l].received + 1,
                                             lookup[l].received + n))])
    BY <1>4 DEF receive
  <2>3. PICK m \in Nat : m = lookup[l].received + n
    BY <1>1, SymbolFetchAssumption DEF LookupState
  <2>4. PICK x : x = consume(lookup[l].parser, SubSeq(world.content, lookup[l].received + 1,
                                                      lookup[l].received + n))
    OBVIOUS
  <2>5. Becomes(l, [lookup[l] EXCEPT !.received = m, !.parser = x])
    BY <2>2, <2>3, <2>4
  <2>6. /\ Shaped' /\ lookup'[l].pc = lookup[l].pc /\ lookup'[l].path = lookup[l].path
        /\ Stays(l) /\ lookup'[l].received = m
    BY <1>0, <2>5, ReceiveFacts
  <2>7. Receiving(l)'
    <3>1. ~world.full /\ world.answers[lookup[l].server] \in {"delivers", "breaks"}
      BY <1>4 DEF receive
    <3>2. world.answers[lookup[l].server] = "breaks" => m < Len(world.content)
      BY <2>2, <2>3
    <3> QED
      BY <1>2, <2>6, <3>1, <3>2 DEF Receiving, Stays
  <2>8. Good(l)'
    BY <1>1, <1>2, <2>1, <2>6, <2>7, AtServerGood
  <2> QED
    BY <1>2, <1>3, <2>1, <2>6, <2>8 DEF Harmless
<1>5. CASE receive_fails(l)
  <2>1. sym' = sym /\ ServerFails(l)
    BY <1>5 DEF receive_fails
  <2>2. world.full \/ world.answers[lookup[l].server] # "delivers"
    BY <1>5 DEF receive_fails
  <2>3. Good(l)' /\ Shaped'
    BY <1>0, <1>1, <1>2, <2>1, <2>2, NextServer
  <2> QED
    BY <1>2, <1>3, <2>1, <2>3 DEF Harmless
<1>6. CASE receive_ends(l)
  <2>1. sym' = TRUE /\ lookup[l].received = Len(world.content)
    BY <1>6 DEF receive_ends
  <2>2. /\ Shaped' /\ Stays(l) /\ lookup'[l].path = "cache" /\ lookup'[l].after = "open"
        /\ lookup'[l].pc \in {"open", "create_index"}
    BY <1>0, <1>6, ReceivedFacts
  <2>3. Good(l)'
    BY <1>1, <1>2, <2>1, <2>2, LabelSets, HasFileGood DEF None
  \* The whole file: it is not empty, so that a server delivered it.
  <2>4. IsBreakpadFile => Deliverable
    <3> SUFFICES ASSUME IsBreakpadFile PROVE Deliverable
      OBVIOUS
    <3>1. lookup[l].received \in Nat /\ lookup[l].received # 0
      BY <1>1, <2>1 DEF LookupState, IsBreakpadFile, is_breakpad_file, IsRecord
    <3>2. /\ ~world.full /\ lookup[l].server \in Servers
          /\ world.answers[lookup[l].server] = "delivers"
      BY <1>1, <1>2, <2>1, <3>1 DEF Good, Sound, Receiving, ServersTried
    <3> QED
      BY <3>2 DEF Deliverable
  <2> QED
    BY <1>2, <1>3, <2>1, <2>2, <2>3, <2>4 DEF Harmless
<1> QED
  BY <1>4, <1>5, <1>6

LEMMA EndSteps ==
  ASSUME IInv, NEW l \in Lookups, sym_exists(l) \/ cancel(l)
  PROVE  Good(l)' /\ Shaped' /\ Harmless(l)
<1>0. PICK S : lookup \in [Lookups -> LookupState(S)]
  BY DEF IInv, Shaped
<1>1. Good(l) /\ Types
  BY DEF IInv
<1>2. UNCHANGED <<world, sym, disturbed>>
  BY DEF sym_exists, cancel, otherVars, diskVars
<1>3. \A k \in Lookups \ {l} : lookup'[k] = lookup[k]
  BY <1>0 DEF sym_exists, cancel, Becomes, NextCandidate, CandidateFails, ServerFails
<1>4. Harmless(l)
  BY <1>2, <1>3 DEF Harmless
<1>5. CASE sym_exists(l)
  <2>1. lookup[l].pc = "sym_exists" /\ lookup[l].pc \in AtServer
    BY <1>5, LabelSets DEF sym_exists, At
  <2>2. CASE sym
    <3>1. Becomes(l, [lookup[l] EXCEPT !.pc = "ensure", !.path = "cache", !.after = "open"])
      BY <1>5, <2>2 DEF sym_exists
    <3>2. /\ Shaped' /\ Stays(l) /\ lookup'[l].path = "cache" /\ lookup'[l].pc = "ensure"
          /\ lookup'[l].after = "open"
      BY <1>0, <3>1, EnsureFacts
    <3>3. Good(l)'
      BY <1>1, <1>2, <2>1, <2>2, <3>2, LabelSets, HasFileGood DEF None
    <3> QED
      BY <1>4, <3>2, <3>3
  \* The file is gone again: it was deleted under this lookup.
  <2>3. CASE ~sym
    <3>1. ServerFails(l)
      BY <1>5, <2>3 DEF sym_exists
    <3>2. l \in disturbed \/ ~IsBreakpadFile
      BY <1>1, <2>1, <2>3 DEF Good, Sound, CachedFile
    <3> QED
      BY <1>0, <1>1, <1>2, <1>4, <2>1, <3>1, <3>2, NextServer
  <2> QED
    BY <2>2, <2>3
<1>6. CASE cancel(l)
  <2>1. Shaped' /\ Stays(l) /\ lookup'[l].pc = "canceled" /\ lookup'[l].path = lookup[l].path
    BY <1>0, <1>6, CancelFacts
  <2>2. Good(l)'
    BY <1>1, <1>2, <2>1, LabelSets, HasFileGood
  <2> QED
    BY <1>4, <2>1, <2>2
<1> QED
  BY <1>5, <1>6

LEMMA ActorSteps ==
  ASSUME IInv, NEW l \in Lookups, Step(l) \/ cancel(l)
  PROVE  Good(l)' /\ Shaped' /\ Harmless(l)
BY FindSteps, MapSteps, IndexSteps, ServerSteps, ReceiveSteps, EndSteps DEF Step

LEMMA GoodStep == IInv /\ [Next]_vars => Shaped' /\ \A l \in Lookups : Good(l)'
<1> SUFFICES ASSUME IInv, [Next]_vars PROVE Shaped' /\ \A l \in Lookups : Good(l)'
  OBVIOUS
<1>1. ASSUME NEW l \in Lookups, Step(l) \/ cancel(l) PROVE Shaped' /\ \A k \in Lookups : Good(k)'
  <2>1. Good(l)' /\ Shaped' /\ Harmless(l)
    BY <1>1, ActorSteps
  <2>2. ASSUME NEW k \in Lookups \ {l} PROVE Good(k)'
    BY <2>1, OtherLookup DEF Harmless, IInv
  <2> QED
    BY <2>1, <2>2
<1>2. CASE evict_sym
  BY <1>2, OtherLookup DEF evict_sym, IInv, Shaped
<1>3. CASE evict_symindex \/ Done \/ UNCHANGED vars
  BY <1>3, OtherLookup DEF evict_symindex, Done, vars, IInv, Shaped
<1> QED
  BY <1>1, <1>2, <1>3 DEF Next

-----------------------------------------------------------------------------
(* What the observer is told                                               *)

Download == [lookup : Lookups, ends : Seq({"completed", "failed", "canceled"})]

\* A lookup leaves its download only by telling the observer how it ended.
LEMMA DownloadMoves ==
  ASSUME IInv, NEW l \in Lookups, Step(l) \/ cancel(l)
  PROVE  \/ downloads' = downloads /\ (lookup[l].pc \in Downloading => lookup'[l].pc \in Downloading)
         \/ \E end \in {"completed", "failed", "canceled"} : Report(l, end)
         \/ /\ lookup[l].pc = "connect" /\ lookup'[l].pc \in Downloading
            /\ downloads' = Append(downloads, [lookup |-> l, ends |-> <<>>])
<1>0. PICK S : lookup \in [Lookups -> LookupState(S)]
  BY DEF IInv, Shaped
<1>1. CASE find(l) \/ open(l) \/ find_index(l) \/ open_index(l) \/ map(l)
  BY <1>1 DEF find, open, find_index, open_index, map, At, Downloading
<1>2. CASE ensure(l) \/ parse(l) \/ create_index(l) \/ write_index(l) \/ index_exists(l)
  BY <1>2 DEF ensure, parse, create_index, write_index, index_exists, At, Downloading
<1>3. \A label \in Downloading : label \in Labels
  BY DEF Labels, AtServer
<1>4. ASSUME NEW label \in Downloading, Goto(l, label) PROVE lookup'[l].pc \in Downloading
  BY <1>0, <1>3, <1>4, GotoFacts
<1>5. CASE connect(l) \/ answer(l) \/ create_sym(l)
  BY <1>4, <1>5 DEF connect, answer, create_sym, At, Downloading
<1>6. CASE receive(l)
  <2>1. downloads' = downloads /\ lookup[l].pc = "receive"
    BY <1>6 DEF receive, At
  <2>2. PICK n, x : Becomes(l, [lookup[l] EXCEPT !.received = n, !.parser = x])
    BY <1>6 DEF receive
  <2>3. lookup[l] \in LookupState(S) /\ lookup'[l] = [lookup[l] EXCEPT !.received = n, !.parser = x]
    BY <1>0, <2>2 DEF Becomes
  <2>4. lookup'[l].pc = lookup[l].pc
    BY <2>3 DEF LookupState
  <2> QED
    BY <2>1, <2>4
<1>7. CASE receive_fails(l) \/ receive_ends(l) \/ sym_exists(l) \/ cancel(l)
  BY <1>7 DEF receive_fails, receive_ends, sym_exists, cancel
<1> QED
  BY <1>1, <1>2, <1>5, <1>6, <1>7 DEF Step

LEMMA AppendToEmpty ==
  ASSUME NEW S, NEW x \in S
  PROVE  Append(<<>>, x) \in Seq(S) /\ Len(Append(<<>>, x)) = 1
<1>1. <<>> \in Seq(S) /\ Len(<<>>) = 0
  OBVIOUS
<1> QED
  BY <1>1

LEMMA ReportStep ==
  ASSUME IInv, NEW l \in Lookups, NEW end \in {"completed", "failed", "canceled"}, Report(l, end),
         Harmless(l)
  PROVE  downloads' \in Reports /\ DownloadsEndOnce'
<1>0. downloads \in Seq(Download)
  BY DEF IInv, Types, Reports, Download
<1>1. PICK n \in Nat : n = Len(downloads) /\ DOMAIN downloads = 1 .. n
  BY <1>0
<1>2. \A d \in 1 .. n : downloads[d] \in Download
  BY <1>0, <1>1
<1>3. DOMAIN downloads' = 1 .. n
  BY <1>1 DEF Report
<1>4. ASSUME NEW d \in 1 .. n
      PROVE  /\ downloads'[d] \in Download /\ downloads'[d].lookup = downloads[d].lookup
             /\ d \in Open(l) => Len(downloads'[d].ends) = 1
             /\ d \notin Open(l) => downloads'[d] = downloads[d]
  <2>1. CASE d \in Open(l)
    <3>1. downloads[d].ends = <<>> /\ downloads[d] \in Download
      BY <1>2, <2>1 DEF Open
    <3>2. downloads'[d] = [downloads[d] EXCEPT !.ends = Append(downloads[d].ends, end)]
      BY <1>1, <2>1 DEF Report
    <3>3. PICK e \in Seq({"completed", "failed", "canceled"}) :
            e = Append(downloads[d].ends, end) /\ Len(e) = 1
      BY <3>1, AppendToEmpty
    <3>4. downloads'[d] = [downloads[d] EXCEPT !.ends = e]
      BY <3>2, <3>3
    <3> QED
      BY <2>1, <3>1, <3>3, <3>4 DEF Download
  <2>2. CASE d \notin Open(l)
    BY <1>1, <1>2, <2>2 DEF Report
  <2> QED
    BY <2>1, <2>2
<1>5. downloads' \in Reports
  <2>1. downloads' = [d \in 1 .. n |-> downloads'[d]]
    BY <1>1 DEF Report
  <2>2. downloads' \in Seq(Download)
    BY <1>4, <2>1
  <2> QED
    BY <2>2 DEF Reports, Download
<1>6. ASSUME NEW d \in 1 .. n
      PROVE  /\ Len(downloads'[d].ends) <= 1
             /\ downloads'[d].ends = <<>> =>
                  /\ lookup'[downloads'[d].lookup].pc \in Downloading
                  /\ Open(downloads[d].lookup)' = {d}
  <2>1. CASE d \in Open(l)
    <3>1. Len(downloads'[d].ends) = 1 /\ downloads'[d].ends # <<>>
      BY <1>4, <2>1
    <3> QED
      BY <3>1
  <2>2. CASE d \notin Open(l)
    <3>1. downloads'[d] = downloads[d] /\ Len(downloads[d].ends) <= 1
      BY <1>1, <1>4, <2>2 DEF IInv, DownloadsEndOnce
    <3>2. ASSUME downloads'[d].ends = <<>>
          PROVE  /\ lookup'[downloads'[d].lookup].pc \in Downloading
                 /\ Open(downloads[d].lookup)' = {d}
      <4>1. downloads[d].lookup # l /\ downloads[d].lookup \in Lookups
        BY <1>1, <1>2, <2>2, <3>1, <3>2 DEF Open, Download
      <4>2. PICK k \in Lookups \ {l} : k = downloads[d].lookup
        BY <4>1
      <4>3. lookup[k].pc \in Downloading /\ Open(k) = {d}
        BY <1>1, <3>1, <3>2, <4>2 DEF IInv, DownloadsEndOnce
      <4>4. lookup'[k].pc \in Downloading
        BY <4>2, <4>3 DEF Harmless
      <4>5. \A e \in 1 .. n : e \in Open(k)' <=> e \in Open(k)
        <5> SUFFICES ASSUME NEW e \in 1 .. n PROVE e \in Open(k)' <=> e \in Open(k)
          OBVIOUS
        <5>1. e \in Open(l) => downloads[e].lookup = l
          BY DEF Open
        <5>2. CASE e \in Open(l)
          BY <1>1, <1>3, <1>4, <4>2, <5>1, <5>2 DEF Open
        <5>3. CASE e \notin Open(l)
          BY <1>1, <1>3, <1>4, <5>3 DEF Open
        <5> QED
          BY <5>2, <5>3
      <4>6. Open(k)' \subseteq 1 .. n /\ Open(k) \subseteq 1 .. n
        BY <1>1, <1>3 DEF Open
      <4>7. Open(k)' = {d}
        BY <4>3, <4>5, <4>6
      <4> QED
        BY <3>1, <4>2, <4>4, <4>7 DEF Open
    <3> QED
      BY <3>1, <3>2
  <2> QED
    BY <2>1, <2>2
<1>7. DownloadsEndOnce'
  BY <1>3, <1>6 DEF DownloadsEndOnce
<1> QED
  BY <1>5, <1>7

LEMMA ConnectStep ==
  ASSUME IInv, NEW l \in Lookups, Harmless(l), lookup[l].pc = "connect",
         lookup'[l].pc \in Downloading,
         downloads' = Append(downloads, [lookup |-> l, ends |-> <<>>])
  PROVE  downloads' \in Reports /\ DownloadsEndOnce'
<1>0. downloads \in Seq(Download)
  BY DEF IInv, Types, Reports, Download
<1>1. PICK n \in Nat : n = Len(downloads) /\ DOMAIN downloads = 1 .. n
  BY <1>0
<1>2. PICK x \in Download : x = [lookup |-> l, ends |-> <<>>] /\ x.lookup = l /\ x.ends = <<>>
  <2>1. <<>> \in Seq({"completed", "failed", "canceled"})
    OBVIOUS
  <2>2. [lookup |-> l, ends |-> <<>>] \in Download
    BY <2>1 DEF Download
  <2> QED
    BY <2>2
<1>3. /\ downloads' \in Seq(Download) /\ DOMAIN downloads' = 1 .. n + 1
      /\ \A d \in 1 .. n : downloads'[d] = downloads[d]
      /\ downloads'[n + 1] = x
  BY <1>0, <1>1, <1>2
<1>4. \A d \in 1 .. n : downloads[d] \in Download
  BY <1>0, <1>1
\* There was no open download of this lookup.
<1>5. Open(l) = {}
  <2>1. ASSUME NEW d \in Open(l) PROVE FALSE
    <3>1. d \in DOMAIN downloads /\ downloads[d].lookup = l /\ downloads[d].ends = <<>>
      BY <2>1 DEF Open
    <3>2. lookup[l].pc \in Downloading
      BY <3>1 DEF IInv, DownloadsEndOnce
    <3> QED
      BY <3>2 DEF Downloading
  <2> QED
    BY <2>1
<1>6. ASSUME NEW k \in Lookups PROVE Open(k)' = IF k = l THEN {n + 1} ELSE Open(k)
  <2>1. Open(k)' \subseteq 1 .. n + 1 /\ Open(k) \subseteq 1 .. n
    BY <1>1, <1>3 DEF Open
  <2>2. \A d \in 1 .. n : d \in Open(k)' <=> d \in Open(k)
    BY <1>1, <1>3 DEF Open
  <2>3. n + 1 \in Open(k)' <=> k = l
    BY <1>2, <1>3 DEF Open
  <2>4. \A d \in 1 .. n + 1 : d \in 1 .. n \/ d = n + 1
    OBVIOUS
  <2>6. CASE k = l
    <3>1. \A d \in 1 .. n : d \notin Open(k)'
      BY <1>5, <2>2, <2>6
    <3>2. n + 1 \in Open(k)'
      BY <2>3, <2>6
    <3> QED
      BY <2>1, <2>4, <2>6, <3>1, <3>2
  <2>7. CASE k # l
    <3>1. n + 1 \notin Open(k)'
      BY <2>3, <2>7
    <3>2. Open(k)' \subseteq 1 .. n
      BY <2>1, <2>4, <3>1
    <3> QED
      BY <2>1, <2>2, <2>7, <3>2
  <2> QED
    BY <2>6, <2>7
<1>7. ASSUME NEW d \in 1 .. n + 1
      PROVE  /\ Len(downloads'[d].ends) <= 1
             /\ downloads'[d].ends = <<>> =>
                  /\ lookup'[downloads'[d].lookup].pc \in Downloading
                  /\ Open(downloads[d].lookup)' = {d}
  <2>1. CASE d = n + 1
    <3>1. Len(downloads'[d].ends) <= 1 /\ downloads'[d].lookup = l
      BY <1>2, <1>3, <2>1
    <3>2. Open(l)' = {d}
      BY <1>6, <2>1
    <3> QED
      BY <3>1, <3>2 DEF Open
  <2>2. CASE d \in 1 .. n
    <3>1. downloads'[d] = downloads[d] /\ Len(downloads[d].ends) <= 1 /\ downloads[d].lookup \in Lookups
      BY <1>1, <1>3, <1>4, <2>2 DEF IInv, DownloadsEndOnce, Download
    <3>2. ASSUME downloads'[d].ends = <<>>
          PROVE  /\ lookup'[downloads'[d].lookup].pc \in Downloading
                 /\ Open(downloads[d].lookup)' = {d}
      <4>1. PICK k \in Lookups : k = downloads[d].lookup
        BY <3>1
      <4>2. lookup[k].pc \in Downloading /\ Open(k) = {d}
        BY <1>1, <2>2, <3>1, <3>2, <4>1 DEF IInv, DownloadsEndOnce
      <4>3. k # l
        BY <1>5, <4>2
      <4>4. lookup'[k].pc \in Downloading /\ Open(k)' = {d}
        BY <1>6, <4>2, <4>3 DEF Harmless
      <4> QED
        BY <3>1, <4>1, <4>4 DEF Open
    <3> QED
      BY <3>1, <3>2
  <2>3. d \in 1 .. n \/ d = n + 1
    OBVIOUS
  <2> QED
    BY <2>1, <2>2, <2>3
<1>8. DownloadsEndOnce'
  BY <1>3, <1>7 DEF DownloadsEndOnce
<1> QED
  BY <1>3, <1>8 DEF Reports, Download

LEMMA DownloadsStep == IInv /\ [Next]_vars => downloads' \in Reports /\ DownloadsEndOnce'
<1> SUFFICES ASSUME IInv, [Next]_vars PROVE downloads' \in Reports /\ DownloadsEndOnce'
  OBVIOUS
<1>0. downloads \in Reports /\ DownloadsEndOnce
  BY DEF IInv, Types
<1>1. ASSUME downloads' = downloads,
             \A k \in Lookups : lookup[k].pc \in Downloading => lookup'[k].pc \in Downloading
      PROVE  downloads' \in Reports /\ DownloadsEndOnce'
  <2>1. \A d \in DOMAIN downloads : downloads[d].lookup \in Lookups
    <3>1. downloads \in Seq(Download)
      BY <1>0 DEF Reports, Download
    <3>2. \A d \in DOMAIN downloads : downloads[d] \in Download
      BY <3>1
    <3> QED
      BY <3>2 DEF Download
  <2> QED
    BY <1>0, <1>1, <2>1 DEF DownloadsEndOnce, Open
<1>2. ASSUME NEW l \in Lookups, Step(l) \/ cancel(l)
      PROVE  downloads' \in Reports /\ DownloadsEndOnce'
  <2>1. Harmless(l)
    BY <1>2, ActorSteps
  <2>2. CASE downloads' = downloads /\ (lookup[l].pc \in Downloading => lookup'[l].pc \in Downloading)
    BY <1>1, <2>1, <2>2 DEF Harmless
  <2> QED
    BY <1>2, <2>1, <2>2, DownloadMoves, ReportStep, ConnectStep
<1>3. CASE evict_sym \/ evict_symindex \/ Done \/ UNCHANGED vars
  BY <1>1, <1>3 DEF evict_sym, evict_symindex, Done, vars
<1> QED
  BY <1>2, <1>3 DEF Next

-----------------------------------------------------------------------------
(* The theorems                                                            *)

LEMMA TypesStep == IInv /\ [Next]_vars => Types'
<1> SUFFICES ASSUME IInv, [Next]_vars PROVE Types'
  OBVIOUS
<1>0. Types /\ downloads' \in Reports
  BY DownloadsStep DEF IInv
<1>1. ASSUME NEW l \in Lookups, Step(l) \/ cancel(l) PROVE Types'
  <2>1. world' = world /\ disturbed' = disturbed
    BY <1>1, ActorSteps DEF Harmless
  <2>2. sym' = sym \/ sym' = TRUE
    BY <1>1 DEF Step, find, open, find_index, open_index, map, connect, answer, create_sym, receive,
                receive_fails, receive_ends, sym_exists, ensure, parse, create_index, write_index,
                index_exists, cancel, diskVars
  <2> QED
    BY <1>0, <2>1, <2>2 DEF Types
<1>2. CASE evict_sym \/ evict_symindex \/ Done \/ UNCHANGED vars
  BY <1>0, <1>2 DEF evict_sym, evict_symindex, Done, vars, Types
<1> QED
  BY <1>1, <1>2 DEF Next

LEMMA InitIInv == Init => IInv
<1> SUFFICES ASSUME Init PROVE IInv
  OBVIOUS
<1>1. Types
  <2>1. downloads \in Reports
    BY DEF Init, Reports
  <2> QED
    BY <2>1 DEF Init, Types
<1>2. PICK S : S = {NewParser, NoIndex, <<>>}
  OBVIOUS
<1>3. PICK r : r = [pc |-> "start", candidate |-> "LocalBreakpadFile", path |-> None, server |-> 0,
                    parser |-> NewParser, received |-> 0, index |-> NoIndex, after |-> None,
                    symbols |-> <<>>, refused |-> FALSE]
  OBVIOUS
<1>4. /\ r \in LookupState(S) /\ r.pc = "start" /\ r.path = None
      /\ r.candidate = "LocalBreakpadFile" /\ r.server = 0
  <2>1. "start" \in Labels /\ 0 \in Nat /\ NewParser \in S /\ NoIndex \in S /\ <<>> \in S
    BY <1>2 DEF Labels
  <2> QED
    BY <1>3, <2>1 DEF LookupState
<1>5. lookup = [l \in Lookups |-> r]
  BY <1>3 DEF Init
<1>6. Shaped
  BY <1>4, <1>5 DEF Shaped
<1>7. ASSUME NEW l \in Lookups PROVE Good(l)
  <2>1. /\ lookup[l].pc = "start" /\ lookup[l].path = None
        /\ lookup[l].candidate = "LocalBreakpadFile" /\ lookup[l].server = 0
    BY <1>4, <1>5
  <2> QED
    BY <2>1, LabelSets DEF Good, GoesOn, Sound, Fresh, CachedFile, ServersTried, Receiving,
                           FoundReadonly, FailsRight, None
<1>8. DownloadsEndOnce
  BY DEF Init, DownloadsEndOnce
<1> QED
  BY <1>1, <1>6, <1>7, <1>8 DEF IInv

\* What a lookup knows of the file and of the servers, and its open download, are kept by
\* every step of every lookup and by the quota manager.  The files are created as
\* CleanFile says, which is Refinement below: it holds for any number of calls if no call
\* is at the lock file when the quota manager deletes the file.
THEOREM Inductive == Spec => []IInv
<1>1. IInv /\ [Next]_vars => IInv'
  BY TypesStep, GoodStep, DownloadsStep DEF IInv
<1> QED
  BY <1>1, InitIInv, PTL DEF Spec

\* DownloadStatusReporter: for any number of lookups, every download is reported as ended
\* at most once, and none stays open when its lookup has left it, also when the future is
\* dropped.
THEOREM EndOnce == Spec => []DownloadsEndOnce
<1>1. IInv => DownloadsEndOnce
  BY DEF IInv
<1> QED
  BY <1>1, Inductive, PTL

\* load_symbol_map finds every file that is to be found: if it did not refuse the file for
\* its MODULE line, it fails only if no symbol directory has the file, and no server
\* delivers it or the quota manager deleted it while the lookup ran.  As with Inductive,
\* deletions are those for which create_file_cleanly is CleanFile.
THEOREM OnlyWithoutFile == Spec => []FailsOnlyWithoutFile
<1>1. IInv => FailsOnlyWithoutFile
  <2> SUFFICES ASSUME IInv, NEW l \in Lookups, At(l, "failed"),
                      is_breakpad_file(world.content), ~lookup[l].refused
               PROVE  /\ ~world.readonly
                      /\ \/ l \in disturbed
                         \/ ~sym /\ (world.full \/ \A s \in Servers : world.answers[s] # "delivers")
    BY DEF FailsOnlyWithoutFile
  <2>1. FailsRight(l) /\ lookup[l].pc = "failed"
    BY DEF IInv, Good, IsBreakpadFile, At
  <2> QED
    BY <2>1 DEF FailsRight, Deliverable
<1> QED
  BY <1>1, Inductive, PTL


-----------------------------------------------------------------------------
(***************************************************************************)
(* The files themselves: what SymbolFetch relies on when it takes a .sym   *)
(* or .symindex file for whole, for any number of calls of                 *)
(* create_file_cleanly.                                                    *)
(***************************************************************************)

\* The labels of a call that has an open lock file.
HasLockFile == {"lock"} \cup Holding

\* The labels of a call that has seen the destination file in place, and has
\* yet to remove the lock file.
HasSeenDest == {"drop_existing", "remove_lock_existing",
                "drop_written", "remove_lock_written"}

\* flock: two calls do not hold the same lock file.
LockExclusive ==
  \A c, d \in Calls :
    pc[c] \in Holding /\ pc[d] \in Holding /\ lockFile[c] = lockFile[d] => c = d

\* As long as there is no destination file, no call removes the lock file,
\* and all calls compete for the same one.
OneLockFile ==
  dest = NoInode => \A c \in Calls : pc[c] \in HasLockFile =>
                                    lockFile[c] = lockPath /\ lockPath # NoInode

\* Nobody is past the check of the destination without a reason.
DestKnown ==
  \A c \in Calls :
    /\ pc[c] \in HasSeenDest => dest # NoInode
    /\ pc[c] \in Writing => dest = NoInode

\* The writer's temporary file is the one at the .part path, and it is whole
\* before it is renamed.
TempSound ==
  \A c \in Calls :
    /\ pc[c] \in {"write", "rename"} =>
         tempFile[c] = tempPath /\ tempPath \in Calls /\ author[tempPath] = c
    /\ pc[c] = "rename" => tempPath \in complete

FileInv ==
  /\ FCTypeOK
  /\ LockExclusive
  /\ OneLockFile
  /\ DestKnown
  /\ TempSound
  /\ DestinationIsWhole

\* The labels are all different.
LEMMA FileLabels ==
  /\ Writing \subseteq Holding /\ Holding \subseteq HasLockFile
  /\ Writing \cap HasSeenDest = {}
BY DEF Writing, Holding, HasLockFile, HasSeenDest, HasWritten

\* One call at a time writes: the lock file it holds is the only one.
LEMMA WritersExclude == FileInv => OneWriter
<1> SUFFICES ASSUME FileInv, NEW c \in Calls, NEW d \in Calls,
                    pc[c] \in Writing, pc[d] \in Writing
             PROVE  c = d
  BY DEF OneWriter
<1>1. dest = NoInode
  BY DEF FileInv, DestKnown
<1>2. lockFile[c] = lockPath /\ lockFile[d] = lockPath
  BY <1>1, FileLabels DEF FileInv, OneLockFile
<1> QED
  BY <1>2, FileLabels DEF FileInv, LockExclusive

-----------------------------------------------------------------------------
LEMMA FileInit == FCInit => FileInv
<1> SUFFICES ASSUME FCInit PROVE FileInv
  OBVIOUS
<1> USE InodeAssumption DEF FCInit
<1>1. FCTypeOK
  BY DEF FCTypeOK, Holding, Writing, HasEnded
<1>2. LockExclusive /\ OneLockFile /\ DestKnown /\ TempSound
  BY DEF LockExclusive, OneLockFile, DestKnown, TempSound, HasLockFile,
         HasSeenDest, HasWritten, Holding, Writing
<1>3. DestinationIsWhole
  BY DEF DestinationIsWhole
<1> QED
  BY <1>1, <1>2, <1>3 DEF FileInv

LEMMA FileTypeStep == FCTypeOK /\ TempSound /\ [FCNext]_fcVars => FCTypeOK'
<1> SUFFICES ASSUME FCTypeOK, TempSound, [FCNext]_fcVars PROVE FCTypeOK'
  OBVIOUS
<1> USE DEF FCTypeOK, GoesTo, lockVars, tempVars, destVars, Holding, Writing, HasEnded
<1>1. ASSUME NEW c \in Calls, open_lock_file(c) PROVE FCTypeOK'
  BY <1>1 DEF open_lock_file
<1>2. ASSUME NEW c \in Calls, lock_file_exclusive(c) \/ locking_fails(c) PROVE FCTypeOK'
  BY <1>2 DEF lock_file_exclusive, locking_fails
<1>3. ASSUME NEW c \in Calls, check_destination(c) PROVE FCTypeOK'
  BY <1>3 DEF check_destination
<1>4. ASSUME NEW c \in Calls, open_temp_file(c) PROVE FCTypeOK'
  BY <1>4 DEF open_temp_file
<1>5. ASSUME NEW c \in Calls, write_fn(c) PROVE FCTypeOK'
  BY <1>5 DEF write_fn, TempSound
<1>6. ASSUME NEW c \in Calls, rename_temp_file(c) PROVE FCTypeOK'
  BY <1>6 DEF rename_temp_file
<1>7. ASSUME NEW c \in Calls, remove_temp_file(c) PROVE FCTypeOK'
  BY <1>7 DEF remove_temp_file
<1>8. ASSUME NEW c \in Calls, drop_locked_file(c) PROVE FCTypeOK'
  BY <1>8 DEF drop_locked_file
<1>9. ASSUME NEW c \in Calls, remove_lock_file(c) PROVE FCTypeOK'
  BY <1>9 DEF remove_lock_file
<1>10. ASSUME NEW c \in Calls, handle_existing_fn(c) PROVE FCTypeOK'
  BY <1>10 DEF handle_existing_fn
<1>11. ASSUME NEW c \in Calls, Vanish(c) PROVE FCTypeOK'
  BY <1>11 DEF Vanish
<1>12. CASE Evict
  BY <1>12 DEF Evict
<1>13. CASE AllEnded \/ UNCHANGED fcVars
  BY <1>13 DEF AllEnded, fcVars
<1> QED
  BY <1>1, <1>2, <1>3, <1>4, <1>5, <1>6, <1>7, <1>8, <1>9, <1>10, <1>11, <1>12, <1>13 DEF FCNext, CallStep

LEMMA LockStep == Evictions # "any" /\ FileInv /\ [FCNext]_fcVars => LockExclusive'
<1> SUFFICES ASSUME Evictions # "any", FileInv, [FCNext]_fcVars PROVE LockExclusive'
  OBVIOUS
<1>0. FCTypeOK /\ LockExclusive /\ OneLockFile /\ DestKnown /\ TempSound
      /\ DestinationIsWhole /\ OneWriter
  BY WritersExclude DEF FileInv
<1> USE <1>0, InodeAssumption
   DEF FCTypeOK, GoesTo, lockVars, tempVars, destVars, Holding, Writing, HasWritten,
       LockExclusive
<1>1. ASSUME NEW c \in Calls, open_lock_file(c) PROVE LockExclusive'
  BY <1>1 DEF open_lock_file
<1>2. ASSUME NEW c \in Calls, lock_file_exclusive(c) \/ locking_fails(c) PROVE LockExclusive'
  BY <1>2 DEF lock_file_exclusive, locking_fails
<1>3. ASSUME NEW c \in Calls, check_destination(c) PROVE LockExclusive'
  BY <1>3 DEF check_destination
<1>4. ASSUME NEW c \in Calls, open_temp_file(c) PROVE LockExclusive'
  BY <1>4 DEF open_temp_file
<1>5. ASSUME NEW c \in Calls, write_fn(c) PROVE LockExclusive'
  BY <1>5 DEF write_fn
<1>6. ASSUME NEW c \in Calls, rename_temp_file(c) PROVE LockExclusive'
  BY <1>6 DEF rename_temp_file
<1>7. ASSUME NEW c \in Calls, remove_temp_file(c) PROVE LockExclusive'
  BY <1>7 DEF remove_temp_file
<1>8. ASSUME NEW c \in Calls, drop_locked_file(c) PROVE LockExclusive'
  BY <1>8 DEF drop_locked_file
<1>9. ASSUME NEW c \in Calls, remove_lock_file(c) PROVE LockExclusive'
  BY <1>9 DEF remove_lock_file
<1>10. ASSUME NEW c \in Calls, handle_existing_fn(c) PROVE LockExclusive'
  BY <1>10 DEF handle_existing_fn
<1>11. ASSUME NEW c \in Calls, Vanish(c) PROVE LockExclusive'
  BY <1>11 DEF Vanish
<1>12. CASE Evict
  BY <1>12 DEF Evict, NobodyAtLockFile, HasEnded
<1>13. CASE AllEnded \/ UNCHANGED fcVars
  BY <1>13 DEF AllEnded, fcVars
<1> QED
  BY <1>1, <1>2, <1>3, <1>4, <1>5, <1>6, <1>7, <1>8, <1>9, <1>10, <1>11, <1>12, <1>13 DEF FCNext, CallStep

LEMMA OneLockStep == Evictions # "any" /\ FileInv /\ [FCNext]_fcVars => OneLockFile'
<1> SUFFICES ASSUME Evictions # "any", FileInv, [FCNext]_fcVars PROVE OneLockFile'
  OBVIOUS
<1>0. FCTypeOK /\ LockExclusive /\ OneLockFile /\ DestKnown /\ TempSound
      /\ DestinationIsWhole /\ OneWriter
  BY WritersExclude DEF FileInv
<1> USE <1>0, InodeAssumption
   DEF FCTypeOK, GoesTo, lockVars, tempVars, destVars, Holding, Writing, HasWritten,
       OneLockFile, DestKnown, HasLockFile, HasSeenDest
<1>1. ASSUME NEW c \in Calls, open_lock_file(c) PROVE OneLockFile'
  BY <1>1 DEF open_lock_file
<1>2. ASSUME NEW c \in Calls, lock_file_exclusive(c) \/ locking_fails(c) PROVE OneLockFile'
  BY <1>2 DEF lock_file_exclusive, locking_fails
<1>3. ASSUME NEW c \in Calls, check_destination(c) PROVE OneLockFile'
  BY <1>3 DEF check_destination
<1>4. ASSUME NEW c \in Calls, open_temp_file(c) PROVE OneLockFile'
  BY <1>4 DEF open_temp_file
<1>5. ASSUME NEW c \in Calls, write_fn(c) PROVE OneLockFile'
  BY <1>5 DEF write_fn
<1>6. ASSUME NEW c \in Calls, rename_temp_file(c) PROVE OneLockFile'
  BY <1>6 DEF rename_temp_file
<1>7. ASSUME NEW c \in Calls, remove_temp_file(c) PROVE OneLockFile'
  BY <1>7 DEF remove_temp_file
<1>8. ASSUME NEW c \in Calls, drop_locked_file(c) PROVE OneLockFile'
  BY <1>8 DEF drop_locked_file
<1>9. ASSUME NEW c \in Calls, remove_lock_file(c) PROVE OneLockFile'
  BY <1>9 DEF remove_lock_file
<1>10. ASSUME NEW c \in Calls, handle_existing_fn(c) PROVE OneLockFile'
  BY <1>10 DEF handle_existing_fn
<1>11. ASSUME NEW c \in Calls, Vanish(c) PROVE OneLockFile'
  BY <1>11 DEF Vanish
<1>12. CASE Evict
  BY <1>12 DEF Evict, NobodyAtLockFile, HasEnded
<1>13. CASE AllEnded \/ UNCHANGED fcVars
  BY <1>13 DEF AllEnded, fcVars
<1> QED
  BY <1>1, <1>2, <1>3, <1>4, <1>5, <1>6, <1>7, <1>8, <1>9, <1>10, <1>11, <1>12, <1>13 DEF FCNext, CallStep

LEMMA DestStep == Evictions # "any" /\ FileInv /\ [FCNext]_fcVars => DestKnown'
<1> SUFFICES ASSUME Evictions # "any", FileInv, [FCNext]_fcVars PROVE DestKnown'
  OBVIOUS
<1>0. FCTypeOK /\ LockExclusive /\ OneLockFile /\ DestKnown /\ TempSound
      /\ DestinationIsWhole /\ OneWriter
  BY WritersExclude DEF FileInv
<1> USE <1>0, InodeAssumption
   DEF FCTypeOK, GoesTo, lockVars, tempVars, destVars, Holding, Writing, HasWritten,
       DestKnown, OneWriter, HasSeenDest
<1>1. ASSUME NEW c \in Calls, open_lock_file(c) PROVE DestKnown'
  BY <1>1 DEF open_lock_file
<1>2. ASSUME NEW c \in Calls, lock_file_exclusive(c) \/ locking_fails(c) PROVE DestKnown'
  BY <1>2 DEF lock_file_exclusive, locking_fails
<1>3. ASSUME NEW c \in Calls, check_destination(c) PROVE DestKnown'
  BY <1>3 DEF check_destination
<1>4. ASSUME NEW c \in Calls, open_temp_file(c) PROVE DestKnown'
  BY <1>4 DEF open_temp_file
<1>5. ASSUME NEW c \in Calls, write_fn(c) PROVE DestKnown'
  BY <1>5 DEF write_fn
<1>6. ASSUME NEW c \in Calls, rename_temp_file(c) PROVE DestKnown'
  BY <1>6 DEF rename_temp_file
<1>7. ASSUME NEW c \in Calls, remove_temp_file(c) PROVE DestKnown'
  BY <1>7 DEF remove_temp_file
<1>8. ASSUME NEW c \in Calls, drop_locked_file(c) PROVE DestKnown'
  BY <1>8 DEF drop_locked_file
<1>9. ASSUME NEW c \in Calls, remove_lock_file(c) PROVE DestKnown'
  BY <1>9 DEF remove_lock_file
<1>10. ASSUME NEW c \in Calls, handle_existing_fn(c) PROVE DestKnown'
  BY <1>10 DEF handle_existing_fn
<1>11. ASSUME NEW c \in Calls, Vanish(c) PROVE DestKnown'
  BY <1>11 DEF Vanish
<1>12. CASE Evict
  BY <1>12 DEF Evict, NobodyAtLockFile, HasEnded
<1>13. CASE AllEnded \/ UNCHANGED fcVars
  BY <1>13 DEF AllEnded, fcVars
<1> QED
  BY <1>1, <1>2, <1>3, <1>4, <1>5, <1>6, <1>7, <1>8, <1>9, <1>10, <1>11, <1>12, <1>13 DEF FCNext, CallStep

LEMMA TempStep == Evictions # "any" /\ FileInv /\ [FCNext]_fcVars => TempSound'
<1> SUFFICES ASSUME Evictions # "any", FileInv, [FCNext]_fcVars PROVE TempSound'
  OBVIOUS
<1>0. FCTypeOK /\ LockExclusive /\ OneLockFile /\ DestKnown /\ TempSound
      /\ DestinationIsWhole /\ OneWriter
  BY WritersExclude DEF FileInv
<1> USE <1>0, InodeAssumption
   DEF FCTypeOK, GoesTo, lockVars, tempVars, destVars, Holding, Writing, HasWritten,
       TempSound, OneWriter
<1>1. ASSUME NEW c \in Calls, open_lock_file(c) PROVE TempSound'
  BY <1>1 DEF open_lock_file
<1>2. ASSUME NEW c \in Calls, lock_file_exclusive(c) \/ locking_fails(c) PROVE TempSound'
  BY <1>2 DEF lock_file_exclusive, locking_fails
<1>3. ASSUME NEW c \in Calls, check_destination(c) PROVE TempSound'
  BY <1>3 DEF check_destination
<1>4. ASSUME NEW c \in Calls, open_temp_file(c) PROVE TempSound'
  BY <1>4 DEF open_temp_file
<1>5. ASSUME NEW c \in Calls, write_fn(c) PROVE TempSound'
  BY <1>5 DEF write_fn
<1>6. ASSUME NEW c \in Calls, rename_temp_file(c) PROVE TempSound'
  BY <1>6 DEF rename_temp_file
<1>7. ASSUME NEW c \in Calls, remove_temp_file(c) PROVE TempSound'
  BY <1>7 DEF remove_temp_file
<1>8. ASSUME NEW c \in Calls, drop_locked_file(c) PROVE TempSound'
  BY <1>8 DEF drop_locked_file
<1>9. ASSUME NEW c \in Calls, remove_lock_file(c) PROVE TempSound'
  BY <1>9 DEF remove_lock_file
<1>10. ASSUME NEW c \in Calls, handle_existing_fn(c) PROVE TempSound'
  BY <1>10 DEF handle_existing_fn
<1>11. ASSUME NEW c \in Calls, Vanish(c) PROVE TempSound'
  BY <1>11 DEF Vanish
<1>12. CASE Evict
  BY <1>12 DEF Evict, NobodyAtLockFile, HasEnded
<1>13. CASE AllEnded \/ UNCHANGED fcVars
  BY <1>13 DEF AllEnded, fcVars
<1> QED
  BY <1>1, <1>2, <1>3, <1>4, <1>5, <1>6, <1>7, <1>8, <1>9, <1>10, <1>11, <1>12, <1>13 DEF FCNext, CallStep

LEMMA WholeStep == Evictions # "any" /\ FileInv /\ [FCNext]_fcVars => DestinationIsWhole'
<1> SUFFICES ASSUME Evictions # "any", FileInv, [FCNext]_fcVars PROVE DestinationIsWhole'
  OBVIOUS
<1>0. FCTypeOK /\ LockExclusive /\ OneLockFile /\ DestKnown /\ TempSound
      /\ DestinationIsWhole /\ OneWriter
  BY WritersExclude DEF FileInv
<1> USE <1>0, InodeAssumption
   DEF FCTypeOK, GoesTo, lockVars, tempVars, destVars, Holding, Writing, HasWritten,
       DestinationIsWhole, DestKnown, TempSound, HasSeenDest
<1>1. ASSUME NEW c \in Calls, open_lock_file(c) PROVE DestinationIsWhole'
  BY <1>1 DEF open_lock_file
<1>2. ASSUME NEW c \in Calls, lock_file_exclusive(c) \/ locking_fails(c) PROVE DestinationIsWhole'
  BY <1>2 DEF lock_file_exclusive, locking_fails
<1>3. ASSUME NEW c \in Calls, check_destination(c) PROVE DestinationIsWhole'
  BY <1>3 DEF check_destination
<1>4. ASSUME NEW c \in Calls, open_temp_file(c) PROVE DestinationIsWhole'
  BY <1>4 DEF open_temp_file
<1>5. ASSUME NEW c \in Calls, write_fn(c) PROVE DestinationIsWhole'
  BY <1>5 DEF write_fn
<1>6. ASSUME NEW c \in Calls, rename_temp_file(c) PROVE DestinationIsWhole'
  BY <1>6 DEF rename_temp_file
<1>7. ASSUME NEW c \in Calls, remove_temp_file(c) PROVE DestinationIsWhole'
  BY <1>7 DEF remove_temp_file
<1>8. ASSUME NEW c \in Calls, drop_locked_file(c) PROVE DestinationIsWhole'
  BY <1>8 DEF drop_locked_file
<1>9. ASSUME NEW c \in Calls, remove_lock_file(c) PROVE DestinationIsWhole'
  BY <1>9 DEF remove_lock_file
<1>10. ASSUME NEW c \in Calls, handle_existing_fn(c) PROVE DestinationIsWhole'
  BY <1>10 DEF handle_existing_fn
<1>11. ASSUME NEW c \in Calls, Vanish(c) PROVE DestinationIsWhole'
  BY <1>11 DEF Vanish
<1>12. CASE Evict
  BY <1>12 DEF Evict, NobodyAtLockFile, HasEnded
<1>13. CASE AllEnded \/ UNCHANGED fcVars
  BY <1>13 DEF AllEnded, fcVars
<1> QED
  BY <1>1, <1>2, <1>3, <1>4, <1>5, <1>6, <1>7, <1>8, <1>9, <1>10, <1>11, <1>12, <1>13 DEF FCNext, CallStep

-----------------------------------------------------------------------------
\* What all the properties of the protocol follow from, for any number of
\* calls that fail or vanish at any point, and any number of deletions of
\* the file while nobody is at a lock file.
THEOREM FileInductive == ASSUME Evictions # "any" PROVE FCSpec => []FileInv
<1>1. FCInit => FileInv
  BY FileInit
<1>2. FileInv /\ [FCNext]_fcVars => FileInv'
  <2> SUFFICES ASSUME FileInv, [FCNext]_fcVars PROVE FileInv'
    OBVIOUS
  <2>1. FCTypeOK'
    BY FileTypeStep DEF FileInv
  <2>2. LockExclusive' /\ OneLockFile' /\ DestKnown'
    BY LockStep, OneLockStep, DestStep
  <2>3. TempSound' /\ DestinationIsWhole'
    BY TempStep, WholeStep
  <2> QED
    BY <2>1, <2>2, <2>3 DEF FileInv
<1> QED
  BY <1>1, <1>2, PTL DEF FCSpec

\* One call at a time works on the .part file, although every successful
\* call removes the lock file that the others may be waiting for.
THEOREM Exclusion == ASSUME Evictions # "any" PROVE FCSpec => []OneWriter
BY FileInductive, WritersExclude, PTL

\* A partially written file is never at the destination path.
THEOREM Whole == ASSUME Evictions # "any" PROVE FCSpec => []DestinationIsWhole
<1>1. FileInv => DestinationIsWhole
  BY DEF FileInv
<1> QED
  BY <1>1, FileInductive, PTL

-----------------------------------------------------------------------------
\* What a label stands for in CleanFile.
LEMMA CallStateOf ==
  /\ \A label \in {"open_lock", "lock", "check"} : CallState(label) = "waiting"
  /\ \A label \in Writing \cup {"drop_after_error"} : CallState(label) = "writing"
  /\ \A label \in {"drop_existing", "remove_lock_existing", "handle_existing"} :
       CallState(label) = "found"
  /\ \A label \in {"drop_written", "remove_lock_written"} : CallState(label) = "published"
  /\ \A label \in HasEnded : CallState(label) = label
BY DEF CallState, Writing, HasEnded

\* A step of a call changes the state of this call only.
LEMMA OneCallMoves ==
  ASSUME FCTypeOK, NEW c \in Calls, NEW label, GoesTo(c, label)
  PROVE  /\ CallStates[c] = CallState(pc[c])
         /\ CallStates' = [CallStates EXCEPT ![c] = CallState(label)]
BY DEF FCTypeOK, GoesTo, CallStates

\* A step that moves a call between two labels with the same state, and not
\* the file, is no step of CleanFile.
LEMMA Stutters ==
  ASSUME FCTypeOK, NEW c \in Calls, NEW label, GoesTo(c, label),
         CallState(label) = CallState(pc[c]), FileState' = FileState
  PROVE  UNCHANGED Clean!vars
<1>1. CallStates' = CallStates
  BY OneCallMoves DEF CallStates
<1> QED
  BY <1>1 DEF Clean!vars

\* Every step of the protocol is a step of CleanFile, or leaves its
\* variables alone.
LEMMA CleanStep == Evictions # "any" /\ FileInv /\ [FCNext]_fcVars => [Clean!Next]_Clean!vars
<1> SUFFICES ASSUME Evictions # "any", FileInv, [FCNext]_fcVars PROVE [Clean!Next]_Clean!vars
  OBVIOUS
<1>0. FCTypeOK /\ LockExclusive /\ OneLockFile /\ DestKnown /\ TempSound
      /\ DestinationIsWhole /\ OneWriter
  BY WritersExclude DEF FileInv
<1>a. (dest = NoInode => FileState = "absent") /\ (dest # NoInode => FileState = "whole")
  BY <1>0 DEF FileState, DestinationIsWhole
<1>b. dest' = dest /\ complete' = complete => FileState' = FileState
  BY DEF FileState
<1>c. \A c \in Calls : CallStates[c] = CallState(pc[c])
  BY DEF CallStates
<1> USE <1>0 DEF lockVars, tempVars, destVars
<1>1. ASSUME NEW c \in Calls, open_lock_file(c) PROVE [Clean!Next]_Clean!vars
  <2>1. FileState' = FileState
    BY <1>1, <1>b DEF open_lock_file
  <2>2. CASE GoesTo(c, "lock")
    BY <1>1, <2>1, <2>2, Stutters, CallStateOf DEF open_lock_file
  <2>3. CASE GoesTo(c, "failed")
    BY <1>1, <2>1, <2>3, OneCallMoves, CallStateOf
       DEF open_lock_file, HasEnded, Clean!Next, Clean!ReturnError, Clean!Becomes
  <2> QED
    BY <1>1, <2>2, <2>3 DEF open_lock_file
<1>2. ASSUME NEW c \in Calls, lock_file_exclusive(c) PROVE [Clean!Next]_Clean!vars
  BY <1>2, <1>b, Stutters, CallStateOf DEF lock_file_exclusive
<1>3. ASSUME NEW c \in Calls, locking_fails(c) PROVE [Clean!Next]_Clean!vars
  BY <1>3, <1>b, OneCallMoves, CallStateOf
     DEF locking_fails, HasEnded, Clean!Next, Clean!ReturnError, Clean!Becomes
<1>4. ASSUME NEW c \in Calls, check_destination(c) PROVE [Clean!Next]_Clean!vars
  <2>1. FileState' = FileState
    BY <1>4, <1>b DEF check_destination
  <2>2. CASE dest # NoInode
    <3>1. Clean!FindExisting(c)
      BY <1>4, <1>a, <2>1, <2>2, OneCallMoves, CallStateOf
         DEF check_destination, Clean!FindExisting, Clean!Becomes
    <3> QED
      BY <3>1 DEF Clean!Next
  <2>3. CASE dest = NoInode
    <3>1. GoesTo(c, "open_temp") /\ pc[c] = "check"
      BY <1>4, <2>3 DEF check_destination
    <3>2. CallStates[c] = "waiting" /\ CallStates' = [CallStates EXCEPT ![c] = "writing"]
      BY <3>1, OneCallMoves, CallStateOf DEF Writing
    <3>3. ASSUME NEW d \in Calls, CallStates[d] = "writing" PROVE FALSE
      <4>1. pc[d] \in Writing \cup {"drop_after_error"}
        BY <1>c, <3>3, CallStateOf DEF FCTypeOK, Holding, HasEnded
      <4>2. pc[c] \in Holding /\ pc[d] \in Holding
        BY <3>1, <4>1 DEF Holding
      <4>3. lockFile[c] = lockFile[d]
        BY <2>3, <4>2, FileLabels DEF OneLockFile
      <4>4. c = d
        BY <4>2, <4>3 DEF LockExclusive
      <4> QED
        BY <3>1, <4>1, <4>4 DEF Writing
    <3>4. Clean!StartWriting(c)
      BY <1>a, <2>1, <2>3, <3>2, <3>3 DEF Clean!StartWriting, Clean!Becomes
    <3> QED
      BY <3>4 DEF Clean!Next
  <2> QED
    BY <2>2, <2>3
<1>5. ASSUME NEW c \in Calls, open_temp_file(c) PROVE [Clean!Next]_Clean!vars
  <2>1. dest = NoInode /\ dest' = NoInode
    BY <1>5 DEF open_temp_file, DestKnown, Writing
  <2>2. FileState' = FileState
    BY <2>1 DEF FileState
  <2> QED
    BY <1>5, <2>2, Stutters, CallStateOf DEF open_temp_file, Writing
<1>6. ASSUME NEW c \in Calls, write_fn(c) PROVE [Clean!Next]_Clean!vars
  <2>1. dest = NoInode /\ dest' = NoInode
    BY <1>6 DEF write_fn, DestKnown, Writing
  <2>2. FileState' = FileState
    BY <2>1 DEF FileState
  <2> QED
    BY <1>6, <2>2, Stutters, CallStateOf DEF write_fn, Writing
<1>7. ASSUME NEW c \in Calls, rename_temp_file(c) PROVE [Clean!Next]_Clean!vars
  <2>1. pc[c] = "rename" /\ dest = NoInode /\ tempPath \in complete /\ complete' = complete
    BY <1>7 DEF rename_temp_file, DestKnown, TempSound, Writing
  <2>2. CASE tempPath # NoInode /\ dest' = tempPath /\ GoesTo(c, "drop_written")
    <3>1. FileState = "absent" /\ FileState' = "whole"
      BY <2>1, <2>2 DEF FileState
    <3>2. Clean!Publish(c)
      BY <2>1, <2>2, <3>1, OneCallMoves, CallStateOf
         DEF Writing, Clean!Publish, Clean!Becomes
    <3> QED
      BY <3>2 DEF Clean!Next
  <2>3. CASE dest' = dest /\ GoesTo(c, "remove_temp")
    BY <1>b, <2>1, <2>3, Stutters, CallStateOf DEF Writing
  <2> QED
    BY <1>7, <2>2, <2>3 DEF rename_temp_file
<1>8. ASSUME NEW c \in Calls, remove_temp_file(c) PROVE [Clean!Next]_Clean!vars
  BY <1>8, <1>b, Stutters, CallStateOf DEF remove_temp_file, Writing
<1>9. ASSUME NEW c \in Calls, drop_locked_file(c) PROVE [Clean!Next]_Clean!vars
  <2>1. FileState' = FileState
    BY <1>9, <1>b DEF drop_locked_file
  <2>2. CASE pc[c] = "drop_after_error" /\ GoesTo(c, "failed")
    BY <2>1, <2>2, OneCallMoves, CallStateOf
       DEF HasEnded, Clean!Next, Clean!ReturnError, Clean!Becomes
  <2>3. CASE \/ pc[c] = "drop_existing" /\ GoesTo(c, "remove_lock_existing")
             \/ pc[c] = "drop_written" /\ GoesTo(c, "remove_lock_written")
    BY <2>1, <2>3, Stutters, CallStateOf
  <2> QED
    BY <1>9, <2>2, <2>3 DEF drop_locked_file
<1>10. ASSUME NEW c \in Calls, remove_lock_file(c) PROVE [Clean!Next]_Clean!vars
  <2>1. FileState' = FileState
    BY <1>10, <1>b DEF remove_lock_file
  <2>2. CASE pc[c] = "remove_lock_existing" /\ GoesTo(c, "handle_existing")
    BY <2>1, <2>2, Stutters, CallStateOf
  <2>3. CASE pc[c] = "remove_lock_written" /\ GoesTo(c, "written")
    BY <2>1, <2>3, OneCallMoves, CallStateOf
       DEF HasEnded, Clean!Next, Clean!ReturnOk, Clean!Becomes
  <2> QED
    BY <1>10, <2>2, <2>3 DEF remove_lock_file
<1>11. ASSUME NEW c \in Calls, handle_existing_fn(c) PROVE [Clean!Next]_Clean!vars
  <2>1. FileState' = FileState
    BY <1>11, <1>b DEF handle_existing_fn
  <2>2. CASE dest # NoInode /\ GoesTo(c, "existing")
    BY <1>a, <1>11, <2>1, <2>2, OneCallMoves, CallStateOf
       DEF handle_existing_fn, HasEnded, Clean!Next, Clean!ReturnOk, Clean!Becomes
  <2>3. CASE GoesTo(c, "failed")
    BY <1>11, <2>1, <2>3, OneCallMoves, CallStateOf
       DEF handle_existing_fn, HasEnded, Clean!Next, Clean!ReturnError, Clean!Becomes
  <2> QED
    BY <1>11, <2>2, <2>3 DEF handle_existing_fn
<1>12. ASSUME NEW c \in Calls, Vanish(c) PROVE [Clean!Next]_Clean!vars
  <2>1. FileState' = FileState /\ CallStates' = [CallStates EXCEPT ![c] = "gone"]
    BY <1>12, <1>b, OneCallMoves, CallStateOf DEF Vanish, HasEnded
  <2>2. CallStates[c] \in {"waiting", "writing", "found", "published"}
    BY <1>12, <1>c, CallStateOf DEF Vanish, FCTypeOK, Holding, HasEnded
  <2> QED
    BY <2>1, <2>2 DEF Clean!Next, Clean!Vanish, Clean!InProgress, Clean!Becomes
<1>13. CASE Evict
  <2>1. FileState' = "absent" /\ CallStates' = CallStates
    BY <1>13 DEF Evict, FileState, CallStates
  <2> QED
    BY <2>1 DEF Clean!Next, Clean!Evict
<1>14. CASE AllEnded \/ UNCHANGED fcVars
  <2>1. pc' = pc /\ dest' = dest /\ complete' = complete
    BY <1>14 DEF AllEnded, fcVars
  <2> QED
    BY <1>b, <2>1 DEF Clean!vars, CallStates
<1> QED
  BY <1>1, <1>2, <1>3, <1>4, <1>5, <1>6, <1>7, <1>8, <1>9, <1>10, <1>11, <1>12, <1>13, <1>14
     DEF FCNext, CallStep

\* The lock and temporary files of create_file_cleanly implement CleanFile,
\* deletions included: for any number of calls that fail or vanish at any
\* point, and any number of deletions while nobody is at a lock file, the
\* file appears whole, by one call, and the others find it.
THEOREM Refinement == ASSUME Evictions # "any" PROVE FCSpec => ImplementsCleanFile
<1>1. FCInit => Clean!Init
  <2> SUFFICES ASSUME FCInit PROVE Clean!Init
    OBVIOUS
  <2>1. FileState \in {"absent", "whole"}
    BY InodeAssumption DEF FCInit, FileState
  <2>2. CallStates = [c \in Calls |-> "waiting"]
    BY CallStateOf DEF FCInit, CallStates
  <2> QED
    BY <2>1, <2>2 DEF Clean!Init
<1>2. FileInv /\ [FCNext]_fcVars => [Clean!Next]_Clean!vars
  BY CleanStep
<1> QED
  BY <1>1, <1>2, FileInductive, PTL DEF FCSpec, ImplementsCleanFile, Clean!Spec
================================================================================
