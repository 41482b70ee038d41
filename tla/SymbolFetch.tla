------------------------------ MODULE SymbolFetch ------------------------------
(***************************************************************************)
(* load_symbol_map (samply-symbols/src/lib.rs) for a library whose symbols *)
(* are in a Breakpad .sym file: lookups that run at the same time find the *)
(* file in a symbol directory, in the cache or on a symbol server, make or *)
(* find its .symindex file (wholesym/src/breakpad.rs, helper.rs and        *)
(* downloader.rs), and then look up addresses (BreakpadIndex).             *)
(*                                                                         *)
(* All lookups want the same file, which has the same contents wherever it *)
(* is: the wanted file, that of another debug id, or no Breakpad file at   *)
(* all.  Both the cached .sym file and the .symindex file are created with *)
(* create_file_cleanly, here with what CleanFile says of it, and may be    *)
(* deleted by the quota manager.  FileCreation implements CleanFile for    *)
(* any number of calls if no call is at the lock file when the file is     *)
(* deleted.  Deletions here are of that kind: while the file is there      *)
(* nobody writes it, a lookup at create_sym has yet to open the lock file, *)
(* and one at sym_exists has removed it.  (What a deletion at another      *)
(* moment does is FileCreation's own matter.)  A lookup is a future: it    *)
(* may be dropped wherever it awaits something.                            *)
(***************************************************************************)
EXTENDS BreakpadIndex

CONSTANTS
  Lookups,
  NServers,      \* the servers, in the order of their use
  Contents,      \* what the .sym file may contain
  DebugId,       \* the debug id of the library
  Cuts,          \* bound: the lengths to which an index file may have been cut
  Networks,      \* what the servers may do; one that stalls sends the headers and
                 \* nothing more
  Addresses,     \* what is looked up
  MaxChunk,      \* bound: the bytes of a chunk of a download
  ReadSize,      \* CHUNK_SIZE of parse_sym_file_into_index
  ChunkSize,     \* CHUNK_SIZE of BreakpadSymbolMapOuter::new
  MaxEvictions   \* bound: the files that the quota manager deletes

None == "None"

ASSUME SymbolFetchAssumption ==
  /\ NServers \in Nat /\ MaxEvictions \in Nat
  /\ {DebugId, MaxChunk, ReadSize, ChunkSize} \subseteq Nat \ {0}
  /\ Networks \subseteq [1 .. NServers -> {"delivers", "refuses", "breaks", "stalls"}]
  /\ None \notin Lookups

VARIABLES
  world,        \* the contents of the file, whether a symbol directory has it, what
                \* the servers do, whether the disk is full
  sym,          \* is the .sym file in the cache?
  symindex,     \* the .symindex file's cells, or <<>>
  symWriter,    \* the lookup that writes the .sym file, or None
  indexWriter,  \* the lookup that writes the .symindex file, or None
  lookup,       \* lookup -> its state
  downloads,    \* what the observer was told of each download, by its download_id
  evictions,
  disturbed     \* the lookups that ran while the .sym file was deleted

vars == <<world, sym, symindex, symWriter, indexWriter, lookup, downloads, evictions, disturbed>>
diskVars == <<sym, symindex, symWriter, indexWriter>>
otherVars == <<world, evictions, disturbed>>

Servers == 1 .. NServers

Ended == {"found", "failed", "canceled"}
Downloading == {"answer", "create_sym", "receive", "sym_exists"}

\* What may be left of an index file when the machine went down: the file, the
\* beginning of it, or a file of zeros.
Remains(cells) ==
  {cells, [i \in DOMAIN cells |-> <<0>>]}
  \cup {SubSeq(cells, 1, n) : n \in Cuts \cap 1 .. Len(cells) - 1}

Init ==
  /\ world \in [content : Contents, readonly : BOOLEAN, answers : Networks, full : BOOLEAN]
  /\ sym \in BOOLEAN
  /\ symindex \in {<<>>} \cup UNION {Remains(serialize_to_bytes(index)) :
                                   index \in {IndexOfFile(world.content, ReadSize)} \ {NoIndex}}
  /\ symWriter = None
  /\ indexWriter = None
  /\ lookup = [l \in Lookups |->
       [pc |-> "start", candidate |-> "LocalBreakpadFile", path |-> None, server |-> 0,
        parser |-> NewParser, received |-> 0, index |-> NoIndex, after |-> None, symbols |-> <<>>,
        refused |-> FALSE]]
  /\ downloads = <<>>
  /\ evictions = 0
  /\ disturbed = {}

At(l, pc) == lookup[l].pc = pc
Becomes(l, state) == lookup' = [lookup EXCEPT ![l] = state]
Goto(l, pc) == Becomes(l, [lookup[l] EXCEPT !.pc = pc])

HasFile(path) == path = "readonly" \/ (path = "cache" /\ sym)

-----------------------------------------------------------------------------
(* load_symbol_map and load_file                                           *)

\* The next candidate path, and after the last one an error.  all_errors tells
\* of a candidate that was refused for its contents.
NextCandidate(l, refused) ==
  Becomes(l, IF lookup[l].candidate = "LocalBreakpadFile"
             THEN [lookup[l] EXCEPT !.pc = "find", !.candidate = "BreakpadSymbolServerFile",
                                    !.refused = refused]
             ELSE [lookup[l] EXCEPT !.pc = "failed", !.refused = refused])

CandidateFails(l) == NextCandidate(l, lookup[l].refused)

\* A slip: the other servers are not asked.
ServerFails_for_good(l) == CandidateFails(l)

\* get_file: the next server, and after the last one the file is not found.
ServerFails(l) ==
  IF lookup[l].server < NServers
  THEN Becomes(l, [lookup[l] EXCEPT !.pc = "connect", !.server = @ + 1,
                                    !.parser = NewParser, !.received = 0])
  ELSE CandidateFails(l)

\* get_file_no_download: a symbol directory, and then the cache.  Only
\* BreakpadSymbolServerFile goes on to the servers.
find(l) ==
  /\ lookup[l].pc \in {"start", "find"}
  /\ IF world.readonly \/ sym
     THEN Becomes(l, [lookup[l] EXCEPT !.pc = "open",
                                       !.path = IF world.readonly THEN "readonly" ELSE "cache"])
     ELSE IF lookup[l].candidate = "LocalBreakpadFile" THEN CandidateFails(l)
     ELSE ServerFails(l)
  /\ UNCHANGED <<diskVars, downloads, otherVars>>

\* load_file_impl maps the file; what is mapped stays when the file is
\* deleted.  A file that does not start with MODULE is no Breakpad file.
open(l) ==
  /\ At(l, "open")
  /\ IF HasFile(lookup[l].path) /\ is_breakpad_file(world.content)
     THEN Goto(l, "find_index") ELSE CandidateFails(l)
  /\ UNCHANGED <<diskVars, downloads, otherVars>>

\* BreakpadSymindexFile: where is the .sym file now?
find_index(l) ==
  /\ At(l, "find_index")
  /\ Becomes(l, IF world.readonly \/ sym
                THEN [lookup[l] EXCEPT !.pc = "ensure", !.after = "open_index",
                                       !.path = IF world.readonly THEN "readonly" ELSE "cache"]
                ELSE [lookup[l] EXCEPT !.pc = "map"])
  /\ UNCHANGED <<diskVars, downloads, otherVars>>

\* The caller has a symbol map, and looks up all addresses.
HasMap(l, index) ==
  Becomes(l, [lookup[l] EXCEPT !.pc = "found", !.index = NoIndex,
    !.symbols = [a \in Addresses |-> lookup_sync(index, world.content, a)]])

\* There is no symbol map without an index (NoModuleInfoInSymFile), and one with
\* another debug id is not used (UnmatchedDebugId).
CheckMap(l, index) ==
  IF index.debug_id = DebugId THEN HasMap(l, index) ELSE NextCandidate(l, TRUE)

\* An index file that cannot be opened or parsed is done without.
open_index(l) ==
  /\ At(l, "open_index")
  /\ IF symindex = <<>> \/ parse_symindex_file(symindex) = NoIndex
     THEN Goto(l, "map") ELSE CheckMap(l, parse_symindex_file(symindex))
  /\ UNCHANGED <<diskVars, downloads, otherVars>>

\* BreakpadSymbolMapOuter::new without an index file.
map(l) ==
  /\ At(l, "map")
  /\ CheckMap(l, IndexOfFile(world.content, ChunkSize))
  /\ UNCHANGED <<diskVars, downloads, otherVars>>

-----------------------------------------------------------------------------
(* get_bp_sym_file_from_server, initiate_download and download_to_file     *)

\* The download of this lookup that the observer has not heard the end of.
Open(l) == {d \in DOMAIN downloads : downloads[d].lookup = l /\ downloads[d].ends = <<>>}

\* DownloadStatusReporter: download_completed or download_failed, and then
\* drop, which reports nothing more.
Report(l, end) ==
  downloads' = [d \in DOMAIN downloads |->
    IF d \in Open(l) THEN [downloads[d] EXCEPT !.ends = Append(@, end)] ELSE downloads[d]]

connect(l) ==
  /\ At(l, "connect")
  /\ downloads' = Append(downloads, [lookup |-> l, ends |-> <<>>])
  /\ Goto(l, "answer")
  /\ UNCHANGED <<diskVars, otherVars>>

answer(l) ==
  /\ At(l, "answer")
  /\ IF world.answers[lookup[l].server] = "refuses"
     THEN Report(l, "failed") /\ ServerFails(l)
     ELSE Goto(l, "create_sym") /\ UNCHANGED downloads
  /\ UNCHANGED <<diskVars, otherVars>>

\* create_file_cleanly: one lookup writes, the others wait or find the file.
create_sym(l) ==
  /\ At(l, "create_sym")
  /\ \/ sym /\ Goto(l, "sym_exists") /\ UNCHANGED symWriter
     \/ ~sym /\ symWriter = None /\ symWriter' = l /\ Goto(l, "receive")
  /\ UNCHANGED <<sym, symindex, indexWriter, downloads, otherVars>>

\* A chunk of any size, to the file and to the index generator.
receive(l) ==
  LET from == lookup[l].received
      delivers == world.answers[lookup[l].server]
  IN  /\ At(l, "receive")
      /\ delivers \in {"delivers", "breaks"}
      /\ ~world.full
      /\ \E n \in 1 .. MaxChunk :
           /\ from + n <= Len(world.content)
           /\ delivers = "breaks" => from + n < Len(world.content)
           /\ Becomes(l, [lookup[l] EXCEPT !.received = from + n,
                !.parser = consume(@, SubSeq(world.content, from + 1, from + n))])
      /\ UNCHANGED <<diskVars, downloads, otherVars>>

\* The stream ends early, or the first chunk cannot be written.
receive_fails(l) ==
  /\ At(l, "receive")
  /\ \/ world.answers[lookup[l].server] = "breaks"
     \/ world.answers[lookup[l].server] = "delivers" /\ world.full
  /\ symWriter' = None
  /\ Report(l, "failed")
  /\ ServerFails(l)
  /\ UNCHANGED <<sym, symindex, indexWriter, otherVars>>

\* The file is there, and its index is known.
receive_ends(l) ==
  LET index == finish(lookup[l].parser)
  IN  /\ At(l, "receive")
      /\ lookup[l].received = Len(world.content)
      /\ sym' = TRUE
      /\ symWriter' = None
      /\ Report(l, "completed")
      /\ Becomes(l, [lookup[l] EXCEPT !.path = "cache", !.parser = NewParser, !.received = 0,
           !.pc = IF index = NoIndex THEN "open" ELSE "create_index",
           !.index = index, !.after = "open"])
      /\ UNCHANGED <<symindex, indexWriter, otherVars>>

\* FoundExistingFile, unless the file is gone again when its size is asked.
sym_exists(l) ==
  /\ At(l, "sym_exists")
  /\ IF sym THEN /\ Report(l, "completed")
                 /\ Becomes(l, [lookup[l] EXCEPT !.pc = "ensure", !.path = "cache",
                                                 !.after = "open"])
            ELSE Report(l, "failed") /\ ServerFails(l)
  /\ UNCHANGED <<diskVars, otherVars>>

-----------------------------------------------------------------------------
(* ensure_symindex, parse_sym_file_into_index and write_symindex           *)

\* After a download the error is ignored; load_file returns it, and its
\* caller does without an index file.
IndexFails(l) ==
  Becomes(l, [lookup[l] EXCEPT !.index = NoIndex,
                               !.pc = IF lookup[l].after = "open" THEN "open" ELSE "map"])

ensure(l) ==
  /\ At(l, "ensure")
  /\ Goto(l, IF symindex # <<>> THEN lookup[l].after ELSE "parse")
  /\ UNCHANGED <<diskVars, downloads, otherVars>>

parse(l) ==
  LET index == IndexOfFile(world.content, ReadSize)
  IN  /\ At(l, "parse")
      /\ IF HasFile(lookup[l].path) /\ index # NoIndex
         THEN Becomes(l, [lookup[l] EXCEPT !.pc = "create_index", !.index = index])
         ELSE IndexFails(l)
      /\ UNCHANGED <<diskVars, downloads, otherVars>>

create_index(l) ==
  /\ At(l, "create_index")
  /\ \/ symindex # <<>> /\ Goto(l, "index_exists") /\ UNCHANGED indexWriter
     \/ symindex = <<>> /\ indexWriter = None /\ indexWriter' = l /\ Goto(l, "write_index")
  /\ UNCHANGED <<sym, symindex, symWriter, downloads, otherVars>>

write_index(l) ==
  /\ At(l, "write_index")
  /\ indexWriter' = None
  /\ IF world.full THEN IndexFails(l) /\ UNCHANGED symindex
     ELSE /\ symindex' = serialize_to_bytes(lookup[l].index)
          /\ Becomes(l, [lookup[l] EXCEPT !.pc = lookup[l].after, !.index = NoIndex])
  /\ UNCHANGED <<sym, symWriter, downloads, otherVars>>

index_exists(l) ==
  /\ At(l, "index_exists")
  /\ IF symindex = <<>> THEN IndexFails(l)
     ELSE Becomes(l, [lookup[l] EXCEPT !.pc = lookup[l].after, !.index = NoIndex])
  /\ UNCHANGED <<diskVars, downloads, otherVars>>

-----------------------------------------------------------------------------
(* The outside world                                                       *)

\* A slip: the lock is not released with the future.
Without_keeps(writer, l) == writer

\* The lock is closed with the future that held it.
Without(writer, l) == IF writer = l THEN None ELSE writer

\* A slip: a download in progress ends unnoticed.
cancel_unreported(l) ==
  /\ lookup[l].pc \notin Ended
  /\ Becomes(l, [lookup[l] EXCEPT !.pc = "canceled", !.parser = NewParser, !.received = 0,
                                  !.index = NoIndex])
  /\ symWriter' = Without(symWriter, l)
  /\ indexWriter' = Without(indexWriter, l)
  /\ UNCHANGED <<sym, symindex, downloads, otherVars>>

\* The future is dropped, and with it its DownloadStatusReporter.
cancel(l) ==
  /\ lookup[l].pc \notin Ended
  /\ Becomes(l, [lookup[l] EXCEPT !.pc = "canceled", !.parser = NewParser, !.received = 0,
                                  !.index = NoIndex])
  /\ Report(l, "canceled")
  /\ symWriter' = Without(symWriter, l)
  /\ indexWriter' = Without(indexWriter, l)
  /\ UNCHANGED <<sym, symindex, otherVars>>

evict_sym ==
  /\ sym /\ evictions < MaxEvictions
  /\ sym' = FALSE
  /\ evictions' = evictions + 1
  /\ disturbed' = disturbed \cup {l \in Lookups : lookup[l].pc \notin Ended \cup {"start"}}
  /\ UNCHANGED <<world, symindex, symWriter, indexWriter, lookup, downloads>>

evict_symindex ==
  /\ symindex # <<>> /\ evictions < MaxEvictions
  /\ symindex' = <<>>
  /\ evictions' = evictions + 1
  /\ UNCHANGED <<world, sym, symWriter, indexWriter, lookup, downloads, disturbed>>

Step(l) ==
  \/ find(l) \/ open(l) \/ find_index(l) \/ open_index(l) \/ map(l)
  \/ connect(l) \/ answer(l) \/ create_sym(l)
  \/ receive(l) \/ receive_fails(l) \/ receive_ends(l) \/ sym_exists(l)
  \/ ensure(l) \/ parse(l) \/ create_index(l) \/ write_index(l) \/ index_exists(l)

Done ==
  /\ \A l \in Lookups : lookup[l].pc \in Ended
  /\ UNCHANGED vars

Next == evict_sym \/ evict_symindex \/ Done \/ \E l \in Lookups : Step(l) \/ cancel(l)

Spec == Init /\ [][Next]_vars

\* A lookup waits only for a lock that another one holds, or for a server.
Waits(l) ==
  \/ At(l, "create_sym") /\ ~sym /\ symWriter # None
  \/ At(l, "create_index") /\ symindex = <<>> /\ indexWriter # None
  \/ At(l, "receive") /\ world.answers[lookup[l].server] = "stalls"

Moves(l) == lookup'[l] # lookup[l]

\* The tasks of the runtime go on: weak fairness of every lookup's Step, with
\* its enabling condition written out.  Nothing makes a server that stalls go on.
FairSpec ==
  Spec /\ \A l \in Lookups : []<>(lookup[l].pc \in Ended \/ Waits(l)) \/ []<><<Moves(l)>>_vars

-----------------------------------------------------------------------------
(* Properties                                                              *)

\* SymbolFor the whole file, for every contents and address.
Expected == [content \in Contents |-> [a \in Addresses |-> SymbolFor(content, a)]]

\* Whichever way a lookup got its symbol map (the index made from the chunks of a
\* download, from the file by ensure_symindex or BreakpadSymbolMapOuter::new, or
\* read from a .symindex file that another lookup wrote), the file is the wanted one
\* and every address has the symbol, the size and the frames that the file gives it;
\* and a file that load_symbol_map refuses is not the wanted one.  What is left of a
\* damaged .symindex file never counts.
SymbolsOfTheirFile ==
  \A l \in Lookups :
    /\ At(l, "found") => /\ DebugIdOf(world.content) = DebugId
                        /\ lookup[l].symbols = Expected[world.content]
    /\ lookup[l].refused => DebugIdOf(world.content) # DebugId

\* on_download_completed, on_download_failed and on_download_canceled exclude each
\* other, and one of them is called for every download by the time its lookup has
\* done with it, also if the future was dropped.
DownloadsEndOnce ==
  \A d \in DOMAIN downloads :
    /\ Len(downloads[d].ends) <= 1
    /\ downloads[d].ends = <<>> =>
         /\ lookup[downloads[d].lookup].pc \in Downloading
         /\ Open(downloads[d].lookup) = {d}

\* load_symbol_map reports an error for a Breakpad file only if it refused the file
\* for its MODULE line, or if no symbol directory has the file, and no server could
\* deliver it or the quota manager deleted it while the lookup ran: other lookups,
\* servers that fail, and .symindex files that come, go or are damaged never make it
\* fail.
FailsOnlyWithoutFile ==
  \A l \in Lookups :
    At(l, "failed") /\ is_breakpad_file(world.content) /\ ~lookup[l].refused =>
      /\ ~world.readonly
      /\ \/ l \in disturbed
         \/ ~sym /\ (world.full \/ \A s \in Servers : world.answers[s] # "delivers")

\* Every lookup ends if no server stalls, also if lookups that held a file's lock
\* were dropped.
EveryLookupEnds ==
  (\A s \in Servers : world.answers[s] # "stalls") ~>
     (\A l \in Lookups : lookup[l].pc \in Ended)
=============================================================================
