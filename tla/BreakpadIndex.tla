----------------------------- MODULE BreakpadIndex -----------------------------
(***************************************************************************)
(* The index of a Breakpad .sym file (samply-symbols/src/breakpad): it is  *)
(* made from the chunks in which the file arrives, written to a .symindex  *)
(* file and read back, and used to look up addresses in the .sym file.     *)
(*                                                                         *)
(* A file is a sequence of bytes.  A record's keyword is one byte, and so  *)
(* is each of its numbers; names are left out, because a record is known   *)
(* by its bytes.                                                           *)
(***************************************************************************)
EXTENDS Integers, SequencesExt

NL == 10
CR == 13
MODULE_ == 101
FILE == 102
INLINE_ORIGIN == 103
PUBLIC == 104
FUNC == 105
INFO == 106
STACK == 107
INLINE == 108
MaxNumber == 7  \* bound: the numbers in a record

NoId == 0  \* debug ids are positive
NoLine == <<>>
NotFound == [name |-> NoLine]

\* The bytes of a record that starts with the keyword and has n numbers.
IsRecord(line, keyword, n) == Len(line) > n /\ line[1] = keyword
IsLineRecord(line) == Len(line) > 1 /\ line[1] <= MaxNumber

\* \r at the end of a line does not belong to it.
WithoutCR(line) ==
  LET ends == {n \in 0 .. Len(line) : \A i \in n + 1 .. Len(line) : line[i] = CR}
  IN  SubSeq(line, 1, Min(ends))

\* The first bytes are those of a MODULE record, well-formed or not.
is_breakpad_file(data) == IsRecord(data, MODULE_, 0)

-----------------------------------------------------------------------------
(* LineBuffer: from chunks to lines and their offsets in the file          *)

NewLineBuffer == [leftover_bytes |-> <<>>, current_offset |-> 0]

\* A slip: where the line starts in this chunk.
LineAt_in_chunk(buffer, chunk, from, to) ==
  [offset |-> buffer.current_offset + from - 1,
   bytes |-> (IF from = 1 THEN buffer.leftover_bytes ELSE <<>>) \o SubSeq(chunk, from, to)]

\* The line in the chunk's bytes from .. to; the first one began in the
\* chunks before.
LineAt(buffer, chunk, from, to) ==
  LET leftover == IF from = 1 THEN buffer.leftover_bytes ELSE <<>>
  IN  [offset |-> buffer.current_offset + from - 1 - Len(leftover),
       bytes |-> leftover \o SubSeq(chunk, from, to)]

Breaks(chunk) == SetToSortSeq({i \in DOMAIN chunk : chunk[i] = NL}, <)

LinesOfChunk(buffer, chunk) ==
  LET breaks == Breaks(chunk)
      start(k) == IF k = 1 THEN 1 ELSE breaks[k - 1] + 1
  IN  [k \in DOMAIN breaks |-> LineAt(buffer, chunk, start(k), breaks[k] - 1)]

AfterChunk(buffer, chunk) ==
  LET breaks == Breaks(chunk)
  IN  [leftover_bytes |-> IF breaks = <<>> THEN buffer.leftover_bytes \o chunk
                          ELSE SubSeq(chunk, Last(breaks) + 1, Len(chunk)),
       current_offset |-> buffer.current_offset + Len(chunk)]

\* finish: the last line may lack its line break.
LastLine(buffer) ==
  IF buffer.leftover_bytes = <<>> THEN <<>>
  ELSE <<[offset |-> buffer.current_offset - Len(buffer.leftover_bytes),
          bytes |-> buffer.leftover_bytes]>>

\* The lines of a piece of the file, without their ends.
LinesOf(bytes) ==
  LET lines == LinesOfChunk(NewLineBuffer, bytes) \o LastLine(AfterChunk(NewLineBuffer, bytes))
  IN  [n \in DOMAIN lines |-> WithoutCR(lines[n].bytes)]

-----------------------------------------------------------------------------
(* SortedVecBuilder: FILE and INLINE_ORIGIN records, sorted by index; the  *)
(* first record with an index counts.                                      *)

NewBuilder == [items |-> <<>>, is_sorted |-> TRUE]

push(builder, item) ==
  LET first == builder.items = <<>>
      last == Last(builder.items).index
  IN  CASE ~builder.is_sorted \/ first \/ item.index > last ->
             [builder EXCEPT !.items = Append(@, item)]
        [] builder.is_sorted /\ ~first /\ item.index = last -> builder
        [] OTHER -> [items |-> Append(builder.items, item), is_sorted |-> FALSE]

\* A stable sort by the key, and then the first item of every key.
SortedAndDeduped(items, Key(_)) ==
  LET firsts == {i \in DOMAIN items : \A j \in 1 .. i - 1 : Key(items[j]) # Key(items[i])}
      order == SetToSortSeq(firsts, LAMBDA i, j : Key(items[i]) < Key(items[j]))
  IN  [n \in DOMAIN order |-> items[order[n]]]

into_sorted_vec(builder) ==
  IF builder.is_sorted THEN builder.items
  ELSE SortedAndDeduped(builder.items, LAMBDA item : item.index)

-----------------------------------------------------------------------------
(* BreakpadIndexParser                                                     *)

NoBlock == [address |-> -1, offset |-> -1]

NewParser ==
  [line_buffer |-> NewLineBuffer, module_info_bytes |-> NoLine, module_info |-> NoId,
   symbols |-> <<>>, files |-> NewBuilder, inline_origins |-> NewBuilder,
   pending_func_block |-> NoBlock]

Symbol(address, kind, offset, len) ==
  [address |-> address, kind |-> kind, offset |-> offset, len |-> len]

finish_pending_func_block(p, offset) ==
  IF p.pending_func_block = NoBlock THEN p
  ELSE [p EXCEPT !.pending_func_block = NoBlock,
                 !.symbols = Append(@, Symbol(p.pending_func_block.address, "FUNC",
                                              p.pending_func_block.offset,
                                              offset - p.pending_func_block.offset))]

\* Everything before the first well-formed MODULE line is passed over.
process_line(p, line) ==
  LET input == WithoutCR(line.bytes)
      item == [index |-> input[2], offset |-> line.offset, len |-> Len(input)]
      finished == finish_pending_func_block(p, line.offset)
      has_module == p.module_info # NoId
  IN  CASE ~has_module ->
             [p EXCEPT !.module_info = IF IsRecord(input, MODULE_, 1) THEN input[2] ELSE NoId,
                       !.module_info_bytes = input]
        [] has_module /\ IsRecord(input, FILE, 1) -> [p EXCEPT !.files = push(@, item)]
        [] has_module /\ IsRecord(input, INLINE_ORIGIN, 1) ->
             [p EXCEPT !.inline_origins = push(@, item)]
        [] has_module /\ IsRecord(input, PUBLIC, 1) ->
             [finished EXCEPT !.symbols =
                Append(@, Symbol(input[2], "PUBLIC", line.offset, Len(input)))]
        [] has_module /\ IsRecord(input, FUNC, 2) ->
             [finished EXCEPT !.pending_func_block =
                [address |-> input[2], offset |-> line.offset]]
        [] has_module /\ IsRecord(input, INFO, 0) ->
             [finished EXCEPT !.module_info_bytes = @ \o <<NL>> \o input]
        [] has_module /\ IsRecord(input, STACK, 0) -> finished
        [] OTHER -> p

consume(p, chunk) ==
  LET processed == FoldLeft(process_line, p, LinesOfChunk(p.line_buffer, chunk))
  IN  [processed EXCEPT !.line_buffer = AfterChunk(@, chunk)]

\* Without a well-formed MODULE line there is no index.
NoIndex == [debug_id |-> NoId, module_info_bytes |-> NoLine, symbols |-> <<>>, files |-> <<>>,
            inline_origins |-> <<>>]

finish(p) ==
  LET processed == FoldLeft(process_line, p, LastLine(p.line_buffer))
      ended == finish_pending_func_block(processed, p.line_buffer.current_offset)
  IN  IF ended.module_info = NoId THEN NoIndex
      ELSE [debug_id |-> ended.module_info, module_info_bytes |-> ended.module_info_bytes,
            symbols |-> SortedAndDeduped(ended.symbols, LAMBDA s : s.address),
            files |-> into_sorted_vec(ended.files),
            inline_origins |-> into_sorted_vec(ended.inline_origins)]

\* A file that is read in chunks of one size.
IndexOfFile(data, chunkSize) ==
  LET count == (Len(data) + chunkSize - 1) \div chunkSize
      chunk(k) == SubSeq(data, (k - 1) * chunkSize + 1, Min({k * chunkSize, Len(data)}))
  IN  finish(FoldLeft(consume, NewParser, [k \in 1 .. count |-> chunk(k)]))

-----------------------------------------------------------------------------
(* The .symindex file.  Every cell of this sequence is one byte of it; the *)
(* numbers of an entry are all in its first cell.                          *)

HEADER_SIZE == 48
FILE_OR_INLINE_ORIGIN_ENTRY_SIZE == 16
SYMBOL_ADDRESS_SIZE == 4
SYMBOL_ENTRY_SIZE == 16
SYMINDEX == 109  \* the magic bytes

Cells(numbers, size) == [i \in 1 .. size |-> IF i = 1 THEN numbers ELSE <<>>]
Section(items, size, Numbers(_)) ==
  FlattenSeq([i \in DOMAIN items |-> Cells(Numbers(items[i]), size)])

align_to_4_bytes(n) == ((n + 3) \div 4) * 4

serialize_to_bytes(index) ==
  LET ItemNumbers(item) == <<item.index, item.len, item.offset>>
      SymbolNumbers(s) == <<IF s.kind = "FUNC" THEN 1 ELSE 0, s.len, s.offset>>
      padded == align_to_4_bytes(Len(index.module_info_bytes))
      files == HEADER_SIZE + padded
      origins == files + Len(index.files) * FILE_OR_INLINE_ORIGIN_ENTRY_SIZE
      addresses == origins + Len(index.inline_origins) * FILE_OR_INLINE_ORIGIN_ENTRY_SIZE
      entries == addresses + Len(index.symbols) * SYMBOL_ADDRESS_SIZE
      header == <<SYMINDEX, HEADER_SIZE, Len(index.module_info_bytes), Len(index.files), files,
                  Len(index.inline_origins), origins, Len(index.symbols), addresses, entries>>
  IN  Cells(header, HEADER_SIZE)
      \o [i \in 1 .. padded |-> IF i <= Len(index.module_info_bytes)
                                THEN <<index.module_info_bytes[i]>> ELSE <<0>>]
      \o Section(index.files, FILE_OR_INLINE_ORIGIN_ENTRY_SIZE, ItemNumbers)
      \o Section(index.inline_origins, FILE_OR_INLINE_ORIGIN_ENTRY_SIZE, ItemNumbers)
      \o Section(index.symbols, SYMBOL_ADDRESS_SIZE, LAMBDA s : <<s.address>>)
      \o Section(index.symbols, SYMBOL_ENTRY_SIZE, SymbolNumbers)

\* A file that is too small, does not start with the magic bytes, has no MODULE
\* line, or lacks a part that its header names is no index.  Where an offset and
\* a length overflow, their sum is past the end of the file, too.
parse_symindex_file(cells) ==
  LET header == cells[1]
      Within(offset, count, size) == offset + count * size <= Len(cells)
      module_info_bytes == [i \in 1 .. header[3] |-> cells[header[2] + i][1]]
      modules == SelectSeq(LinesOf(module_info_bytes), LAMBDA line : IsRecord(line, MODULE_, 1))
      usable ==
        /\ Len(cells) >= HEADER_SIZE /\ header[1] = SYMINDEX
        /\ Within(header[2], header[3], 1) /\ modules # <<>>
        /\ Within(header[5], header[4], FILE_OR_INLINE_ORIGIN_ENTRY_SIZE)
        /\ Within(header[7], header[6], FILE_OR_INLINE_ORIGIN_ENTRY_SIZE)
        /\ Within(header[9], header[8], SYMBOL_ADDRESS_SIZE)
        /\ Within(header[10], header[8], SYMBOL_ENTRY_SIZE)
      Entry(offset, i, size) == cells[offset + (i - 1) * size + 1]
      Items(count, offset) ==
        [i \in 1 .. count |->
           LET entry == Entry(offset, i, FILE_OR_INLINE_ORIGIN_ENTRY_SIZE)
           IN  [index |-> entry[1], offset |-> entry[3], len |-> entry[2]]]
      SymbolAt(i) ==
        LET address == Entry(header[9], i, SYMBOL_ADDRESS_SIZE)
            entry == Entry(header[10], i, SYMBOL_ENTRY_SIZE)
        IN  Symbol(address[1], IF entry[1] = 0 THEN "PUBLIC" ELSE "FUNC", entry[3], entry[2])
  IN  IF ~usable THEN NoIndex
      ELSE [debug_id |-> Last(modules)[2],
            module_info_bytes |-> module_info_bytes,
            files |-> Items(header[4], header[5]),
            inline_origins |-> Items(header[6], header[7]),
            symbols |-> [i \in 1 .. header[8] |-> SymbolAt(i)]]

-----------------------------------------------------------------------------
(* BreakpadSymbolMap: looking up an address                                *)

read_bytes_at(data, offset, len) ==
  IF offset + len <= Len(data) THEN SubSeq(data, offset + 1, offset + len) ELSE NoLine

\* The FILE or INLINE_ORIGIN record with this index.
get_str(items, data, keyword, index) ==
  LET found == {i \in DOMAIN items : items[i].index = index}
      item == items[Min(found)]
      line == read_bytes_at(data, item.offset, item.len)
  IN  IF found # {} /\ IsRecord(line, keyword, 1) THEN line ELSE NoLine

\* The line record that covers the address.  Line records are in the order
\* of their addresses.
get_innermost_sourceloc(lines, address) ==
  LET records == {n \in DOMAIN lines : IsLineRecord(lines[n]) /\ lines[n][1] <= address}
  IN  IF records = {} THEN NoLine ELSE lines[Max(records)]

\* An INLINE record has the depth, the file of the call, the origin, and then one
\* or more ranges of an address and a size (at n - 1 and n).
Ranges(line) == {4 + 2 * k : k \in 1 .. (Len(line) - 4) \div 2}
inline_line(line) ==
  {[depth |-> line[2], call_file |-> line[3], origin_id |-> line[4],
    address |-> line[n - 1], size |-> line[n]] : n \in Ranges(line)}

IsInline(line) == IsRecord(line, INLINE, 0)
get_inlinees(lines) == UNION {inline_line(line) : line \in {l \in ToSet(lines) : IsInline(l)}}

\* The inlinee whose range covers the address at this depth, if there is one:
\* the last one that does not begin after the address.  The ranges of one depth
\* do not overlap.
get_inlinee_at_depth(inlinees, depth, address) ==
  LET begun == {i \in inlinees : i.depth = depth /\ i.address <= address}
  IN  {i \in begun : (\A j \in begun : j.address <= i.address) /\ address < i.address + i.size}

\* From the outermost function to the innermost one.
Frames(index, data, lines, address) ==
  LET inlinees == get_inlinees(Tail(lines))
      Covering(depth) == get_inlinee_at_depth(inlinees, depth, address)
      inlinee(depth) == CHOOSE i \in Covering(depth) : TRUE
      innermost == Min({depth \in 0 .. Cardinality(inlinees) : Covering(depth) = {}})
      sourceloc == get_innermost_sourceloc(Tail(lines), address)
  IN  [n \in 1 .. innermost + 1 |->
         [function |-> IF n = 1 THEN lines[1]
                       ELSE get_str(index.inline_origins, data, INLINE_ORIGIN,
                                    inlinee(n - 2).origin_id),
          file |-> IF n <= innermost
                   THEN get_str(index.files, data, FILE, inlinee(n - 1).call_file)
                   ELSE IF sourceloc = NoLine THEN NoLine
                   ELSE get_str(index.files, data, FILE, sourceloc[2])]]

\* BreakpadFuncSymbol::parse gives up a block with an INLINE line without a range.
ParsesAsFunc(lines) ==
  /\ lines # <<>> /\ IsRecord(lines[1], FUNC, 2)
  /\ \A n \in 2 .. Len(lines) : IsInline(lines[n]) => Ranges(lines[n]) # {}

\* What symbols.get_public_info and get_func_info read where the index points.
lookup_sync(index, data, address) ==
  LET below == {i \in DOMAIN index.symbols : index.symbols[i].address <= address}
      symbol == index.symbols[Max(below)]
      next == Max(below) + 1
      block == read_bytes_at(data, symbol.offset, symbol.len)
      lines == LinesOf(block)
  IN  CASE below = {} -> NotFound
        [] below # {} /\ symbol.kind = "PUBLIC" /\ IsRecord(block, PUBLIC, 1) ->
             [name |-> block, address |-> symbol.address, frames |-> <<>>,
              size |-> IF next \in DOMAIN index.symbols
                       THEN index.symbols[next].address - symbol.address ELSE 0]
        [] below # {} /\ symbol.kind = "FUNC" /\ ParsesAsFunc(lines)
             /\ address < symbol.address + lines[1][3] ->
             [name |-> lines[1], address |-> symbol.address, size |-> lines[1][3],
              frames |-> Frames(index, data, lines, address)]
        [] OTHER -> NotFound

-----------------------------------------------------------------------------
(* What a lookup should find, said of the whole file at once: no chunks,   *)
(* no index, no offsets.  A line is known by the position where it starts. *)

LineStarts(data) == {1} \cup {i + 1 : i \in {j \in DOMAIN data \ {Len(data)} : data[j] = NL}}
LineFrom(data, start) ==
  LET ends == {i \in start .. Len(data) : data[i] = NL} \cup {Len(data) + 1}
  IN  WithoutCR(SubSeq(data, start, Min(ends) - 1))

\* Where the first well-formed MODULE line starts, or the end of the file.
ModuleStart(data) ==
  Min({s \in LineStarts(data) : IsRecord(LineFrom(data, s), MODULE_, 1)} \cup {Len(data) + 1})

DebugIdOf(data) ==
  IF ModuleStart(data) > Len(data) THEN NoId ELSE LineFrom(data, ModuleStart(data))[2]

SymbolFor(data, address) ==
  LET line == [s \in LineStarts(data) |-> LineFrom(data, s)]
      Records(keyword, n) ==
        {s \in DOMAIN line : s > ModuleStart(data) /\ IsRecord(line[s], keyword, n)}
      symbols == Records(PUBLIC, 1) \cup Records(FUNC, 2)
      below == {s \in symbols : line[s][2] <= address}
      symbol == Min({s \in below : \A t \in below : line[t][2] <= line[s][2]})
      above == {line[s][2] : s \in symbols} \cap address + 1 .. MaxNumber
      ends == symbols \cup Records(INFO, 0) \cup Records(STACK, 0)
      block == {s \in DOMAIN line : s > symbol /\ \A e \in ends : e > symbol => s < e}
      covering == {s \in block : IsLineRecord(line[s]) /\ line[s][1] <= address}
      Inlined(depth) == {s \in block \cap Records(INLINE, 5) : line[s][2] = depth /\
        \E n \in Ranges(line[s]) : line[s][n - 1] <= address /\ address < line[s][n - 1] + line[s][n]}
      malformed == block \cap (Records(INLINE, 0) \ Records(INLINE, 5))
      depths == Min({depth \in 0 .. MaxNumber : Inlined(depth) = {}})
      Named(keyword, index) ==
        LET named == {s \in Records(keyword, 1) : line[s][2] = index}
        IN  IF named = {} THEN NoLine ELSE line[Min(named)]
  IN  CASE below = {} -> NotFound
        [] below # {} /\ line[symbol][1] = PUBLIC ->
             [name |-> line[symbol], address |-> line[symbol][2], frames |-> <<>>,
              size |-> IF above = {} THEN 0 ELSE Min(above) - line[symbol][2]]
        [] below # {} /\ line[symbol][1] = FUNC /\ malformed = {}
             /\ address < line[symbol][2] + line[symbol][3] ->
             [name |-> line[symbol], address |-> line[symbol][2], size |-> line[symbol][3],
              frames |-> [n \in 1 .. depths + 1 |->
                [function |-> IF n = 1 THEN line[symbol]
                              ELSE Named(INLINE_ORIGIN, line[Min(Inlined(n - 2))][4]),
                 file |-> IF n <= depths THEN Named(FILE, line[Min(Inlined(n - 1))][3])
                          ELSE IF covering = {} THEN NoLine
                          ELSE Named(FILE, line[Max(covering)][2])]]]
        [] OTHER -> NotFound
=============================================================================
