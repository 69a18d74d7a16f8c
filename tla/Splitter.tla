------------------------------ MODULE Splitter ------------------------------
(***************************************************************************)
(* How TextSplitter (rag/splitter.rs) cuts a text into chunks: at the      *)
(* coarsest separator that makes the pieces small enough, joining pieces   *)
(* up to the chunk size, each chunk beginning with the end of the one      *)
(* before it; a piece without separators is cut by its length.             *)
(*                                                                         *)
(* A text is a sequence of bytes, as its len counts them: line feeds (0),  *)
(* spaces (1) and letters of one to four bytes.  The bytes of a letter are *)
(* 4 n, 4 n + 1 and so on, for an n of its own.                            *)
(***************************************************************************)
EXTENDS Integers, Lists

Newline == 0
Space   == 1
Text    == Seq(Nat)

(* A byte of a letter that is not its first. *)
Inner(byte) == byte > Space /\ byte % 4 # 0

(* No letter lacks a byte before another of its bytes, as in every str.    *)
WellFormed(text) ==
  \A k \in DOMAIN text :
    Inner(text[k]) => k > 1 /\ text[k - 1] > Space /\ text[k - 1] = text[k] - 1

IsCharBoundary(text, p) == p \in {0, Len(text)} \/ ~Inner(text[p + 1])

(* From p back to where a letter begins, but not past the floor.           *)
ToBoundary(text, floor, p) ==
  Max({q \in floor .. p : q = floor \/ IsCharBoundary(text, q)})

(* What trim removes all of. *)
IsBlank(text) == ToSet(text) \subseteq {Newline, Space}

(* The separator stands at place k, and does not begin within the one      *)
(* before it.                                                              *)
StandsAt(separator, text, acc, k) ==
  LET last == k + Len(separator) - 1
  IN acc.from <= k /\ last <= Len(text) /\ SubSeq(text, k, last) = separator

Separate(separator, text, acc, k) ==
  IF StandsAt(separator, text, acc, k)
  THEN [from   |-> k + Len(separator),
        pieces |-> Append(acc.pieces, SubSeq(text, acc.from, k - 1))]
  ELSE acc

(* The pieces of a text between the occurrences of a separator, from left  *)
(* to right.                                                               *)
Pieces(text, separator) ==
  LET acc[k \in 0 .. Len(text)] ==
        IF k = 0 THEN [from |-> 1, pieces |-> <<>>]
        ELSE Separate(separator, text, acc[k - 1], k)
      end == acc[Len(text)]
  IN Append(end.pieces, SubSeq(text, end.from, Len(text)))

(* A variant with a bug, to test ChunksFit: the whole chunk is repeated.   *)
OverlapAll(chunk, overlap) == IF overlap > 0 THEN chunk ELSE <<>>

(* The last overlap bytes of a chunk that is longer than that, and those   *)
(* of the letter they begin in.                                            *)
Overlap(chunk, overlap) ==
  IF overlap > 0 /\ Len(chunk) > overlap
  THEN SubSeq(chunk, ToBoundary(chunk, 0, Len(chunk) - overlap) + 1, Len(chunk)) ELSE <<>>

Joined(current, separator, piece) ==
  IF current = <<>> THEN piece ELSE current \o separator \o piece

NonEmpty(chunk) == IF chunk = <<>> THEN <<>> ELSE <<chunk>>

(* A variant with a bug, to test NothingLost: off by one after a cut.      *)
CutSkipping(size, overlap, text, acc) ==
  LET end == ToBoundary(text, acc.start, Min({acc.start + size, Len(text)}))
  IN IF acc.start >= Len(text) THEN acc
     ELSE [start  |-> IF end < Len(text) THEN end + 1 ELSE end,
           chunks |-> Append(acc.chunks, SubSeq(text, acc.start + 1, end))]

(* One turn of split_by_length: a chunk from start on, and where the next  *)
(* begins, unless the text is used up.                                     *)
Cut(size, overlap, text, acc) ==
  LET end == ToBoundary(text, acc.start, Min({acc.start + size, Len(text)}))
  IN IF acc.start >= Len(text) THEN acc
     ELSE [start  |-> IF overlap > 0 /\ end < Len(text)
                      THEN ToBoundary(text, acc.start, Max({acc.start, end - overlap}))
                      ELSE end,
           chunks |-> Append(acc.chunks, SubSeq(text, acc.start + 1, end))]

(* As many turns as the text has bytes.                                    *)
Turns(size, overlap, text) ==
  LET acc[k \in 0 .. Len(text)] ==
        IF k = 0 THEN [start |-> 0, chunks |-> <<>>]
        ELSE Cut(size, overlap, text, acc[k - 1])
  IN acc[Len(text)]

(* A turn never goes back, and one that does not get on is repeated for    *)
(* ever: split_by_length ends when these turns have used the text up.      *)
LengthEnds(size, overlap, text)    == Turns(size, overlap, text).start >= Len(text)
SplitByLength(size, overlap, text) == Turns(size, overlap, text).chunks

(* One piece joins the chunk before it, or ends it.  A piece that is too   *)
(* large is there as the chunks cut of it by the finer separators; the     *)
(* tail of the chunk before it waits for the piece after it.               *)
Collect(size, overlap, separator, acc, piece, cut) ==
  LET kept == acc.chunks \o NonEmpty(acc.current)
      tail == Overlap(acc.current, overlap)
      more == Joined(acc.current, separator, piece)
  IN CASE Len(more) <= size -> [acc EXCEPT !.current = more]
       [] Len(more) > size /\ Len(piece) > size -> [chunks |-> kept \o cut, current |-> tail]
       [] OTHER -> [chunks |-> kept, current |-> Joined(tail, separator, piece)]

(* recursive_split at one separator, given for each piece its finer cut.   *)
Gather(size, overlap, separator, pieces, cuts) ==
  LET acc[k \in 0 .. Len(pieces)] ==
        IF k = 0 THEN [chunks |-> <<>>, current |-> <<>>]
        ELSE Collect(size, overlap, separator, acc[k - 1], pieces[k], cuts[k])
      end == acc[Len(pieces)]
  IN end.chunks \o NonEmpty(end.current)

(* The separators of new, from the finest to the coarsest.                 *)
Words(size, overlap, text) ==
  LET pieces == Pieces(text, <<Space>>)
  IN Gather(size, overlap, <<Space>>, pieces,
            [i \in DOMAIN pieces |-> SplitByLength(size, overlap, pieces[i])])

Lines(size, overlap, text) ==
  LET pieces == Pieces(text, <<Newline>>)
  IN Gather(size, overlap, <<Newline>>, pieces,
            [i \in DOMAIN pieces |-> Words(size, overlap, pieces[i])])

Paragraphs(size, overlap, text) ==
  LET pieces == Pieces(text, <<Newline, Newline>>)
  IN Gather(size, overlap, <<Newline, Newline>>, pieces,
            [i \in DOMAIN pieces |-> Lines(size, overlap, pieces[i])])

SplitText(size, overlap, text) ==
  IF Len(text) <= size THEN <<text>> ELSE Paragraphs(size, overlap, text)

(* Whether split_text ends: each word it has to cut by its length does.    *)
(* What such a word is a piece of is as large, and so is split as well.    *)
SplitEnds(size, overlap, text) ==
  \A paragraph \in ToSet(Pieces(text, <<Newline, Newline>>)) :
    \A line \in ToSet(Pieces(paragraph, <<Newline>>)) :
      \A word \in ToSet(Pieces(line, <<Space>>)) :
        Len(word) > size => LengthEnds(size, overlap, word)
=============================================================================
