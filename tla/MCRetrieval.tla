---------------------------- MODULE MCRetrieval ----------------------------
(* Retrieval with a cache of one entry and chunks of up to two bytes, and  *)
(* texts to split: every one of up to seven bytes with letters of one byte *)
(* each, and every one of up to four letters of one, two or four bytes.    *)
EXTENDS Retrieval, TLC

CONSTANTS r1, r2, w

Symmetry == Permutations({r1, r2})

Base == [use |-> "system", size |-> 2, overlap |-> 0, cached |-> TRUE, persistent |-> FALSE,
         strategy |-> "LRU", provider |-> "OpenAI", store |-> "memory"]

Systems ==
  {[Base EXCEPT !.strategy = s] : s \in {"FIFO", "LFU"}}
  \cup {[Base EXCEPT !.cached = FALSE], [Base EXCEPT !.provider = "Simple"],
        [Base EXCEPT !.persistent = TRUE]}
  \cup {[Base EXCEPT !.store = "file", !.provider = "Other"]}

(* The overlap may be as large as the chunk, or larger.                    *)
Splitters ==
  {[Base EXCEPT !.use = "splitter", !.size = s, !.overlap = o] : s \in 2 .. 4, o \in 0 .. 4}
  \cup {[Base EXCEPT !.use = "splitter", !.size = 8, !.overlap = o] : o \in {0, 1, 2, 9}}

MCSetups == Systems \cup {s \in Splitters : s.size = 8 \/ s.overlap <= s.size}

(* One chunk; a blank one and another; a document without chunks, which is *)
(* all line feeds, before another; and one before a letter that is larger  *)
(* than a chunk.                                                           *)
MCContents == { << <<4>> >>, << <<Space, Space, Newline, Newline, 8>> >>,
                << <<Newline, Newline, Newline, Newline>>, <<8>> >>,
                << <<4>>, <<8, 9, 10>> >> }
MCQueries == { <<4>> }

(* The n-th item of a shape: a line feed (-1), a space (0), or a letter of *)
(* so many bytes.                                                          *)
Item(n, bytes) == IF bytes <= 0 THEN <<bytes + 1>>
                  ELSE [i \in 1 .. bytes |-> 4 * n + i - 1]

Shaped(shape) == FlattenSeq([n \in DOMAIN shape |-> Item(n, shape[n])])

Shapes(length, items) == UNION {[1 .. n -> items] : n \in 1 .. length}

(* The last one has a letter of four bytes where an overlap would begin.   *)
MCSamples ==
  {Shaped(shape) : shape \in Shapes(7, {-1, 0, 1}) \cup Shapes(4, {-1, 0, 1, 2, 4})
     \cup {<<1, 1, 1, 1, 4, -1, -1, 1, 1, 1, 1, 1, 1, 1, 1>>}}
=============================================================================
