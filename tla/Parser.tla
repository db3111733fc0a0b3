---------------------------------- MODULE Parser ----------------------------------
(***************************************************************************)
(* cli/parser.c.  A line is a sequence of symbols: a space, a quotation    *)
(* mark, or anything else, of which a command's name counts as one symbol. *)
(***************************************************************************)
EXTENDS Naturals, Sequences, SequencesExt

Space == " "
Quote == "\""

\* parser_tokenize.  `start` is arg_start, 0 for NULL; a quotation mark begins
\* an argument also in the middle of another one, which is lost.
Tokenize(line, max_args) ==
  LET after[i \in 0..Len(line)] ==
        IF i = 0 THEN [argv |-> <<>>, in_quotes |-> FALSE, start |-> 0]
        ELSE LET a == after[i - 1]
                 Complete == [argv |-> Append(a.argv, SubSeq(line, a.start, i - 1)),
                              in_quotes |-> FALSE, start |-> 0]
             IN IF Len(a.argv) >= max_args THEN a
                ELSE IF line[i] = Quote
                THEN IF a.in_quotes THEN Complete
                     ELSE [argv |-> a.argv, in_quotes |-> TRUE, start |-> i + 1]
                ELSE IF line[i] = Space /\ ~a.in_quotes /\ a.start > 0 THEN Complete
                ELSE IF line[i] # Space /\ a.start = 0
                THEN [argv |-> a.argv, in_quotes |-> a.in_quotes, start |-> i]
                ELSE a
      end == after[Len(line)]
  IN IF end.start > 0 /\ Len(end.argv) < max_args
     THEN Append(end.argv, SubSeq(line, end.start, Len(line)))
     ELSE end.argv

-----------------------------------------------------------------------------
\* How a word is typed: in quotation marks when it has to be, or when the user
\* likes to.
Typed(word, quoted) ==
  IF quoted \/ word = <<>> \/ Contains(word, Space)
  THEN <<Quote>> \o word \o <<Quote>> ELSE word

\* A line with the words, and n spaces between two of them.
LineOf(words, quoted, n) ==
  LET gap == [i \in 1..n |-> Space]
      upto[i \in 0..Len(words)] ==
        IF i = 0 THEN <<>>
        ELSE upto[i - 1] \o (IF i = 1 THEN <<>> ELSE gap) \o Typed(words[i], quoted)
  IN upto[Len(words)]

\* The command line that main makes of its arguments.
JoinArguments(words) ==
  LET upto[i \in 0..Len(words)] ==
        IF i = 0 THEN <<>>
        ELSE upto[i - 1] \o (IF i = 1 THEN <<>> ELSE <<Space>>) \o words[i]
  IN upto[Len(words)]
===============================================================================
