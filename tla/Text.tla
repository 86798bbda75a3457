-------------------------------- MODULE Text ---------------------------------
(****************************************************************************)
(* gucc::utils of string_utils: how texts are cut into lists and lists are  *)
(* put together as texts.  A text is a sequence of symbols, each a word or  *)
(* a delimiter; a word read from a text is what its symbols spell.          *)
(****************************************************************************)
EXTENDS Naturals, Sequences, FiniteSets, SequencesExt

\* std::ranges::views::split: every piece between delimiters, empty ones included; an
\* empty text has no piece.
views_split(str, delim) ==
    LET upto[n \in 0..Len(str)] ==     \* the pieces of the first n symbols
            IF n = 0 THEN <<<<>>>>
            ELSE LET pieces == upto[n - 1]
                 IN  IF str[n] = delim THEN Append(pieces, <<>>)
                     ELSE [pieces EXCEPT ![Len(pieces)] = Append(@, str[n])]
    IN  IF str = <<>> THEN <<>> ELSE upto[Len(str)]

\* What the symbols of a piece spell.
Word(piece) ==
    LET upto[n \in 0..Len(piece)] ==
            IF n = 0 THEN "" ELSE IF n = 1 THEN piece[1] ELSE upto[n - 1] \o piece[n]
    IN  upto[Len(piece)]

\* The pieces that are not empty.
make_split_view(str, delim) ==
    LET pieces == views_split(str, delim)
        upto[n \in 0..Len(pieces)] ==
            IF n = 0 THEN <<>>
            ELSE IF pieces[n] = <<>> THEN upto[n - 1] ELSE Append(upto[n - 1], pieces[n])
    IN  upto[Len(pieces)]

make_multiline(str, reverse, delim) ==
    LET lines == make_split_view(str, delim)
        words == [i \in DOMAIN lines |-> Word(lines[i])]
    IN  IF reverse THEN Reverse(words) ELSE words

\* The other make_multiline, from lines to a text: a delimiter behind each of them, and
\* the whole text reversed, its words included.
make_multiline_text(multiline, reverse, delim) ==
    LET res == FoldLeft(LAMBDA text, line : text \o <<line, delim>>, <<>>, multiline)
    IN  IF reverse THEN Reverse(res) ELSE res

\* The lines with a delimiter between them, none behind the last.
join(lines, delim) ==
    IF lines = <<>> THEN <<>>
    ELSE [i \in 1..(2 * Len(lines) - 1) |-> IF i % 2 = 1 THEN lines[(i + 1) \div 2] ELSE delim]
==============================================================================
