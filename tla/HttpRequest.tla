----------------------------- MODULE HttpRequest -----------------------------
(***************************************************************************)
(* How the HTTP server reads a request (application/ibexukIP/eth-http.c,   *)
(* http_process_rx and http_process_inputs): byte after byte, with the     *)
(* bytes before it in a rolling buffer, into a file name, an extension and *)
(* the inputs handed to the application.  The second half says, without    *)
(* the loops, what a request means.                                        *)
(***************************************************************************)
EXTENDS Integers, SequencesExt

CONSTANTS
  NameLength,      \* HTTP_MAX_FILENAME_LENGTH
  ExtLength,       \* HTTP_MAX_FILEEXT_LENGTH
  InputLength      \* HTTP_MAX_INPUT_NAME_LENGTH, HTTP_MAX_INPUT_VALUE_LENGTH

ASSUME HttpRequestAssumption ==
  NameLength \in Nat /\ NameLength > 5 /\ ExtLength \in Nat /\ ExtLength > 2
  /\ InputLength \in Nat \ {0}

Byte == 0..255
Char == [null |-> 0, space |-> 32, percent |-> 37, and |-> 38, plus |-> 43, dot |-> 46,
         slash |-> 47, zero |-> 48, nine |-> 57, equals |-> 61, question |-> 63,
         A |-> 65, Z |-> 90]

GET  == <<71, 69, 84>>
HEAD == <<72, 69, 65, 68>>
IndexHtm == <<<<105, 110, 100, 101, 120>>, <<104, 116, 109>>>>   \* "index", "htm"

-----------------------------------------------------------------------------
(* Helpers of the reader.                                                  *)

convert_character_to_upper_case(c) == IF c \in 97..122 THEN c - 32 ELSE c
LowerCase(s) == [i \in DOMAIN s |-> IF s[i] \in Char.A..Char.Z THEN s[i] + 32 ELSE s[i]]

\* a digit as it is in the low four bits, and what is left above them
HexDigit(c) ==
  LET u == convert_character_to_upper_case(c)
  IN (IF u > Char.nine THEN u - (Char.A - 10) ELSE u - Char.zero) % 256

\* the low digit is or-ed into the byte: one that is no digit reaches its high bits
convert_ascii_hex_to_byte(high, low) ==
  LET Or[a \in 0..15, b \in 0..15] ==
        IF a = 0 THEN b
        ELSE 2 * Or[a \div 2, b \div 2] + (IF a % 2 = 1 \/ b % 2 = 1 THEN 1 ELSE 0)
  IN 16 * Or[HexDigit(high) % 16, HexDigit(low) \div 16] + (HexDigit(low) % 16)

FirstOf(s, n) == SubSeq(s, 1, Min({n, Len(s)}))

\* a buffer that holds so many bytes ignores the ones that follow
Put(buffer, c, size) == IF Len(buffer) < size THEN Append(buffer, c) ELSE buffer

\* a terminating null takes the last place of a full buffer; the string ends at its first null
CString(buffer, size) ==
  LET s == FirstOf(buffer, size - 1)
      nulls == {i \in DOMAIN s : s[i] = Char.null}
  IN IF nulls = {} THEN s ELSE SubSeq(s, 1, Min(nulls) - 1)

\* data_buffer[k] when text[i] is in data_buffer[0]: empty at first
Buffered(text, i, k) == IF i > k THEN text[i - k] ELSE Char.null

\* a byte that belongs to the escape of a character, or completes it
Swallowed(text, i) == text[i] = Char.percent \/ Buffered(text, i, 1) = Char.percent
Escaped(text, i)   == ~Swallowed(text, i) /\ Buffered(text, i, 2) = Char.percent
Plain(text, i, c)  == ~Swallowed(text, i) /\ ~Escaped(text, i) /\ text[i] = c
Character(text, i) == IF Escaped(text, i) THEN convert_ascii_hex_to_byte(text[i - 1], text[i])
                      ELSE text[i]

-----------------------------------------------------------------------------
(* http_process_rx.                                                        *)

\* where the word has been read
WordEnds(text, word) ==
  {i \in Len(word)..Len(text) : SubSeq(text, i - Len(word) + 1, i) = word}

\* what follows the first GET or HEAD of the packet, and the spaces behind it
AfterType(text) ==
  LET from == Min(WordEnds(text, GET) \cup WordEnds(text, HEAD)) + 1
      path == {i \in from..Len(text) : text[i] # Char.space}
  IN IF path = {} THEN <<>> ELSE SubSeq(text, Min(path), Len(text))

AddCharacter(s, c) ==
  CASE s.waiting -> s
    [] ~s.waiting /\ s.reading  -> [s EXCEPT !.name = Put(@, c, NameLength)]
    [] ~s.waiting /\ ~s.reading -> [s EXCEPT !.ext = Put(@, c, ExtLength)]

NewName == [name |-> <<>>, ext |-> <<>>, reading |-> TRUE, waiting |-> FALSE]

\* mutant: a slash inside the name starts it again, too
ReadPathByte_Restarts(s, text, i) ==
  CASE Swallowed(text, i) -> s
    [] Plain(text, i, Char.slash) -> NewName
    [] Plain(text, i, Char.dot) /\ s.reading  -> [s EXCEPT !.reading = FALSE, !.ext = <<>>]
    [] Plain(text, i, Char.dot) /\ ~s.reading -> [s EXCEPT !.waiting = TRUE]
    [] OTHER -> AddCharacter(s, Character(text, i))

\* a byte of the path: a domain name may come first, so a second dot waits for a slash, and
\* a slash that was waited for, or is in the extension, starts the name
ReadPathByte(s, text, i) ==
  CASE Swallowed(text, i) -> s
    [] Plain(text, i, Char.slash) /\ (s.waiting \/ ~s.reading) -> NewName
    [] Plain(text, i, Char.dot) /\ s.reading  -> [s EXCEPT !.reading = FALSE, !.ext = <<>>]
    [] Plain(text, i, Char.dot) /\ ~s.reading -> [s EXCEPT !.waiting = TRUE]
    [] OTHER -> AddCharacter(s, Character(text, i))

\* the first length bytes of the path
ReadPath(path, length) ==
  LET read[n \in 0..length] == IF n = 0 THEN [NewName EXCEPT !.waiting = TRUE]
                               ELSE ReadPathByte(read[n - 1], path, n)
  IN read[length]

AddInput(s, c) ==
  IF s.reading THEN [s EXCEPT !.name = Put(@, c, InputLength)]
  ELSE [s EXCEPT !.value = Put(@, c, InputLength)]

NextInput(s) ==
  [s EXCEPT !.name = <<>>, !.value = <<>>, !.reading = TRUE,
     !.calls = IF s.name = <<>> THEN @
               ELSE Append(@, <<CString(s.name, InputLength), CString(s.value, InputLength)>>)]

\* a byte of the inputs; error: the value has a second '='
ReadInputByte(s, text, i) ==
  CASE text[i] = Char.space -> [NextInput(s) EXCEPT !.done = TRUE]
    [] text[i] = Char.and   -> NextInput(s)
    [] text[i] \notin {Char.space, Char.and} /\ Swallowed(text, i) -> s
    [] Plain(text, i, Char.equals) -> [s EXCEPT !.reading = FALSE, !.value = <<>>,
                                                !.error = ~s.reading]
    [] Plain(text, i, Char.plus) -> AddInput(s, Char.space)
    [] OTHER -> AddInput(s, Character(text, i))

http_process_inputs(text) ==
  LET read[n \in 0..Len(text)] ==
        IF n = 0 THEN [name |-> <<>>, value |-> <<>>, reading |-> TRUE, calls |-> <<>>,
                       done |-> FALSE, error |-> FALSE]
        ELSE IF read[n - 1].done \/ read[n - 1].error THEN read[n - 1]
        ELSE ReadInputByte(read[n - 1], text, n)
  IN read[Len(text)]

Wanted(type, path, inputs) == [type |-> type, path |-> path, inputs |-> inputs]
Bad == Wanted("BAD", <<>>, <<>>)

\* where a path ends
Delimiters(text) == {i \in DOMAIN text : text[i] \in {Char.space, Char.question}}

\* the file whose name has been read, or "none"
FileRead(r) ==
  IF r.waiting THEN "none"
  ELSE IF r.name # <<>>
  THEN <<LowerCase(CString(r.name, NameLength)), LowerCase(CString(r.ext, ExtLength + 1))>>
  ELSE IF r.ext = <<>> THEN IndexHtm ELSE "none"

\* the path ends at this place; only a GET has inputs
ReadUpTo(type, path, end, file) ==
  LET given == http_process_inputs(SubSeq(path, end + 1, Len(path)))
  IN IF file = "none" THEN Bad
     ELSE IF path[end] = Char.space \/ type # "GET" THEN Wanted(type, file, <<>>)
     ELSE Wanted(IF given.done THEN type ELSE "BAD", file, given.calls)

ReadAfterType(type, path) ==
  LET end == Min(Delimiters(path))
  IN IF Delimiters(path) = {} THEN Bad
     ELSE ReadUpTo(type, path, end, FileRead(ReadPath(path, end - 1)))

\* type: "UNKNOWN" is answered with 501, "BAD" with 400; inputs: what the application is given
ReadRequest(text) ==
  LET words == WordEnds(text, GET) \cup WordEnds(text, HEAD)
  IN IF words = {} THEN Wanted("UNKNOWN", <<>>, <<>>)
     ELSE ReadAfterType(IF Min(words) \in WordEnds(text, GET) THEN "GET" ELSE "HEAD", AfterType(text))

-----------------------------------------------------------------------------
(* What a request means.                                                   *)

\* the characters from one place to another, escapes resolved
CharacterAt(text, i) == IF Swallowed(text, i) THEN <<>> ELSE <<Character(text, i)>>
Characters(text, from, to) ==
  FlattenSeq([k \in 1..(to - from + 1) |-> CharacterAt(text, from + k - 1)])

Places(text, c) == {i \in DOMAIN text : Plain(text, i, c)}
Within(S, from, to) == S \cap (from..to)

\* a name starts at the first slash, and at a slash with a dot between it and the slash before
NameStarts(path) ==
  {i \in Places(path, Char.slash) :
     \A j \in Within(Places(path, Char.slash), 1, i - 1) :
       Within(Places(path, Char.dot), j, i) # {}
       \/ Within(Places(path, Char.slash), j + 1, i - 1) # {}}

\* <<name, extension>>, or "none", of a path that ends at last: after its start a name
\* has at most one dot
PathMeans(path, last) ==
  LET starts == Within(NameStarts(path), 1, last)
      start  == Max(starts)
      dots   == Within(Places(path, Char.dot), start, last)
      dot    == IF dots = {} THEN last + 1 ELSE Min(dots)
      name   == FirstOf(Characters(path, start + 1, dot - 1), NameLength)
      ext    == FirstOf(Characters(path, dot + 1, last), ExtLength)
  IN IF starts = {} \/ Within(dots, dot + 1, last) # {} THEN "none"
     ELSE IF name = <<>> /\ ext = <<>> THEN IndexHtm
     ELSE IF name = <<>> THEN "none"
     ELSE <<LowerCase(CString(name, NameLength)), LowerCase(CString(ext, ExtLength + 1))>>

\* the input before place i: it follows an '&', and its value the first '='; in either a
\* plain '+' is a space
InputStart(text, i) == Max({0} \cup {k \in 1..(i - 1) : text[k] = Char.and}) + 1
EqualsIn(text, i)   == Within(Places(text, Char.equals), InputStart(text, i), i - 1)
Middle(text, i)     == IF EqualsIn(text, i) = {} THEN i ELSE Min(EqualsIn(text, i))
Spaced(text)        == [i \in DOMAIN text |-> IF Plain(text, i, Char.plus) THEN Char.space ELSE text[i]]
InputPart(text, from, to) == FirstOf(Characters(Spaced(text), from, to), InputLength)
InputName(text, i)  == InputPart(text, InputStart(text, i), Middle(text, i) - 1)
InputValue(text, i) == InputPart(text, Middle(text, i) + 1, i - 1)
InputBefore(text, i) ==
  IF text[i] \in {Char.space, Char.and} /\ InputName(text, i) # <<>>
  THEN <<<<CString(InputName(text, i), InputLength), CString(InputValue(text, i), InputLength)>>>>
  ELSE <<>>

\* the inputs end at the first space; nothing is read after an input's second '='
Spaces(text) == {i \in DOMAIN text : text[i] = Char.space}
Wrong(text)  == {i \in Places(text, Char.equals) : EqualsIn(text, i) # {}}
InputsMean(text) ==
  LET stops == Spaces(text) \cup Wrong(text)
      last  == IF stops = {} THEN Len(text) ELSE Min(stops)
  IN [ok |-> last \in Spaces(text), calls |-> FlattenSeq([i \in 1..last |-> InputBefore(text, i)])]

\* the path ends with this character and names this file, the query follows
Means(type, c, file, query) ==
  IF file = "none" THEN Bad
  ELSE IF c = Char.space \/ type = "HEAD" THEN Wanted(type, file, <<>>)
  ELSE Wanted(IF query.ok THEN type ELSE "BAD", file, query.calls)

\* type: "GET" or "HEAD"; text: what follows it, from the first byte that is no space
RequestMeans(type, text) ==
  LET end == Min(Delimiters(text))
  IN IF Delimiters(text) = {} THEN Bad
     ELSE Means(type, text[end], PathMeans(text, end - 1),
                InputsMean(SubSeq(text, end + 1, Len(text))))

Unspaced(text) ==
  IF \A i \in DOMAIN text : text[i] = Char.space THEN <<>>
  ELSE SubSeq(text, Min({i \in DOMAIN text : text[i] # Char.space}), Len(text))

\* the request with this text is read as what it means
ReadAsMeant(type, text) ==
  ReadRequest((IF type = "GET" THEN GET ELSE HEAD) \o <<Char.space>> \o text) =
    RequestMeans(type, Unspaced(text))
=============================================================================
