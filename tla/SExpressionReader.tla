-------------------------- MODULE SExpressionReader --------------------------
(***************************************************************************)
(* The tokenizer and the parser that read a text back, one character a     *)
(* step: Tokenizer's states, and the lists that Parser.parseList has open. *)
(* A reader that throws has the result Thrown.                             *)
(*                                                                         *)
(* Three readings: of what ACL2 replies, by the client; of a command, by   *)
(* ACL2, whose reader takes any character in a string and after a          *)
(* backslash; and of a printed form by the client itself, as the unit      *)
(* tests do.                                                               *)
(***************************************************************************)
EXTENDS Visitor

CONSTANTS
    Replies, Constructs,    \* the forms ACL2 replies, what the user may write
    Unfinished

VARIABLES
    way,                    \* reply, command or test
    sent,                   \* the form that was printed, or the construct for a command
    text,                   \* what the reader is given
    at,                     \* the characters read so far
    state, chars,           \* Tokenizer.next: currentState, currentTokenChars
    lists,                  \* thisListElements of each parseList under way
    result

vars == <<way, sent, text, at, state, chars, lists, result>>

States == {"NEW", "INTEGER", "STRING", "STRING_ESCAPE", "STRING_U", "SYMBOL"}

HexRuns == [r \in {"0041", "0141"} |-> IF r = "0041" THEN "A" ELSE Thrown]
NotStandard == {Quote, Backslash, "tab", "return", NonAscii}
Others == {"a", "n", "r", "t", "u", NonAscii} \cup DOMAIN HexRuns

\* A run of upper-case letters and hyphens.
IsName(ch) == ch \notin Punctuation \cup Digits \cup Others

Reading(w, what, printed) == [way |-> w, sent |-> what, text |-> printed]

Readings ==
    {Reading("reply", e, Text(e, TRUE)) : e \in Replies}
    \cup {Reading("command", c, Received(SentText(c))) : c \in Constructs}
    \cup {Reading("test", e, Text(e, FALSE)) : e \in Written({TopLevel(c) : c \in Constructs})}

Init ==
    /\ \E r \in Readings : way = r.way /\ sent = r.sent /\ text = r.text
    /\ at = 0 /\ state = "NEW" /\ chars = <<>> /\ lists = <<>>
    /\ result = Unfinished

(* Types: every character taken into a token is one, an escape's too, and the  *)
(* lists are all closed when there is a result, unless the reader threw.       *)
TypeOK ==
    /\ way \in {"reply", "command", "test"}
    /\ at \in 0..Len(text)
    /\ state \in States
    /\ \A i \in 1..Len(chars) : chars[i] \in STRING
    /\ result # Unfinished => lists = <<>> \/ result = Thrown

Ch == text[at + 1]
NextIs(chs) == at < Len(text) /\ Ch \in chs
Advances == at' = at + 1
PushesBack == UNCHANGED at

-----------------------------------------------------------------------------
(* Parser. *)

Throw == result' = Thrown /\ UNCHANGED <<lists, state, chars>>

\* A bare CODE-CHAR that is not the head of a character: its package is null,
\* on which printing what was parsed throws.
CodeChar == Sym("null", "CODE-CHAR")
Dot == Sym("null", ".")

\* finishList makes a list of what was read, or a character; a dot throws.
Finished(items) ==
    IF /\ Len(items) = 2 /\ items[1] = CodeChar /\ Is("int", items[2])
       /\ items[2].int \in {<<n>> : n \in CharCodes}
      THEN Chr(items[2].int[1])
    ELSE IF \E i \in 1..Len(items) : items[i] \in {CodeChar, Dot} THEN Thrown
    ELSE List(items)

Add(item) ==
    lists' = [lists EXCEPT ![Len(lists)] = Append(@, item)] /\ UNCHANGED result

\* parseList adds what a token stands for; parseTop wants a parenthesis first.
Token(item) ==
    IF item = Thrown \/ lists = <<>>
      THEN Throw
      ELSE Add(item) /\ state' = "NEW" /\ chars' = <<>>

Open ==
    /\ result = Unfinished /\ state = "NEW" /\ NextIs({"("}) /\ Advances
    /\ lists' = Append(lists, <<>>)
    /\ UNCHANGED <<state, chars, result>>

Close ==
    /\ result = Unfinished /\ state = "NEW" /\ NextIs({")"}) /\ Advances
    /\ IF lists = <<>> THEN Throw
       ELSE LET e == Finished(Last(lists)) IN
            IF e = Thrown THEN Throw
            ELSE IF Len(lists) = 1
              THEN result' = e /\ lists' = <<>> /\ UNCHANGED <<state, chars>>
              ELSE /\ lists' = Append(SubSeq(lists, 1, Len(lists) - 2),
                                      Append(lists[Len(lists) - 1], e))
                   /\ UNCHANGED <<state, chars, result>>

-----------------------------------------------------------------------------
(* Tokenizer.next. *)

Goto(where) == state' = where /\ UNCHANGED <<lists, result>>
Take(ch) == chars' = Append(chars, ch)

Start ==
    /\ result = Unfinished /\ state = "NEW" /\ at < Len(text) /\ Ch \notin {"(", ")"}
    /\ Advances
    /\ \/ Ch \in Whitespace /\ UNCHANGED <<state, chars, lists, result>>
       \/ Ch = Quote /\ Goto("STRING") /\ UNCHANGED chars
       \/ Ch \in Digits \cup {"-"} /\ Goto("INTEGER") /\ Take(Ch)
       \/ (IsName(Ch) \/ Ch \in {":", "."}) /\ Goto("SYMBOL") /\ Take(Ch)
       \/ Ch \in Others \cup {Backslash} /\ Throw

\* A sign alone is no number.
IntegerToken(cs) == IF cs = <<"-">> THEN Thrown ELSE Integer(cs)

\* Variant: the parenthesis that ends an integer is not pushed back.
InIntegerEats ==
    /\ result = Unfinished /\ state = "INTEGER" /\ at < Len(text)
    /\ \/ Ch \in Digits /\ Advances /\ Take(Ch) /\ Goto("INTEGER")
       \/ Ch \in {"(", ")", Quote} /\ Advances /\ Token(IntegerToken(chars))
       \/ Ch \in Whitespace /\ Advances /\ Token(IntegerToken(chars))
       \/ Ch \notin Digits \cup {"(", ")", Quote} \cup Whitespace /\ Advances /\ Throw

InInteger ==
    /\ result = Unfinished /\ state = "INTEGER" /\ at < Len(text)
    /\ \/ Ch \in Digits /\ Advances /\ Take(Ch) /\ Goto("INTEGER")
       \/ Ch \in {"(", ")", Quote} /\ PushesBack /\ Token(IntegerToken(chars))
       \/ Ch \in Whitespace /\ Advances /\ Token(IntegerToken(chars))
       \/ Ch \notin Digits \cup {"(", ")", Quote} \cup Whitespace /\ Advances /\ Throw

\* Variant: any character is taken as standard.
InStringTakesAll ==
    /\ result = Unfinished /\ state = "STRING" /\ at < Len(text) /\ Advances
    /\ CASE Ch = Quote -> Token(Str(chars))
         [] Ch = Backslash -> Goto("STRING_ESCAPE") /\ UNCHANGED chars
         [] OTHER -> Goto("STRING") /\ Take(Ch)

InString ==
    /\ result = Unfinished /\ state = "STRING" /\ at < Len(text) /\ Advances
    /\ CASE Ch = Quote -> Token(Str(chars))
         [] Ch = Backslash -> Goto("STRING_ESCAPE") /\ UNCHANGED chars
         [] Ch \in NotStandard /\ way # "command" -> Throw
         [] OTHER -> Goto("STRING") /\ Take(Ch)

Escapes == [n |-> Newline, r |-> "return", t |-> "tab"]

AfterBackslash ==
    /\ result = Unfinished /\ state = "STRING_ESCAPE" /\ at < Len(text) /\ Advances
    /\ CASE Ch \in {Quote, Backslash} \/ way = "command" -> Goto("STRING") /\ Take(Ch)
         [] Ch \in DOMAIN Escapes /\ way # "command" -> Goto("STRING") /\ Take(Escapes[Ch])
         [] Ch = "u" /\ way # "command" -> Goto("STRING_U") /\ UNCHANGED chars
         [] OTHER -> Throw

\* Variant: a code above 255 is not refused.
UnicodeEscapeAnyCode ==
    /\ result = Unfinished /\ state = "STRING_U" /\ at < Len(text) /\ Advances
    /\ IF Ch \in DOMAIN HexRuns
         THEN Goto("STRING") /\ Take(HexRuns[Ch])
         ELSE Throw

\* The four digits, as one character.
UnicodeEscape ==
    /\ result = Unfinished /\ state = "STRING_U" /\ at < Len(text) /\ Advances
    /\ IF Ch \in DOMAIN HexRuns /\ HexRuns[Ch] # Thrown
         THEN Goto("STRING") /\ Take(HexRuns[Ch])
         ELSE Throw

RECURSIVE WithoutLastColons(_)
WithoutLastColons(cs) ==
    IF cs # <<>> /\ Last(cs) = ":" THEN WithoutLastColons(Front(cs)) ELSE cs

\* ParseSymbol, on the parts that split(":") leaves, which drops empty ones at
\* the end.
ParseSymbol(cs) ==
    LET ps == WithoutLastColons(cs) IN
    IF ps \in {<<"STATE">>, <<"REPLACED-STATE">>} THEN NIL
    ELSE IF ps = <<".">> THEN Dot
    ELSE IF ps = <<"CODE-CHAR">> THEN CodeChar
    ELSE IF Len(ps) = 1 /\ ps[1] \in SpecialNames THEN Special(ps[1])
    ELSE IF Len(ps) = 2 /\ ps[1] = ":" THEN Keyword(ps[2])
    ELSE IF Len(ps) = 4 /\ ps[2] = ":" /\ ps[3] = ":" /\ ps[1] # ":" /\ ps[4] # ":"
      THEN Sym(ps[1], ps[4])
    ELSE Thrown

InSymbol ==
    /\ result = Unfinished /\ state = "SYMBOL" /\ at < Len(text)
    /\ IF IsName(Ch) \/ Ch \in {":", ".", "-"}
         THEN Advances /\ Take(Ch) /\ Goto("SYMBOL")
         ELSE PushesBack /\ Token(ParseSymbol(chars))

\* The text ends in the middle: a TokenError, on which parseList throws.
EndOfText ==
    /\ result = Unfinished /\ at = Len(text)
    /\ Throw /\ UNCHANGED at

Step ==
    \/ Open \/ Close \/ Start \/ InInteger \/ InString \/ AfterBackslash
    \/ UnicodeEscape \/ InSymbol \/ EndOfText

Next == Step /\ UNCHANGED <<way, sent, text>>

Spec == Init /\ [][Next]_vars
-----------------------------------------------------------------------------
\* What the client should read of what ACL2 printed: the state is NIL.
RECURSIVE Meaning(_)
Meaning(e) ==
    IF Is("list", e) THEN List([i \in 1..Len(e.list) |-> Meaning(e.list[i])])
    ELSE IF e \in {Sym("ACL2", "STATE"), Sym("ACL2", "REPLACED-STATE")} THEN NIL
    ELSE e
=============================================================================
