---------------------------- MODULE ClientSession ----------------------------
(***************************************************************************)
(* The prompt loop of src/client/src/main.cpp around the parser: yylex of  *)
(* lexer.l, yyparse of parser.y, the global query q and free_all.          *)
(*                                                                         *)
(* The parser is the one Bison makes of the grammar: a token is shifted as *)
(* long as the command can still be completed, a complete command is       *)
(* accepted without reading on, and the token that cannot be shifted is    *)
(* lost.  Tokens between which nothing is decided are one:                 *)
(*   open   ( "schema" , {    of an insertion with the parent's id first   *)
(*   field  key : value       a filter or a new value                      *)
(*   middle } , { $set : {                                                 *)
(*   close  } ) or } } )                                                   *)
(*   stray  a character no rule but the last of lexer.l matches            *)
(* Lines only tell the typist's commands apart: a line end is a blank.     *)
(***************************************************************************)
EXTENDS Integers, Sequences, FiniteSets, SequencesExt

CONSTANTS
  Lines,      \* the lines that may be typed, sequences of tokens
  MaxLines,   \* bound on the lines of a session
  MaxFields,  \* bound on the fields of a list
  MaxEnds     \* bound on how often the end of the input is read

ASSUME SessionAssumption ==
  /\ Lines \subseteq Seq(STRING) /\ MaxLines \in Nat
  /\ MaxFields \in Nat \ {0} /\ MaxEnds \in Nat

VARIABLES
  lines,    \* the lines of the session
  rest,     \* the tokens not read yet: [kind, line]
  stack,    \* the tokens yyparse has shifted
  q,        \* the global query: the tokens of the command, <<>> for CMD_NONE
  pc,       \* "parse", "build" the request, "call" the server
  nodes,    \* filters and new_fields on list_alloc
  strings,  \* strings of strdup
  sent,     \* commands sent, in their order: the tokens
  said,     \* lines a message was printed for
  ended     \* how often yylex came to the end of the input, up to MaxEnds

vars == <<lines, rest, stack, q, pc, nodes, strings, sent, said, ended>>

Kinds(tokens) == [i \in DOMAIN tokens |-> tokens[i].kind]

-----------------------------------------------------------------------------
(* The grammar.                                                            *)

\* filters, or_filters and new_vals: fields with commas between them.
FieldLists ==
  {[i \in 1 .. 2 * n - 1 |-> IF i % 2 = 1 THEN "field" ELSE "comma"] : n \in 1 .. MaxFields}

Commands ==
  {<<"db", verb, "open">> \o l \o <<"close">> : verb \in {"insert", "find", "delete"}, l \in FieldLists}
    \cup {<<"db", "update", "open">> \o l \o <<"middle">> \o m \o <<"close">> : l, m \in FieldLists}

Shifts(kinds) == \E c \in Commands : IsPrefix(kinds, c)

\* Mutant of Complete: a command is taken before it is closed.
CompleteOpen(kinds) == Append(kinds, "close") \in Commands

Complete(kinds) == kinds \in Commands

-----------------------------------------------------------------------------
Init ==
  /\ lines \in BoundedSeq(Lines, MaxLines)
  /\ rest = FlattenSeq([n \in DOMAIN lines |->
                          [i \in DOMAIN lines[n] |-> [kind |-> lines[n][i], line |-> n]]])
  /\ stack = <<>> /\ q = <<>> /\ pc = "parse"
  /\ nodes = 0 /\ strings = 0
  /\ sent = <<>> /\ said = {} /\ ended = 0

\* The last rule of lexer.l: a message, and the next character is matched.
Stray ==
  /\ pc = "parse" /\ rest # <<>> /\ Head(rest).kind = "stray"
  /\ rest' = Tail(rest)
  /\ said' = said \cup {Head(rest).line}
  /\ UNCHANGED <<lines, stack, q, pc, nodes, strings, sent, ended>>

\* Mutant of Unread: accepting a command needs a token more, which is lost.
UnreadAhead(shifted, done) ==
  IF done /\ Len(rest) > 1 THEN Tail(Tail(rest)) ELSE Tail(rest)

Unread(shifted, done) == Tail(rest)

\* yylex copies a name as soon as it is matched; what becomes of the token is
\* the parser's.
Token(shifted, done) ==
  /\ pc = "parse" /\ rest # <<>> /\ Head(rest).kind # "stray"
  /\ shifted = Shifts(Kinds(Append(stack, Head(rest))))
  /\ done = Complete(Kinds(Append(stack, Head(rest))))
  /\ rest' = Unread(shifted, done)
  /\ strings' = strings + IF Head(rest).kind \in {"open", "field"} THEN 1 ELSE 0
  /\ UNCHANGED <<lines, sent, ended>>

Shift ==
  /\ Token(TRUE, FALSE)
  /\ stack' = Append(stack, Head(rest))
  /\ nodes' = nodes + IF Head(rest).kind = "field" THEN 1 ELSE 0
  /\ UNCHANGED <<q, pc, said>>

\* The last reduction assigns q, and YYACCEPT returns 0.
Accept ==
  /\ Token(TRUE, TRUE)
  /\ stack' = <<>> /\ q' = Append(stack, Head(rest))
  /\ nodes' = nodes + IF Head(rest).kind = "field" THEN 1 ELSE 0
  /\ pc' = "build"
  /\ UNCHANGED said

\* Mutant of FreeAll: q is left as it is.
FreeAllNodes == nodes' = 0 /\ UNCHANGED q

\* free_all
FreeAll == nodes' = 0 /\ q' = <<>>

\* yyparse returns 0 after the empty command; the client goes by q.
Nothing ==
  /\ stack = <<>>
  /\ IF q = <<>> THEN FreeAll /\ pc' = "parse" ELSE pc' = "build" /\ UNCHANGED <<q, nodes>>
  /\ UNCHANGED <<stack, said>>

\* yyerror prints a message, yyparse returns 1.
Refuse ==
  /\ stack # <<>> /\ stack' = <<>>
  /\ said' = said \cup {stack[i].line : i \in DOMAIN stack}
  /\ FreeAll
  /\ UNCHANGED pc

\* A token that cannot be shifted: no command when it is the first.
Reject == Token(FALSE, FALSE) /\ (Nothing \/ Refuse)

\* The end of the input where a token is expected.
End ==
  /\ pc = "parse" /\ rest = <<>>
  /\ Nothing \/ Refuse
  /\ ended' = IF ended = MaxEnds THEN ended ELSE ended + 1
  /\ UNCHANGED <<lines, rest, strings, sent>>

\* The request is built from q and its nodes, which are then given back.
Build ==
  /\ pc = "build" /\ FreeAll
  /\ sent' = Append(sent, q)
  /\ pc' = "call"
  /\ UNCHANGED <<lines, rest, stack, strings, said, ended>>

\* GetQuery returns and the response is printed.
Respond ==
  /\ pc = "call" /\ pc' = "parse"
  /\ UNCHANGED <<lines, rest, stack, q, nodes, strings, sent, said, ended>>

Next == Stray \/ Shift \/ Accept \/ Reject \/ End \/ Build \/ Respond

\* The loop runs on, and the server answers.
Spec == Init /\ [][Next]_vars /\ WF_vars(Next)

-----------------------------------------------------------------------------
TypeOK ==
  /\ lines \in Seq(Lines)
  /\ \A t \in ToSet(rest) \cup ToSet(stack) : t.line \in DOMAIN lines /\ t.kind \in ToSet(lines[t.line])
  /\ stack # <<>> => Shifts(Kinds(stack))
  /\ q # <<>> => Kinds(q) \in Commands
  /\ pc \in {"parse", "build", "call"}
  /\ nodes \in Nat /\ strings \in Nat
  /\ \A i \in DOMAIN sent : Kinds(sent[i]) \in Commands
  /\ said \subseteq DOMAIN lines
  /\ ended \in 0 .. MaxEnds

Idle == pc = "parse" /\ stack = <<>>

\* Whatever ended the last turn of the loop, the next one starts without a
\* command and without nodes.
NothingKept == Idle => q = <<>> /\ nodes = 0

\* The tokens of line n as they are typed.
Typed(n) == [i \in DOMAIN lines[n] |-> [kind |-> lines[n][i], line |-> n]]

\* As long as every line is a command, blank or without a db., the commands are
\* sent as they were typed: the k-th sent is the k-th typed, all its tokens and
\* no other, and none is sent before it is complete or only after the next.
SessionAsTyped ==
  LET typed == {n \in DOMAIN lines : lines[n] \in Commands}
      done == {n \in typed : \A t \in ToSet(rest) : t.line # n}
  IN (\A n \in DOMAIN lines : lines[n] \in Commands \/ "db" \notin ToSet(lines[n])) =>
       /\ Cardinality(done) = IF pc = "build" THEN Len(sent) + 1 ELSE Len(sent)
       /\ \A n \in typed :
            LET k == Cardinality({m \in typed : m <= n}) IN
            k <= Len(sent) => sent[k] = Typed(n)

\* A turn of the loop that begins with a right command sends it, whatever was
\* typed and dropped, or reported as wrong, in the lines before.
GoodLineSent ==
  \A n \in 1 .. MaxLines :
    Idle /\ n \in DOMAIN lines /\ lines[n] \in Commands /\ IsPrefix(Typed(n), rest)
      ~> n \in DOMAIN lines /\ Typed(n) \in ToSet(sent)

-----------------------------------------------------------------------------
(* What the project asks for and the code does not do.                     *)

\* parser/README.md: the parser returns the tree of a query or a message.  So a
\* line that was read has become part of a command or of a message.
LineAnswered ==
  Idle => \A n \in DOMAIN lines :
            \/ \E t \in ToSet(rest) : t.line = n
            \/ n \in said
            \/ \E i \in DOMAIN sent : \E t \in ToSet(sent[i]) : t.line = n

\* The same, or: a command a message was printed for is not sent as well.
RefusedNotSent ==
  \A i \in DOMAIN sent : \A t \in ToSet(sent[i]) : t.line \notin said

\* RULES.md: a loop has an exit condition; the end of the input is one.
EndEndsLoop == ended <= 1

\* RULES.md: memory allocated by hand is always freed.
NoStringKept == Idle => strings = 0
=============================================================================
