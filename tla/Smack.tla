-------------------------------- MODULE Smack --------------------------------
(***************************************************************************)
(* The pattern matcher of smack1.c, with which the response parser finds   *)
(* field names: patterns are compiled to an automaton (Aho-Corasick, made  *)
(* deterministic, its states sorted so that those with a match come last,  *)
(* its alphabet compressed to the characters used), and a search carries a *)
(* row of it, and the matches of that row still to be told, from one block *)
(* of input to the next.                                                   *)
(*                                                                         *)
(* Wildcards and the snmp hack, which nothing in the program asks for, are *)
(* left out.  For TLC only.                                                *)
(***************************************************************************)
EXTENDS Integers, SequencesExt

CONSTANTS
  ToLower,       \* tolower(), a function on the characters that occur
  Alphabet,    \* these characters in the order of their codes, a sequence
  PatternSets, \* lists of patterns: [text, begin, end], their ids are 1, 2, ...
  NoCase,      \* is_nocase
  MaxText,     \* a bound: the length of the text that is searched
  MaxBlock     \* a bound: the length of one block of it

ASSUME SmackAssumption ==
  /\ DOMAIN ToLower = ToSet(Alphabet) /\ IsInjective(Alphabet)
  /\ NoCase \in BOOLEAN /\ MaxText \in Nat /\ MaxBlock \in Nat

VARIABLES
  patterns,   \* what was added to it
  machine,    \* struct SMACK after smack_compile()
  text,       \* the input so far, with "$" once the caller has said that it is over
  search,     \* the caller's state variable: a row, and the matches left
  found       \* <<id, end>> of what was returned

smackVars == <<patterns, machine, text, search, found>>

------------------------------------------------------------------------------
(* smack_compile() *)

FAIL == -1
Symbols == Alphabet \o <<"^", "$">>   \* with the two anchors
All == ToSet(Symbols)

FoldedCase(word) == [j \in DOMAIN word |-> IF NoCase THEN ToLower[word[j]] ELSE word[j]]

MaxStates(ps) ==
  1 + FoldSeq(LAMBDA p, n : n + Len(p.text) + (IF p.begin THEN 1 ELSE 0)
                              + (IF p.end THEN 1 ELSE 0), 0, ps)

Empty(ps) ==
  LET states == 0..MaxStates(ps) - 1
  IN [ count |-> 1, goto |-> [s \in states |-> [a \in All |-> FAIL]],
       fail |-> [s \in states |-> FAIL], ids |-> [s \in states |-> <<>>], limit |-> 0 ]

NewState(m, s, a) == [m EXCEPT !.goto[s][a] = m.count, !.count = @ + 1]

(* A path of states is followed while it is there, and then made. *)
Extend(at, a) ==
  LET next == at.m.goto[at.s][a]
  IN IF next # FAIL THEN [at EXCEPT !.s = next]
     ELSE [m |-> NewState(at.m, at.s, a), s |-> at.m.count]

CopyMatches(m, s, ids) ==
  [m EXCEPT !.ids[s] = @ \o SelectSeq(ids, LAMBDA id : id \notin ToSet(m.ids[s]))]

(* smack_add_prefixes().  An anchor at the end always makes a state. *)
AddPrefixes(m, p, id) ==
  LET start == [m |-> m, s |-> IF p.begin THEN m.goto[0]["^"] ELSE 0]
      path  == FoldLeft(Extend, start, FoldedCase(p.text))
      last  == IF p.end THEN [m |-> NewState(path.m, path.s, "$"), s |-> path.m.count] ELSE path
  IN CopyMatches(last.m, last.s, <<id>>)

AnyBegins(ps) == \E j \in DOMAIN ps : ps[j].begin

(* Stage 0; what leads nowhere from the base state leads back to it. *)
AllPrefixes(ps) ==
  LET base == IF AnyBegins(ps) THEN NewState(Empty(ps), 0, "^") ELSE Empty(ps)
      m    == FoldLeftDomain(LAMBDA n, j : AddPrefixes(n, ps[j], j), base, ps)
  IN [m EXCEPT !.goto[0] = [a \in All |-> IF @[a] = FAIL THEN 0 ELSE @[a]]]

(* The walk through the states that both next stages make, breadth first,     *)
(* with the queue of smackqueue.c.                                            *)
Enqueued(m, queue, r, a) ==
  IF m.goto[r][a] \in {FAIL, 0} THEN queue ELSE Append(queue, m.goto[r][a])

RECURSIVE Order(_, _)
Order(m, queue) ==
  IF queue = <<>> THEN <<>>
  ELSE LET r == Head(queue)
       IN <<r>> \o Order(m, FoldLeft(LAMBDA q, a : Enqueued(m, q, r, a), Tail(queue), Symbols))

FirstStates(m) == FoldLeft(LAMBDA q, a : Enqueued(m, q, 0, a), <<>>, Symbols)

Reached(m) == Order(m, FirstStates(m))

(* Stage 1: where to go on when a state has no transition, and what matches   *)
(* there matches here too.                                                    *)
FailFrom(m, r, a) ==
  LET from[f \in DOMAIN m.goto] == IF m.goto[f][a] # FAIL THEN m.goto[f][a] ELSE from[m.fail[f]]
  IN from[m.fail[r]]

(* Mutant for FindsAll: the matches of the fail state are not copied. *)
SetFailMutant(m, r, a) ==
  IF m.goto[r][a] = FAIL THEN m ELSE [m EXCEPT !.fail[m.goto[r][a]] = FailFrom(m, r, a)]

SetFail(m, r, a) ==
  LET s == m.goto[r][a]
      f == FailFrom(m, r, a)
  IN IF s = FAIL THEN m ELSE CopyMatches([m EXCEPT !.fail[s] = f], s, m.ids[f])

WithFails(m) ==
  FoldLeft(LAMBDA n, r : FoldLeft(LAMBDA k, a : SetFail(k, r, a), n, Symbols),
           [m EXCEPT !.fail = [s \in DOMAIN @ |-> IF s \in ToSet(FirstStates(m)) THEN 0 ELSE @[s]]],
           Reached(m))

(* Stage 2: the fails become transitions. *)
LinkFail(m, r, a) ==
  IF m.goto[r][a] # FAIL THEN m ELSE [m EXCEPT !.goto[r][a] = m.goto[m.fail[r]][a]]

WithLinks(m) ==
  FoldLeft(LAMBDA n, r : FoldLeft(LAMBDA k, a : LinkFail(k, r, a), n, Symbols), m, Reached(m))

(* swap_rows(): with all transitions to the two. *)
SwapRows(m, j, k) ==
  LET Swap(s) == IF s = j THEN k ELSE IF s = k THEN j ELSE s
  IN [m EXCEPT !.goto = [s \in DOMAIN @ |-> [a \in All |-> Swap(@[Swap(s)][a])]],
               !.ids  = [s \in DOMAIN @ |-> @[Swap(s)]]]

(* Stage 3: the states with matches are moved to the end. *)
RECURSIVE Sorted(_, _, _)
Sorted(m, start, end) ==
  CASE start >= end -> [m EXCEPT !.limit = start]
    [] start < end /\ m.ids[start] = <<>> -> Sorted(m, start + 1, end)
    [] start < end /\ m.ids[start] # <<>> /\ m.ids[end - 1] # <<>> -> Sorted(m, start, end - 1)
    [] OTHER -> Sorted(SwapRows(m, start, end - 1), start, end)

(* smack_add_symbol(): a character of a pattern is numbered when it is first  *)
(* seen; those in no pattern share 0.                                         *)
Used(ps) ==
  LET chars == FlattenSeq([j \in DOMAIN ps |-> FoldedCase(ps[j].text)])
      all   == chars \o (IF AnyBegins(ps) THEN <<"^">> ELSE <<>>)
                     \o (IF \E j \in DOMAIN ps : ps[j].end THEN <<"$">> ELSE <<>>)
  IN FoldLeft(LAMBDA used, c : IF c \in ToSet(used) THEN used ELSE Append(used, c), <<>>, all)

SymbolOf(ps) ==
  LET used  == Used(ps)
      Of(c) == IF c \in ToSet(used) THEN CHOOSE k \in DOMAIN used : used[k] = c ELSE 0
  IN [c \in All |-> Of(IF NoCase /\ c \in ToSet(Alphabet) THEN ToLower[c] ELSE c)]

RowShift(count) ==
  CHOOSE n \in 1..9 : 2^n >= count + 1 /\ \A k \in 1..(n - 1) : 2^k < count + 1

(* Stage 4.  Of the characters with one symbol the last gives the transition. *)
Table(m, symbol, width) ==
  [at \in 0..m.count * width - 1 |->
     LET cols == SelectSeq(Symbols, LAMBDA c : symbol[c] = at % width)
     IN IF cols = <<>> THEN 0 ELSE m.goto[at \div width][Last(cols)]]

Compiled(ps) ==
  LET linked == WithLinks(WithFails(AllPrefixes(ps)))
      swapped == IF AnyBegins(ps) THEN SwapRows(linked, 0, 1) ELSE linked
      sorted == Sorted(swapped, 0, swapped.count)
      shift  == RowShift(Len(Used(ps)))
  IN [ symbol |-> SymbolOf(ps), shift |-> shift, table |-> Table(sorted, SymbolOf(ps), 2^shift),
       ids |-> sorted.ids, limit |-> sorted.limit ]

------------------------------------------------------------------------------
(* Searching. *)

Go(row, c) == machine.table[row * 2^machine.shift + machine.symbol[c]]

(* inner_match(): to the first state with a match. *)
RECURSIVE Inner(_, _, _)
Inner(row, block, i) ==
  IF i = Len(block) THEN [row |-> row, i |-> i]
  ELSE LET next == Go(row, block[i + 1])
       IN IF next >= machine.limit THEN [row |-> next, i |-> i] ELSE Inner(next, block, i + 1)

(* The matches of a row are told from the last to the first. *)
Tell(row, left) == machine.ids[row][left]

Before == SelectSeq(text, LAMBDA c : c # "$")

(* smack_search_next(), as often as its callers call it for a block. *)
RECURSIVE Searched(_, _, _, _)
Searched(state, block, i, told) ==
  IF i = Len(block) THEN [state |-> state, told |-> told]
  ELSE IF state.left # 0
  THEN Searched([state EXCEPT !.left = @ - 1], block, i,
                Append(told, <<Tell(state.row, state.left), Len(text) + i>>))
  ELSE LET at == Inner(state.row, block, i)
           n  == Len(machine.ids[at.row])
       IN IF n = 0 THEN [state |-> [row |-> at.row, left |-> 0], told |-> told]
          ELSE Searched([row |-> at.row, left |-> n - 1], block, at.i + 1,
                        Append(told, <<Tell(at.row, n), Len(text) + at.i + 1>>))

SmackInit ==
  /\ patterns \in PatternSets
  /\ machine = Compiled(patterns)
  /\ text = <<>>
  /\ search = [row |-> 0, left |-> 0]
  /\ found = <<>>

Feed(block) ==
  /\ Before = text
  /\ LET done == Searched(search, block, 0, <<>>)
     IN search' = done.state /\ found' = found \o done.told
  /\ text' = text \o block
  /\ UNCHANGED <<patterns, machine>>

(* smack_next_match(), and smack_search_next_end() while matches are left. *)
NextMatch ==
  /\ search.left # 0
  /\ search' = [search EXCEPT !.left = @ - 1]
  /\ found' = Append(found, <<Tell(search.row, search.left), Len(Before)>>)
  /\ UNCHANGED <<patterns, machine, text>>

(* smack_search_next_end(): the anchor is one more character; when nothing is *)
(* found the state stays as it is.                                            *)
SearchNextEnd ==
  /\ search.left = 0
  /\ LET row == Go(search.row, "$")
         n   == Len(machine.ids[row])
     IN IF n = 0 THEN UNCHANGED <<search, found>>
        ELSE /\ search' = [row |-> row, left |-> n - 1]
             /\ found'  = Append(found, <<Tell(row, n), Len(Before)>>)
  /\ text' = Append(Before, "$")
  /\ UNCHANGED <<patterns, machine>>

Blocks == UNION {[1..n -> ToSet(Alphabet)] : n \in 1..MaxBlock}

SmackNext ==
  \/ \E block \in Blocks : Len(text) + Len(block) <= MaxText /\ Feed(block)
  \/ NextMatch \/ SearchNextEnd

------------------------------------------------------------------------------
(* Pattern p ends with the first e characters of the text. *)
Matches(p, e) ==
  LET n == Len(p.text)
  IN /\ e >= n
     /\ FoldedCase(SubSeq(text, e - n + 1, e)) = FoldedCase(p.text)
     /\ p.begin => e = n
     /\ p.end => e = Len(Before) /\ Before # text

(* How far from the start of the automaton the match of a pattern is found;   *)
(* those at the end of the input are told last.                               *)
Depth(id) ==
  Len(patterns[id].text) + (IF patterns[id].begin THEN 1 ELSE 0)
    + IF patterns[id].end THEN 2 + MaxText ELSE 0

(* However the input is cut into blocks, each occurrence of each pattern is   *)
(* told exactly once, overlapping ones too, but for those of the last place   *)
(* that the caller has not asked for yet.  Of those that end at one place the *)
(* shorter are told first, as http-response.c relies on, which takes ":" for  *)
(* a known name if another match follows it (236-245).                        *)
FindsAll ==
  /\ IsInjective(found)
  /\ ToSet(found) \cup {<<Tell(search.row, k), Len(Before)>> : k \in 1..search.left}
       = {<<id, e>> \in (DOMAIN patterns) \X (1..Len(Before)) : Matches(patterns[id], e)}
  /\ \A k \in 1..(Len(found) - 1) :
       found[k][2] = found[k + 1][2] => Depth(found[k][1]) <= Depth(found[k + 1][1])

==============================================================================
