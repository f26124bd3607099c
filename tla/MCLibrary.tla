----------------------------- MODULE MCLibrary -------------------------------
(***************************************************************************)
(* The library of shared/ for TLC.  Its parts do not share state: part is  *)
(* the one whose calls are made, the others stay as they start.            *)
(***************************************************************************)
EXTENDS Strings, Printf, Div64, Heap

VARIABLES
  part,          \* "strings", "printf", "div64" or "heap"
  calls          \* calls of the allocator, -1 if they are not counted
all_vars == <<string_vars, printf_vars, div_vars, heap_vars, part, calls>>

(* What the variables of _doprnt are before the switch. *)
Plain == [conv |-> "s", length |-> 0, prec |-> -1, ladjust |-> FALSE, padc |-> " ",
          plus |-> "", altfmt |-> FALSE, star |-> FALSE, args |-> <<>>]

(* Width and precision are given in the format or, with star, as arguments *)
(* (the width negative, which means left adjustment).                      *)
MCNumbers ==
  {[kind |-> "number", conv |-> c, arg |-> n, size |-> 5, width |-> w, prec |-> pr,
    left |-> left, zero |-> zero, plus |-> plus, alt |-> alt,
    signed |-> c \in {"d", "z"},
    base |-> IF c \in {"d", "u"} THEN 10 ELSE IF c = "o" THEN 8 ELSE 16,
    directive |-> [Plain EXCEPT !.conv = c, !.altfmt = alt, !.plus = IF plus THEN "+" ELSE "",
                     !.padc = IF zero THEN "0" ELSE " ", !.star = star,
                     !.ladjust = left /\ ~star, !.length = IF star THEN 0 ELSE w,
                     !.prec = IF star THEN -1 ELSE pr],
    args |-> (IF star THEN <<IF left THEN 2^W - w ELSE w, IF pr = -1 THEN 2^W - 1 ELSE pr>>
              ELSE <<>>) \o <<n>>] :
     c \in {"d", "u", "o", "x", "X", "z"}, n \in {0, 7, 19, 100, 2^(W - 1), 2^W - 1},
     w \in {6, 12}, pr \in {-1, 3}, left \in BOOLEAN, zero \in BOOLEAN,
     plus \in BOOLEAN, alt \in BOOLEAN, star \in BOOLEAN}

MCNumbersPlain == {c \in MCNumbers : ~(c.zero /\ c.left)}

Abc == <<"a", "b", "c", "d">>
MCTexts ==
  {[kind |-> "text", arg |-> s, size |-> 3, width |-> w, prec |-> pr, left |-> left,
    directive |-> [Plain EXCEPT !.ladjust = left, !.length = w, !.prec = pr],
    args |-> <<s>>] :
     s \in {SubSeq(Abc, 1, k) : k \in 0 .. 4}, w \in {0, 2, 6}, pr \in {-1, 2, 3},
     left \in BOOLEAN}

Fields == <<[bit |-> 4, last |-> 3, name |-> <<"FIELD1=">>],
            [bit |-> 2, last |-> 0, name |-> <<"BITTWO">>],
            [bit |-> 1, last |-> 0, name |-> <<"BITONE">>]>>
MCRegisters ==
  {[kind |-> "register", arg |-> n, size |-> 9, example |-> n = 11 /\ b = 8,
    directive |-> [Plain EXCEPT !.conv = "b"], args |-> <<n, [base |-> b, entries |-> Fields]>>] :
     n \in 0 .. 15, b \in {8, 16}}

(* Six bytes of three values, and ten bytes, long enough to copy a word    *)
(* and a tail and to fill two words, of which at most four are not NUL.    *)
MCMemories ==
  [0 .. 0 -> Char] \cup [0 .. 5 -> Char]
  \cup {m \in [0 .. 9 -> {0, 1}] : Cardinality({i \in 0 .. 9 : m[i] = 1}) <= 4}

(* The allocator is called any number of times with few lengths, and with  *)
(* more lengths and blocks for a bounded number of calls.                  *)
CONSTANTS FewLengths, FewBlocks, MaxCalls

-----------------------------------------------------------------------------
NoMemory == [i \in 0 .. 0 |-> 0]
NoText == CHOOSE c \in MCTexts : c.arg = <<>> /\ c.width = 0 /\ c.prec = -1
StringsAtRest == mem = NoMemory /\ StringsInit
PrintfAtRest == call = NoText /\ PrintfInit
DivAtRest == x = 0 /\ y = 1 /\ DivInit
HeapAtRest == HeapInit /\ calls = 0

Init ==
  \/ part = "strings" /\ StringsInit /\ PrintfAtRest /\ DivAtRest /\ HeapAtRest
  \/ part = "printf" /\ PrintfInit /\ StringsAtRest /\ DivAtRest /\ HeapAtRest
  \/ part = "div64" /\ DivInit /\ StringsAtRest /\ PrintfAtRest /\ HeapAtRest
  \/ part = "heap" /\ HeapInit /\ calls \in {-1, 0}
     /\ StringsAtRest /\ PrintfAtRest /\ DivAtRest

StringsStep ==
  part = "strings" /\ StringsNext /\ UNCHANGED <<printf_vars, div_vars, heap_vars, part, calls>>
PrintfStep ==
  part = "printf" /\ PrintfNext /\ UNCHANGED <<string_vars, div_vars, heap_vars, part, calls>>
DivStep ==
  part = "div64" /\ DivNext /\ UNCHANGED <<string_vars, printf_vars, heap_vars, part, calls>>

OfHeap(A) == part = "heap" /\ A /\ UNCHANGED <<string_vars, printf_vars, div_vars, part>>
HeapEndless ==
  OfHeap(/\ calls = -1 /\ UNCHANGED calls
         /\ \/ /\ Cardinality(DOMAIN blocks) < FewBlocks
               /\ \E length \in FewLengths : mem_alloc(length)
            \/ \E zone \in DOMAIN blocks : mem_free(zone))
HeapCounted == OfHeap(calls \in 0 .. MaxCalls - 1 /\ HeapNext /\ calls' = calls + 1)

Next == StringsStep \/ PrintfStep \/ DivStep \/ HeapEndless \/ HeapCounted

Spec == Init /\ [][Next]_all_vars /\ WF_all_vars(DivStep)

(* do_div64: quotient and remainder are exact, the correcting loop is      *)
(* short, and every division returns, without a trap.                      *)
DivisionsExact ==
  [](DivTypeOK /\ Divides /\ NearEstimate) /\ (part = "div64" => Returns)
=============================================================================
