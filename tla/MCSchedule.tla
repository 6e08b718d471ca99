----------------------------- MODULE MCSchedule -----------------------------
(* Schedule with priorities and shares of both signs, a console of three   *)
(* rows, and bytes for ints.                                               *)
EXTENDS Schedule

MCPriorities == {-1, 0, 2, INT_MAX}
MCShares == {-1, 0, 1}

MCWords == <<"U", "n", "k">>
MCUnknown == {-128, 5, 127}

(* Every kind of conversion by itself, with the flags it has in C; no      *)
(* precision cuts digits off.                                              *)
Numbers ==
  {Directive("d", n, flags, width, precision) :
     n \in {-128, -1, 0, 7, 127}, flags \in SUBSET {"0", "-", " ", "+"},
     width \in {-1, 1, 5}, precision \in {-1, 4}}
  \cup {Directive(conv, n, flags, width, precision) :
     conv \in {"u", "x", "X"}, n \in {0, 9, 171, 255}, flags \in SUBSET {"0", "-"},
     width \in {-1, 1, 5}, precision \in {-1, 4}}
  \cup {Directive(conv, 0, flags, 2, 0) : conv \in {"d", "x"}, flags \in SUBSET {"0", "-"}}

Texts ==
  {Directive("s", <<"a", NEWLINE, "b">>, flags, width, -1) :
     flags \in {{}, {"-"}}, width \in {-1, 5}}
  \cup {Directive("c", "%", {}, 3, -1)}

(* And a message longer than the console, with a color and newlines.       *)
Long == <<Plain("s", Times(CONSOLE_END + 2, "w")), Plain("C", 512),
          Plain("c", NEWLINE), Plain("c", NEWLINE), Plain("u", 200)>>

MCOtherFormats == {<<d>> : d \in Numbers \cup Texts} \cup {Long}

ASSUME FormatsAssumption == LegalFormats
=============================================================================
