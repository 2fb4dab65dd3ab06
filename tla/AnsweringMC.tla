---------------------------- MODULE AnsweringMC ----------------------------
(* Two chats: one reads any short text, or both cite, at some length.       *)
EXTENDS Answering

CONSTANTS c1, c2, d1, d2

(* Two pieces of one page, another page, and a page of another document. *)
Retrieved == <<[doc |-> d1, page |-> 1], [doc |-> d1, page |-> 2], [doc |-> d1, page |-> 1],
               [doc |-> d2, page |-> 1]>>

Written == Digits \union {"<", "[", "]", ">", " ", "x"}

Ref(n) == <<"<", "[", n, "]", ">">>

Short == UNION {[1..n -> {"<", "[", "1", "]", ">", "x"}] : n \in 0..4}
Torn == {<<"<">> \o Ref("1"), <<"<", "[">> \o Ref("0") \o <<"<">>, Ref("1") \o <<"<">> \o Ref("2")}
Long == {Ref("1") \o <<" ">> \o Ref("3") \o Ref("2"), Ref("4") \o <<"x">> \o Ref("2") \o <<"[">>,
         Ref("1") \o <<" ">> \o Ref("2") \o <<"x">> \o Ref("1"), Ref("2") \o Ref("1") \o <<"<">>}
Brief == {Ref("1"), Ref("1") \o <<"x">> \o Ref("4")}

Open(t1, m1, t2, m2) == [c \in Chats |-> IF c = c1 THEN [text |-> t1, mode |-> m1]
                                         ELSE [text |-> t2, mode |-> m2]]

Starts ==
  {Open(t, "plain", <<>>, "plain") : t \in Short}
  \union {Open(t, m, <<>>, "plain") : t \in Torn \union Long, m \in Modes}
  \union {Open(t, m, u, n) : t \in Brief, u \in Brief,
                             m \in {"attachment"}, n \in {"attachment", "annotation"}}
============================================================================
