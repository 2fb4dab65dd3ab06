----------------------------- MODULE Answering -----------------------------
(***************************************************************************)
(* Chats that answer with the text of a language model: the stream is      *)
(* parsed for references like <[2]>, which may be cut anywhere between two *)
(* pieces of the stream, and each reference becomes a citation of what was *)
(* retrieved (ReferencesParser, DefaultAnswerGenerator, PlainAnswer,       *)
(* DialAnswer and SharingManager).                                         *)
(***************************************************************************)
EXTENDS Integers, FiniteSets, Sequences

CONSTANTS
  Chats,       \* chats of one server
  Docs,        \* documents
  Characters,  \* what a text is written in
  Found,       \* what the retriever found: a sequence of [doc, page]
  Openings,    \* for each chat the text, and how it is answered, that it may begin with
  MaxDeleted   \* bound on the documents that are deleted

Digit == <<"0", "1", "2", "3", "4", "5", "6", "7", "8", "9">>
Digits == {Digit[n] : n \in 1..10}
Modes == {"plain", "attachment", "annotation"}

ASSUME AnsweringAssumption ==
  /\ MaxDeleted \in Nat
  /\ Len(Found) \in Nat /\ DOMAIN Found = 1..Len(Found)
  /\ \A n \in DOMAIN Found : Found[n].doc \in Docs
  /\ "" \notin Characters /\ "nothing" \notin Characters
  /\ \A o \in Openings, c \in Chats : o[c].text \in Seq(Characters) /\ o[c].mode \in Modes
  /\ "none" \notin Chats

VARIABLES
  present,  \* documents that have not been deleted
  locks,    \* the chat that holds the lock of a document's url, or none
  opening,  \* the text of the model and the kind of the answer
  chat,     \* control state and stream of each chat
  answer    \* what each chat has sent

vars == <<present, locks, opening, chat, answer>>

NoOne == "none"

(* What is sent, and what the parser finds: a character or a number. *)
Char(c) == [char |-> c, number |-> -1]
Number(n) == [char |-> "", number |-> n]
Nothing == [char |-> "nothing", number |-> -1]

Init ==
  /\ present = Docs
  /\ locks = [d \in Docs |-> NoOne]
  /\ opening \in Openings
  /\ chat = [c \in Chats |-> [pc |-> "read", unread |-> opening[c].text, held |-> <<>>,
                              items |-> <<>>, urls |-> {}]]
  /\ answer = [c \in Chats |-> [shown |-> <<>>, tag |-> 0, tags |-> 0, notes |-> <<>>,
                                attached |-> <<>>, cited |-> <<>>]]
----------------------------------------------------------------------------
(* Sequences of items. *)

InRange(i) == 0 <= i.number /\ i.number < Len(Found)

Sort(i) == IF i = Nothing THEN "nothing"
           ELSE IF i.char = " " THEN "blank"
           ELSE IF i.char # "" THEN "letter"
           ELSE IF InRange(i) THEN "item" ELSE "stray"

(* The items of these sorts, of the first n items of s. *)
Selected(s, sorts) ==
  LET selected[n \in 0..Len(s)] ==
        IF n = 0 THEN <<>>
        ELSE IF Sort(s[n]) \in sorts THEN Append(selected[n-1], s[n]) ELSE selected[n-1]
  IN selected

Only(s, sorts) == Selected(s, sorts)[Len(s)]

Letters(s) == Only(s, {"letter", "blank"})
Numbers(s) == Only(s, {"item", "stray"})
----------------------------------------------------------------------------
(* REF_PATTERN, from position i on of the text s, ends at j. *)
RefAt(s, i, j) ==
  /\ i + 4 <= j /\ j <= Len(s)
  /\ s[i] = "<" /\ s[i+1] = "[" /\ s[j-1] = "]" /\ s[j] = ">"
  /\ \A n \in (i+2)..(j-2) : s[n] \in Digits

(* The references of a text: where each begins and ends. *)
Refs(s) == {p \in (1..Len(s)) \X (1..Len(s)) : RefAt(s, p[1], p[2])}

Value == [c \in Digits |-> CHOOSE n \in 0..9 : Digit[n+1] = c]

(* int() of digits. *)
Decimal(s) ==
  LET value[n \in 0..Len(s)] == IF n = 0 THEN 0 ELSE 10 * value[n-1] + Value[s[n]]
  IN value[Len(s)]

(* The number in a reference; ids in the text begin with 1. *)
RefIndex(s, p) == Decimal(SubSeq(s, p[1] + 2, p[2] - 2)) - 1

Chars(s) == [n \in 1..Len(s) |-> Char(s[n])]

(* What the n-th character of a text stands for: a reference that begins    *)
(* there, nothing within one, and else itself.                              *)
Part(s, refs, n) ==
  LET within == {p \in refs : p[1] <= n /\ n <= p[2]}
      p == CHOOSE p \in within : TRUE
  IN IF within = {} THEN Char(s[n])
     ELSE IF p[1] = n THEN Number(RefIndex(s, p)) ELSE Nothing

(* What a text is: its references, and all characters that belong to none.  *)
Reading(s) ==
  LET refs == Refs(s)
  IN  IF refs = {} THEN Chars(s)
      ELSE Only([n \in 1..Len(s) |-> Part(s, refs, n)], {"letter", "blank", "item", "stray"})

LastRef(s) == LET refs == Refs(s) IN
  IF refs = {} THEN 0 ELSE (CHOOSE p \in refs : \A q \in refs : q[2] <= p[2])[2]

(* Mutant of Cut: a lone bracket at the end is not held back. *)
CutLate(s) ==
  LET opens == {i \in (LastRef(s)+1)..(Len(s)-1) : s[i] = "<" /\ s[i+1] = "["}
  IN IF opens # {} THEN (CHOOSE i \in opens : \A j \in opens : i <= j) - 1 ELSE Len(s)

(* How much of a piece is sent: what may be the begin of a reference is     *)
(* held back.                                                               *)
Cut(s) ==
  LET opens == {i \in (LastRef(s)+1)..(Len(s)-1) : s[i] = "<" /\ s[i+1] = "["}
  IN IF opens # {} THEN (CHOOSE i \in opens : \A j \in opens : i <= j) - 1
     ELSE IF s # <<>> /\ s[Len(s)] = "<" THEN Len(s) - 1
     ELSE Len(s)

(* ReferencesParser.atransform: a piece of the stream. *)
Receive(c, size) ==
  /\ chat[c].pc = "read" /\ chat[c].items = <<>> /\ size \in 1..Len(chat[c].unread)
  /\ \E piece \in {chat[c].held \o SubSeq(chat[c].unread, 1, size)} :
       \E sent \in {SubSeq(piece, 1, Cut(piece))} :
         chat' = [chat EXCEPT ![c].unread = SubSeq(@, size + 1, Len(@)),
                              ![c].held = SubSeq(piece, Len(sent) + 1, Len(piece)),
                              ![c].items = Reading(sent)]
  /\ UNCHANGED <<present, locks, opening, answer>>

(* The end of the stream: what was held back is sent as it is. *)
EndStream(c) ==
  /\ chat[c].pc = "read" /\ chat[c].items = <<>> /\ chat[c].unread = <<>>
  /\ IF chat[c].held = <<>> THEN chat' = [chat EXCEPT ![c].pc = "done"]
     ELSE chat' = [chat EXCEPT ![c].held = <<>>, ![c].items = Chars(chat[c].held)]
  /\ UNCHANGED <<present, locks, opening, answer>>
----------------------------------------------------------------------------
(* The answer *)

Item(c) == Head(chat[c].items)
Mode(c) == opening[c].mode
Processing(c) == chat[c].pc = "read" /\ chat[c].items # <<>>
Took(c) == [chat[c] EXCEPT !.pc = "read", !.items = Tail(@)]

(* The items before the first reference that is in bounds, sent at once; a  *)
(* number that is out of bounds is left out.                                *)
Sent(c) ==
  LET items == chat[c].items
      stops == {n \in DOMAIN items : InRange(items[n])}
  IN IF stops = {} THEN items ELSE SubSeq(items, 1, (CHOOSE n \in stops : \A m \in stops : n <= m) - 1)

Send(c, tag) ==
  /\ Processing(c) /\ ~InRange(Item(c))
  /\ answer' = [answer EXCEPT ![c].shown = @ \o Letters(Sent(c)), ![c].tag = tag]
  /\ chat' = [chat EXCEPT ![c].items = SubSeq(@, Len(Sent(c)) + 1, Len(@))]
  /\ UNCHANGED <<present, locks, opening>>

(* Mutant of AppendContent: the tag is kept whatever is written. *)
AppendContentOnly(c) == Send(c, answer[c].tag)

(* append_content: any text but blanks ends a group of citations. *)
AppendContent(c) ==
  Send(c, IF \E n \in DOMAIN Sent(c) : Sort(Sent(c)[n]) = "letter" THEN 0 ELSE answer[c].tag)

Cited(c) == Item(c).number + 1
Key(n) == <<Found[n].doc, Found[n].page>>

(* PlainAnswer.add_citation: the document and the page are written out. *)
CitePlain(c) ==
  answer' = [answer EXCEPT ![c].shown = Append(@, Number(Cited(c))), ![c].cited = Append(@, Cited(c))]

(* _cite_as_annotation: neighbours share a tag. *)
CiteAnnotation(c) ==
  LET a == answer[c]
      new == a.tag = 0
      tag == IF new THEN a.tags + 1 ELSE a.tag
      text == Only(a.shown, {"letter"})
  IN answer' = [answer EXCEPT ![c].tag = tag, ![c].tags = IF new THEN @ + 1 ELSE @,
                              ![c].shown = IF new THEN Append(@, Number(tag)) ELSE @,
                              ![c].notes = Append(@, [tag |-> tag, item |-> Cited(c), after |-> Len(text)]),
                              ![c].cited = Append(@, Cited(c))]

(* Mutant of CiteAttachment: documents are told apart, and pages are not. *)
CiteAttachmentOfDocument(c) ==
  LET a == answer[c]
      known == {n \in DOMAIN a.attached : a.attached[n][1] = Key(Cited(c))[1]}
      attached == IF known = {} THEN Append(a.attached, Key(Cited(c))) ELSE a.attached
      number == IF known = {} THEN Len(attached) ELSE CHOOSE n \in known : TRUE
  IN answer' = [answer EXCEPT ![c].attached = attached, ![c].shown = Append(@, Number(number)),
                              ![c].cited = Append(@, Cited(c))]

(* _cite_as_attachment: one attachment for each page of a document. *)
CiteAttachment(c) ==
  LET a == answer[c]
      known == {n \in DOMAIN a.attached : a.attached[n] = Key(Cited(c))}
      attached == IF known = {} THEN Append(a.attached, Key(Cited(c))) ELSE a.attached
      number == IF known = {} THEN Len(attached) ELSE CHOOSE n \in known : TRUE
  IN answer' = [answer EXCEPT ![c].attached = attached, ![c].shown = Append(@, Number(number)),
                              ![c].cited = Append(@, Cited(c))]

Cite(c) ==
  /\ IF Mode(c) = "plain" THEN CitePlain(c)
     ELSE IF Mode(c) = "annotation" THEN CiteAnnotation(c) ELSE CiteAttachment(c)
  /\ UNCHANGED <<present, opening>>
----------------------------------------------------------------------------
(* Sharing *)

Doc(c) == Found[Cited(c)].doc

(* The answers of the MCP server share nothing, and those of the chat what  *)
(* they have not shared yet.                                                *)
CiteShared(c) ==
  /\ Processing(c) /\ InRange(Item(c))
  /\ Mode(c) = "plain" \/ (locks[Doc(c)] = NoOne /\ Doc(c) \in chat[c].urls)
  /\ chat' = [chat EXCEPT ![c] = Took(c)]
  /\ Cite(c) /\ UNCHANGED locks

(* share_document, under the lock that all answers of the server use. *)
LockUrl(c) ==
  /\ Processing(c) /\ InRange(Item(c)) /\ Mode(c) # "plain"
  /\ locks[Doc(c)] = NoOne /\ Doc(c) \notin chat[c].urls
  /\ locks' = [locks EXCEPT ![Doc(c)] = c]
  /\ chat' = [chat EXCEPT ![c].pc = "share"]
  /\ UNCHANGED <<present, opening, answer>>

(* Mutant of FindDocument: the lock is kept when the document is gone. *)
FindDocumentLocked(c) ==
  /\ chat[c].pc = "share"
  /\ IF Doc(c) \in present THEN chat' = [chat EXCEPT ![c].pc = "copy"]
     ELSE chat' = [chat EXCEPT ![c].pc = "failed"]
  /\ UNCHANGED <<present, locks, opening, answer>>

Unlocked(c) == [locks EXCEPT ![Doc(c)] = NoOne]

(* The document is loaded, by its id; one that is gone fails the chat. *)
FindDocument(c) ==
  /\ chat[c].pc = "share"
  /\ IF Doc(c) \in present THEN chat' = [chat EXCEPT ![c].pc = "copy"] /\ UNCHANGED locks
     ELSE chat' = [chat EXCEPT ![c].pc = "failed"] /\ locks' = Unlocked(c)
  /\ UNCHANGED <<present, opening, answer>>

(* Its file is copied to the user, and the citation is written. *)
CopyToUser(c) ==
  /\ chat[c].pc = "copy"
  /\ locks' = Unlocked(c)
  /\ IF Doc(c) \in present
     THEN chat' = [chat EXCEPT ![c] = [Took(c) EXCEPT !.urls = @ \union {Doc(c)}]] /\ Cite(c)
     ELSE chat' = [chat EXCEPT ![c].pc = "failed"] /\ UNCHANGED <<present, opening, answer>>

DeleteDocument(d) ==
  /\ d \in present /\ Cardinality(Docs \ present) < MaxDeleted
  /\ present' = present \ {d}
  /\ UNCHANGED <<locks, opening, chat, answer>>

Step(c) ==
  \/ \E size \in 1..Len(chat[c].unread) : Receive(c, size)
  \/ EndStream(c) \/ AppendContent(c)
  \/ CiteShared(c) \/ LockUrl(c) \/ FindDocument(c) \/ CopyToUser(c)

Next == (\E c \in Chats : Step(c)) \/ (\E d \in Docs : DeleteDocument(d))

Spec == Init /\ [][Next]_vars

(* The model goes on to write, and the server to process. *)
FairSpec == Spec /\ \A c \in Chats : WF_vars(Step(c))
----------------------------------------------------------------------------
Ended(c) == chat[c].pc \in {"done", "failed"}

(* The types; a lock is held exactly while its chat shares the document. *)
TypeOK ==
  /\ present \subseteq Docs
  /\ \A c \in Chats :
       /\ chat[c].pc \in {"read", "share", "copy", "done", "failed"}
       /\ chat[c].urls \subseteq Docs
       /\ answer[c].tag \in 0..answer[c].tags
  /\ \A d \in Docs, c \in Chats :
       locks[d] = c <=> (chat[c].pc \in {"share", "copy"} /\ Doc(c) = d)

(* However the stream is cut into pieces, what was sent so far, what waits  *)
(* to be sent and what is held back are the text up to here: no reference   *)
(* is torn, and nothing is lost or sent twice.                              *)
StreamMatchesText ==
  \A c \in Chats :
    LET text == opening[c].text
        read == SubSeq(text, 1, Len(text) - Len(chat[c].unread))
        rest == chat[c].items \o Chars(chat[c].held)
    IN /\ Letters(answer[c].shown) \o Letters(rest) = Letters(Reading(read))
       /\ [n \in DOMAIN answer[c].cited |-> Number(answer[c].cited[n] - 1)] \o Only(rest, {"item"})
            = Only(Reading(read), {"item"})

(* A number in the answer is the number of an attachment, of the page that  *)
(* the model referred to at this place, and no page is attached twice.      *)
MarksMatch ==
  \A c \in Chats : Mode(c) = "attachment" =>
    LET a == answer[c] marks == Numbers(a.shown) IN
    /\ Len(marks) = Len(a.cited)
    /\ \A n \in DOMAIN marks :
         /\ marks[n].number \in DOMAIN a.attached
         /\ a.attached[marks[n].number] = Key(a.cited[n])
    /\ \A m, n \in DOMAIN a.attached : a.attached[m] = a.attached[n] => m = n

(* Two citations share a tag if and only if nothing but blanks stands       *)
(* between them, so a group never reaches over text that it does not cite.  *)
TagsFollowText ==
  \A c \in Chats : \A m, n \in DOMAIN answer[c].notes :
    LET notes == answer[c].notes IN
      notes[m].tag = notes[n].tag <=> notes[m].after = notes[n].after

(* Every chat ends, though others fail while they hold a lock it needs. *)
AnswersEnd == \A c \in Chats : <>Ended(c)
============================================================================
