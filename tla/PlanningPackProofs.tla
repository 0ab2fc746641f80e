------------------------- MODULE PlanningPackProofs -------------------------
(***************************************************************************)
(* PlanningPack, proved for every request: its texts may have any number   *)
(* of words of any kind.                                                   *)
(*                                                                         *)
(* The scope is a concatenation.  A heading line that is followed by a     *)
(* ready status stays one whatever is put before or after, so open tasks   *)
(* and the status lines that LeavesStatus describes are found.  Without    *)
(* those, its parts are silent: no status has a line to itself even where  *)
(* a part's ends count as line breaks, and so does none of what they make  *)
(* up; only the name's last line, at the top, is excepted, which no        *)
(* heading precedes.                                                       *)
(*                                                                         *)
(* The section cut out of the PRD is silent inside because the PRD is; what*)
(* its first and last line are depends on the text the cut begins and ends *)
(* in.  The PRD has name, notes, its own first heading, description and its*)
(* own second heading at five known places, nothing before a place quotes  *)
(* a heading that the earlier ones do not, and so the first of each heading*)
(* is found by cases.  GuardedRunner's invariant carries over, because     *)
(* every step here is a step there.                                        *)
(***************************************************************************)
EXTENDS PlanningPack, GuardedRunnerProofs, SequenceTheorems, FiniteSetTheorems

\* The words of a concatenation.
LEMMA Joined ==
  ASSUME NEW s \in Seq(Word), NEW u \in Seq(Word)
  PROVE  /\ s \o u \in Seq(Word) /\ Len(s \o u) = Len(s) + Len(u)
         /\ Len(s) \in Nat /\ Len(u) \in Nat
         /\ \A i \in 1 .. Len(s) : (s \o u)[i] = s[i]
         /\ \A i \in 1 .. Len(u) : (s \o u)[Len(s) + i] = u[i]
  OBVIOUS

\* What the generator writes itself, and what it makes of a text.
LEMMA RenderedType ==
  ASSUME NEW t \in Seq(Word)
  PROVE  /\ Section(t) \in Seq(Word) /\ Within(t) \in Seq(Word) /\ Item(t) \in Seq(Word)
         /\ Lowered(t) \in Seq(Word)
<1>1. <<"newline", "heading", "newline">> \in Seq(Word) /\ <<"plain">> \in Seq(Word)
      /\ <<"newline">> \in Seq(Word)
  BY DEF Word
<1>2. Section(t) \in Seq(Word) /\ Within(t) \in Seq(Word) /\ Item(t) \in Seq(Word)
  BY <1>1 DEF Section, Within, Item
<1>3. Lowered(t) \in Seq(Word)
  <2>1. t \in [1 .. Len(t) -> Word] /\ Len(t) \in Nat /\ DOMAIN t = 1 .. Len(t)
    OBVIOUS
  <2>2. \A i \in 1 .. Len(t) :
          (IF t[i] \in {"criteria", "testing"} THEN "heading" ELSE t[i]) \in Word
    BY <2>1 DEF Word
  <2>3. Lowered(t) \in [1 .. Len(t) -> Word]
    BY <2>1, <2>2 DEF Lowered
  <2> QED
    BY <2>1, <2>3
<1> QED
  BY <1>2, <1>3

\* The fixed words between the texts.
LEMMA WrittenType ==
  /\ <<"plain">> \in Seq(Word) /\ <<"newline">> \in Seq(Word)
  /\ <<"newline", "heading", "newline">> \in Seq(Word)
  /\ <<"newline", "criteria", "newline">> \in Seq(Word)
  /\ <<"newline", "testing", "newline", "plain">> \in Seq(Word)
  /\ <<"criteria">> \in Seq(Word) /\ <<"testing">> \in Seq(Word)
  /\ \A b \in BOOLEAN : Status(b) \in Word /\ <<Status(b)>> \in Seq(Word)
                        /\ <<Status(b), "newline">> \in Seq(Word)
  BY DEF Word, Status

LEMMA TextType ==
  ASSUME NEW r \in Requests
  PROVE  /\ r.name \in Seq(Word) /\ r.description \in Seq(Word) /\ r.notes \in Seq(Word)
         /\ Len(r.name) >= 1 /\ Len(r.description) >= 1 /\ Len(r.notes) >= 1
  BY RequestAssumption DEF Text

-----------------------------------------------------------------------------
(***************************************************************************)
(* What the scan finds.                                                    *)
(***************************************************************************)

\* Inside the words, so that nothing around them matters, a line begins with
\* a heading, and a later one is a ready status.
HeadIn(s, h) ==
  h \in 2 .. Len(s) /\ s[h - 1] = "newline" /\ s[h] \in {"heading", "criteria", "testing"}
ReadyIn(s, k) ==
  k \in 2 .. Len(s) - 1 /\ s[k - 1] = "newline" /\ s[k] = "status" /\ s[k + 1] = "newline"
Open(s) == s \in Seq(Word) /\ \E h, k \in Nat : h < k /\ HeadIn(s, h) /\ ReadyIn(s, k)

\* Words added behind hide no open task.
LEMMA OpenBehind ==
  ASSUME NEW s, NEW u \in Seq(Word), Open(s)
  PROVE  Open(s \o u)
<1>1. PICK h \in Nat, k \in Nat : h < k /\ HeadIn(s, h) /\ ReadyIn(s, k)
  BY DEF Open
<1>2. s \in Seq(Word)
  BY DEF Open
<1>3. /\ s \o u \in Seq(Word) /\ Len(s \o u) = Len(s) + Len(u)
      /\ Len(s) \in Nat /\ Len(u) \in Nat
      /\ \A i \in 1 .. Len(s) : (s \o u)[i] = s[i]
  BY <1>2
<1>4. HeadIn(s \o u, h)
  BY <1>1, <1>3 DEF HeadIn
<1>5. ReadyIn(s \o u, k)
  BY <1>1, <1>3 DEF ReadyIn
<1> QED
  BY <1>1, <1>3, <1>4, <1>5 DEF Open

\* Nor do words added in front.
LEMMA OpenInFront ==
  ASSUME NEW s \in Seq(Word), NEW u, Open(u)
  PROVE  Open(s \o u)
<1>1. PICK h \in Nat, k \in Nat : h < k /\ HeadIn(u, h) /\ ReadyIn(u, k)
  BY DEF Open
<1>2. u \in Seq(Word)
  BY DEF Open
<1>3. /\ s \o u \in Seq(Word) /\ Len(s \o u) = Len(s) + Len(u)
      /\ Len(s) \in Nat /\ Len(u) \in Nat
      /\ \A i \in 1 .. Len(u) : (s \o u)[Len(s) + i] = u[i]
  BY <1>2
<1>4. HeadIn(s \o u, Len(s) + h)
  <2>1. h \in 2 .. Len(u) /\ h - 1 \in 1 .. Len(u) /\ h \in 1 .. Len(u)
    BY <1>1 DEF HeadIn
  <2>2. (s \o u)[Len(s) + (h - 1)] = u[h - 1] /\ (s \o u)[Len(s) + h] = u[h]
    BY <1>3, <2>1
  <2>3. Len(s) + (h - 1) = Len(s) + h - 1 /\ Len(s) + h \in 2 .. Len(s \o u)
    BY <1>3, <2>1
  <2> QED
    BY <1>1, <2>2, <2>3 DEF HeadIn
<1>5. ReadyIn(s \o u, Len(s) + k)
  <2>1. k \in 2 .. Len(u) - 1 /\ k - 1 \in 1 .. Len(u) /\ k \in 1 .. Len(u) /\ k + 1 \in 1 .. Len(u)
    BY <1>1, <1>3 DEF ReadyIn
  <2>2. /\ (s \o u)[Len(s) + (k - 1)] = u[k - 1] /\ (s \o u)[Len(s) + k] = u[k]
        /\ (s \o u)[Len(s) + (k + 1)] = u[k + 1]
    BY <1>3, <2>1
  <2>3. /\ Len(s) + (k - 1) = Len(s) + k - 1 /\ Len(s) + (k + 1) = Len(s) + k + 1
        /\ Len(s) + k \in 2 .. Len(s \o u) - 1
    BY <1>3, <2>1
  <2> QED
    BY <1>1, <2>2, <2>3 DEF ReadyIn
<1>6. Len(s) + h < Len(s) + k /\ Len(s) + h \in Nat /\ Len(s) + k \in Nat
  BY <1>1, <1>3
<1> QED
  BY <1>3, <1>4, <1>5, <1>6 DEF Open

\* A status that has a line of a section to itself, if the section's ends
\* count as line breaks, is open below the section's heading: another
\* section, or a line break, follows.
LEMMA StatusUnderHeading ==
  ASSUME NEW body \in Seq(Word), NEW u \in Seq(Word), NEW k \in 1 .. Len(body),
         body[k] = "status", StartsLine(body, k), EndsLine(body, k),
         k = Len(body) => Len(u) >= 1 /\ u[1] = "newline"
  PROVE  Open(Section(body) \o u)
<1> DEFINE head == <<"newline", "heading", "newline">>
           s == head \o body
           d == s \o u
<1>1. /\ head \in Seq(Word) /\ Len(head) = 3
      /\ head[1] = "newline" /\ head[2] = "heading" /\ head[3] = "newline"
  BY DEF Word
<1> HIDE DEF head
<1>2. /\ s \in Seq(Word) /\ Len(s) = 3 + Len(body) /\ Len(body) \in Nat
      /\ \A i \in 1 .. 3 : s[i] = head[i]
      /\ \A i \in 1 .. Len(body) : s[3 + i] = body[i]
  <2>1. /\ head \o body \in Seq(Word) /\ Len(head \o body) = Len(head) + Len(body)
        /\ Len(body) \in Nat
        /\ \A i \in 1 .. Len(head) : (head \o body)[i] = head[i]
        /\ \A i \in 1 .. Len(body) : (head \o body)[Len(head) + i] = body[i]
    BY <1>1, Joined, Zenon
  <2> QED
    BY <1>1, <2>1
<1> HIDE DEF s
<1>3. /\ d \in Seq(Word) /\ Len(d) = Len(s) + Len(u) /\ Len(u) \in Nat
      /\ \A i \in 1 .. Len(s) : d[i] = s[i]
      /\ \A i \in 1 .. Len(u) : d[Len(s) + i] = u[i]
  BY <1>2, Joined, Zenon
<1> HIDE DEF d
<1>4. HeadIn(d, 2)
  BY <1>1, <1>2, <1>3 DEF HeadIn
<1>5. ASSUME NEW j \in 1 .. Len(body), NEW i \in Nat, i = 3 + j
      PROVE  d[i] = body[j] /\ i \in 1 .. Len(d)
  <2>1. i \in 1 .. Len(s) /\ s[3 + j] = body[j]
    BY <1>2, <1>5
  <2>2. d[i] = s[i]
    BY <1>3, <2>1
  <2> QED
    BY <1>2, <1>3, <1>5, <2>1, <2>2
<1>6. ReadyIn(d, 3 + k)
  <2>1. d[3 + k] = "status"
    BY <1>5
  <2>2. d[3 + k - 1] = "newline"
    <3>1. CASE k = 1
      <4>1. 3 \in 1 .. Len(s) /\ 3 \in 1 .. 3 /\ 3 + k - 1 = 3
        BY <1>2, <3>1
      <4>2. d[3] = "newline"
        BY <1>1, <1>2, <1>3, <4>1
      <4> QED
        BY <4>1, <4>2
    <3>2. CASE k # 1
      <4>1. body[k - 1] = "newline" /\ k - 1 \in 1 .. Len(body)
        BY <1>2, <3>2 DEF StartsLine
      <4>2. 3 + k - 1 \in Nat /\ 3 + k - 1 = 3 + (k - 1)
        OBVIOUS
      <4> QED
        BY <1>5, <4>1, <4>2
    <3> QED
      BY <3>1, <3>2
  <2>3. d[3 + k + 1] = "newline"
    <3>1. CASE k = Len(body)
      <4>1. d[Len(s) + 1] = u[1] /\ u[1] = "newline"
        BY <1>3, <3>1
      <4>2. Len(s) + 1 = 3 + k + 1
        BY <1>2, <3>1
      <4> QED
        BY <4>1, <4>2
    <3>2. CASE k # Len(body)
      <4>1. body[k + 1] = "newline" /\ k + 1 \in 1 .. Len(body)
        BY <1>2, <3>2 DEF EndsLine
      <4>2. 3 + k + 1 \in Nat /\ 3 + k + 1 = 3 + (k + 1)
        OBVIOUS
      <4> QED
        BY <1>5, <4>1, <4>2
    <3> QED
      BY <3>1, <3>2
  <2>4. 3 + k \in 2 .. Len(d) - 1
    <3>1. k + 1 <= Len(body) + Len(u)
      BY <1>2, <1>3
    <3> QED
      BY <1>2, <1>3, <3>1
  <2> QED
    BY <2>1, <2>2, <2>3, <2>4 DEF ReadyIn
<1>7. 2 \in Nat /\ 3 + k \in Nat /\ 2 < 3 + k
  OBVIOUS
<1>8. Open(d)
  BY <1>3, <1>4, <1>6, <1>7 DEF Open
<1>9. Section(body) = s
  BY DEF s, head, Section
<1> QED
  BY <1>8, <1>9 DEF d

\* A ready status inside a section makes the section open to the scan.
LEMMA StatusInSection ==
  ASSUME NEW body \in Seq(Word), NEW k \in 1 .. Len(body) - 1,
         body[k] = "status", StartsLine(body, k), body[k + 1] = "newline"
  PROVE  Open(Section(body))
<1> DEFINE none == <<>>
<1>1. none \in Seq(Word) /\ k \in 1 .. Len(body) /\ k # Len(body) /\ EndsLine(body, k)
  BY DEF EndsLine
<1> HIDE DEF none
<1>2. Open(Section(body) \o none)
  BY <1>1, StatusUnderHeading
<1>3. Section(body) \o none = Section(body)
  BY RenderedType, ConcatEmptySeq DEF none
<1> QED
  BY <1>2, <1>3

\* The loop's scan finds what is open.
LEMMA OpenIsScanned ==
  ASSUME NEW r, NEW done, Open(FeatureScope(r, done))
  PROVE  hasReadyInternalTask(FileOf(r, done))
<1> DEFINE s == FeatureScope(r, done)
           f == [i \in DOMAIN s |-> LineAt(s, i)]
<1>1. Open(s)
  OBVIOUS
<1>2. f = FileOf(r, done)
  BY DEF FileOf
<1> HIDE DEF s
<1>3. s \in Seq(Word) /\ DOMAIN s = 1 .. Len(s) /\ Len(s) \in Nat /\ DOMAIN f = DOMAIN s
  BY <1>1 DEF Open
<1>4. PICK h \in Nat, k \in Nat : h < k /\ HeadIn(s, h) /\ ReadyIn(s, k)
  BY <1>1 DEF Open
<1>5. h \in DOMAIN s /\ LineAt(s, h) = "heading"
  BY <1>3, <1>4 DEF HeadIn, LineAt, StartsLine
<1>6. k \in DOMAIN s /\ LineAt(s, k) = "ready"
  BY <1>3, <1>4 DEF ReadyIn, LineAt, StartsLine, EndsLine
<1>7. f[h] = "heading" /\ f[k] = "ready" /\ h \in DOMAIN f /\ k \in DOMAIN f
  BY <1>3, <1>5, <1>6
<1> HIDE DEF f
<1> QED
  BY <1>2, <1>4, <1>7 DEF hasReadyInternalTask

-----------------------------------------------------------------------------
(***************************************************************************)
(* The documents and what they quote.                                      *)
(***************************************************************************)

\* Joined words quote what either part quotes.
LEMMA QuotesSplit ==
  ASSUME NEW s \in Seq(Word), NEW u \in Seq(Word), NEW h
  PROVE  Quotes(s \o u, h) <=> Quotes(s, h) \/ Quotes(u, h)
<1> DEFINE d == s \o u
<1>1. /\ d \in Seq(Word) /\ Len(d) = Len(s) + Len(u) /\ Len(s) \in Nat /\ Len(u) \in Nat
      /\ \A i \in 1 .. Len(s) : d[i] = s[i]
      /\ \A i \in 1 .. Len(u) : d[Len(s) + i] = u[i]
  OBVIOUS
<1>2. DOMAIN d = 1 .. Len(d) /\ DOMAIN s = 1 .. Len(s) /\ DOMAIN u = 1 .. Len(u)
  BY <1>1
<1> HIDE DEF d
<1>3. ASSUME NEW i \in DOMAIN d, d[i] = h PROVE Quotes(s, h) \/ Quotes(u, h)
  <2>1. CASE i <= Len(s)
    <3>1. i \in DOMAIN s /\ d[i] = s[i]
      BY <1>1, <1>2, <2>1
    <3> QED
      BY <1>3, <3>1 DEF Quotes
  <2>2. CASE i > Len(s)
    <3> DEFINE j == i - Len(s)
    <3>1. j \in DOMAIN u /\ i = Len(s) + j
      BY <1>1, <1>2, <2>2
    <3> HIDE DEF j
    <3>2. d[i] = u[j]
      BY <1>1, <1>2, <3>1
    <3> QED
      BY <1>3, <3>1, <3>2 DEF Quotes
  <2> QED
    BY <1>1, <1>2, <2>1, <2>2
<1>4. ASSUME NEW i \in DOMAIN s, s[i] = h PROVE Quotes(d, h)
  <2>1. i \in DOMAIN d /\ d[i] = h
    BY <1>1, <1>2, <1>4
  <2> QED
    BY <2>1 DEF Quotes
<1>5. ASSUME NEW j \in DOMAIN u, u[j] = h PROVE Quotes(d, h)
  <2>1. Len(s) + j \in DOMAIN d /\ d[Len(s) + j] = h
    BY <1>1, <1>2, <1>5
  <2> QED
    BY <2>1 DEF Quotes
<1>6. Quotes(d, h) <=> Quotes(s, h) \/ Quotes(u, h)
  BY <1>3, <1>4, <1>5 DEF Quotes
<1> QED
  BY <1>6 DEF d

\* What the fixed words quote.
LEMMA WrittenQuotes ==
  ASSUME NEW h \in {"criteria", "testing"}
  PROVE  /\ ~Quotes(<<"plain">>, h) /\ ~Quotes(<<"newline">>, h)
         /\ ~Quotes(<<"newline", "heading", "newline">>, h)
         /\ Quotes(<<"newline", "criteria", "newline">>, h) <=> h = "criteria"
         /\ Quotes(<<"criteria">>, h) <=> h = "criteria"
         /\ Quotes(<<"testing">>, h) <=> h = "testing"
  BY DEF Quotes

\* Rendering adds no heading that the cut looks for, and Lowered removes them.
LEMMA RenderedQuotes ==
  ASSUME NEW t \in Seq(Word), NEW h \in {"criteria", "testing"}
  PROVE  /\ Quotes(Section(t), h) <=> Quotes(t, h)
         /\ Quotes(Within(t), h) <=> Quotes(t, h)
         /\ ~Quotes(Lowered(t), h)
<1> DEFINE p == <<"plain">>
           head == <<"newline", "heading", "newline">>
<1>1. p \in Seq(Word) /\ head \in Seq(Word) /\ ~Quotes(p, h) /\ ~Quotes(head, h)
  BY WrittenType, WrittenQuotes
<1>2. Section(t) = head \o t /\ Within(t) = p \o t \o p
  BY DEF Section, Within
<1> HIDE DEF p, head
<1>3. Quotes(head \o t, h) <=> Quotes(t, h)
  BY <1>1, QuotesSplit
<1>4. p \o t \in Seq(Word) /\ (Quotes(p \o t, h) <=> Quotes(t, h))
  BY <1>1, QuotesSplit
<1>5. Quotes(p \o t \o p, h) <=> Quotes(t, h)
  BY <1>1, <1>4, QuotesSplit
<1>6. ~Quotes(Lowered(t), h)
  BY DEF Quotes, Lowered
<1> QED
  BY <1>2, <1>3, <1>5, <1>6

\* A document's first word that is the heading h.
LEMMA IndexOfFirst ==
  ASSUME NEW doc \in Seq(Word), NEW h, Quotes(doc, h)
  PROVE  /\ IndexOf(doc, h) \in 1 .. Len(doc)
         /\ doc[IndexOf(doc, h)] = h
         /\ \A k \in 1 .. IndexOf(doc, h) - 1 : doc[k] # h
<1> DEFINE First(i) == doc[i] = h /\ \A k \in 1 .. i - 1 : doc[k] # h
           Hits == {i \in DOMAIN doc : doc[i] = h}
           Less == {ss \in Nat \X Nat : ss[1] < ss[2]}
<1>1. Hits \subseteq Nat /\ Hits # {}
  BY DEF Quotes
<1>2. IsWellFoundedOn(Less, Nat)
  BY NatLessThanWellFounded DEF OpToRel
<1>3. \E i \in Hits : \A k \in Hits : ~(<<k, i>> \in Less)
  <2> HIDE DEF Hits, Less
  <2> QED
    BY <1>1, <1>2, WFMin
<1>4. PICK m \in Hits : \A k \in Hits : ~(k < m)
  BY <1>1, <1>3
<1>5. m \in DOMAIN doc /\ First(m)
  <2>1. \A k \in 1 .. m - 1 : k \in DOMAIN doc /\ k < m
    OBVIOUS
  <2> QED
    BY <1>4, <2>1
<1>6. IndexOf(doc, h) = CHOOSE i \in DOMAIN doc : First(i)
  BY DEF IndexOf
<1> HIDE DEF First
<1>7. IndexOf(doc, h) \in DOMAIN doc /\ First(IndexOf(doc, h))
  BY <1>5, <1>6
<1> QED
  BY <1>7 DEF First

\* The PRD up to the end of each of its sections.
PrdProblem(r) == <<"plain">> \o Section(r.name \o <<"plain">>)
PrdSolution(r) == PrdProblem(r) \o Section(Within(r.name))
Stories(r) ==
  Within(r.name) \o Within(Lowered(r.description)) \o <<"newline">> \o Within(r.notes)
PrdStories(r) == PrdSolution(r) \o Section(Stories(r))
PrdDecisions(r) == PrdStories(r) \o Section(Within(r.name))
PrdOpened(r) == PrdDecisions(r) \o <<"newline", "criteria", "newline">>
PrdListed(r) == PrdOpened(r) \o AcceptanceCriteria(r)
PrdClosed(r) == PrdListed(r) \o <<"newline", "testing", "newline", "plain">>

\* The parts of the PRD, named by where they end, and how they make it up.
LEMMA PrdType ==
  ASSUME NEW r \in Requests
  PROVE  /\ PrdProblem(r) \in Seq(Word) /\ PrdSolution(r) \in Seq(Word)
         /\ PrdStories(r) \in Seq(Word) /\ PrdDecisions(r) \in Seq(Word)
         /\ PrdOpened(r) \in Seq(Word) /\ PrdListed(r) \in Seq(Word)
         /\ PrdClosed(r) \in Seq(Word) /\ GeneratedPrd(r) \in Seq(Word)
         /\ Stories(r) \in Seq(Word) /\ AcceptanceCriteria(r) \in Seq(Word)
         /\ GeneratedPrd(r) = PrdClosed(r) \o Section(<<"plain">>) \o Section(<<"plain">>)
                                \o Section(Item(r.description) \o Item(r.notes))
<1> DEFINE p == <<"plain">>
           n == <<"newline">>
           c == <<"newline", "criteria", "newline">>
           e == <<"newline", "testing", "newline", "plain">>
<1>1. /\ r.name \in Seq(Word) /\ r.description \in Seq(Word) /\ r.notes \in Seq(Word)
      /\ p \in Seq(Word) /\ n \in Seq(Word) /\ c \in Seq(Word) /\ e \in Seq(Word)
  BY TextType, WrittenType
<1> HIDE DEF p, n, c, e
<1>2. Lowered(r.description) \in Seq(Word) /\ Within(r.name) \in Seq(Word)
      /\ Within(r.description) \in Seq(Word) /\ Within(r.notes) \in Seq(Word)
      /\ Item(r.description) \in Seq(Word) /\ Item(r.notes) \in Seq(Word)
  BY <1>1, RenderedType
<1>3. Within(Lowered(r.description)) \in Seq(Word)
  BY <1>2, RenderedType
<1>4. Stories(r) \in Seq(Word)
  BY <1>1, <1>2, <1>3 DEF Stories, n
<1>5. AcceptanceCriteria(r) \in Seq(Word)
  BY <1>1, <1>2 DEF AcceptanceCriteria, n
<1>6. r.name \o p \in Seq(Word) /\ Item(r.description) \o Item(r.notes) \in Seq(Word)
  BY <1>1, <1>2
<1>7. /\ Section(r.name \o p) \in Seq(Word) /\ Section(Within(r.name)) \in Seq(Word)
      /\ Section(Stories(r)) \in Seq(Word) /\ Section(p) \in Seq(Word)
      /\ Section(Item(r.description) \o Item(r.notes)) \in Seq(Word)
  BY <1>1, <1>2, <1>4, <1>6, RenderedType
<1>8. PrdProblem(r) \in Seq(Word)
  BY <1>1, <1>7 DEF PrdProblem, p
<1>9. PrdSolution(r) \in Seq(Word)
  BY <1>7, <1>8 DEF PrdSolution
<1>10. PrdStories(r) \in Seq(Word)
  BY <1>7, <1>9 DEF PrdStories
<1>11. PrdDecisions(r) \in Seq(Word)
  BY <1>7, <1>10 DEF PrdDecisions
<1>12. PrdOpened(r) \in Seq(Word)
  BY <1>1, <1>11 DEF PrdOpened, c
<1>13. PrdListed(r) \in Seq(Word)
  BY <1>5, <1>12 DEF PrdListed
<1>14. PrdClosed(r) \in Seq(Word)
  BY <1>1, <1>13 DEF PrdClosed, e
<1>15. GeneratedPrd(r) = PrdClosed(r) \o Section(p) \o Section(p)
                           \o Section(Item(r.description) \o Item(r.notes))
  BY DEF GeneratedPrd, PrdClosed, PrdListed, PrdOpened, PrdDecisions, PrdStories,
         PrdSolution, PrdProblem, Stories, p, c, e, n
<1>16. GeneratedPrd(r) \in Seq(Word)
  BY <1>7, <1>14, <1>15
<1> QED
  BY <1>4, <1>5, <1>8, <1>9, <1>10, <1>11, <1>12, <1>13, <1>14, <1>15, <1>16 DEF p

\* It has both headings, whatever the request says.
LEMMA PrdQuotes ==
  ASSUME NEW r \in Requests, NEW h \in {"criteria", "testing"}
  PROVE  Quotes(GeneratedPrd(r), h)
<1> DEFINE c == <<"newline", "criteria", "newline">>
           e == <<"newline", "testing", "newline", "plain">>
           p == Section(<<"plain">>)
           last == Section(Item(r.description) \o Item(r.notes))
<1>1. c \in Seq(Word) /\ e \in Seq(Word) /\ p \in Seq(Word) /\ last \in Seq(Word)
  <2>1. Item(r.description) \in Seq(Word) /\ Item(r.notes) \in Seq(Word)
    BY TextType, RenderedType
  <2>2. Item(r.description) \o Item(r.notes) \in Seq(Word) /\ <<"plain">> \in Seq(Word)
    BY <2>1, WrittenType
  <2> QED
    BY <2>2, WrittenType, RenderedType
<1>2. Quotes(c, "criteria") /\ Quotes(e, "testing")
  BY DEF Quotes
<1> HIDE DEF c, e, p, last
<1>3. Quotes(PrdOpened(r), "criteria")
  <2>1. PrdOpened(r) = PrdDecisions(r) \o c
    BY DEF PrdOpened, c
  <2> QED
    BY <1>1, <1>2, <2>1, PrdType, QuotesSplit
<1>4. Quotes(PrdListed(r), "criteria")
  BY <1>3, PrdType, QuotesSplit DEF PrdListed
<1>5. Quotes(PrdClosed(r), h)
  <2>1. PrdClosed(r) = PrdListed(r) \o e
    BY DEF PrdClosed, e
  <2>2. PrdListed(r) \in Seq(Word)
    BY PrdType
  <2>3. h \in {"criteria", "testing"}
    OBVIOUS
  <2> QED
    BY <1>1, <1>2, <1>4, <2>1, <2>2, <2>3, QuotesSplit
<1>6. Quotes(PrdClosed(r) \o p, h) /\ PrdClosed(r) \o p \in Seq(Word)
  <2>1. PrdClosed(r) \in Seq(Word)
    BY PrdType
  <2> QED
    BY <1>1, <1>5, <2>1, QuotesSplit
<1>7. Quotes(PrdClosed(r) \o p \o p, h) /\ PrdClosed(r) \o p \o p \in Seq(Word)
  BY <1>1, <1>6, QuotesSplit, Joined, Zenon
<1>8. Quotes(PrdClosed(r) \o p \o p \o last, h)
  BY <1>1, <1>7, QuotesSplit
<1> QED
  BY <1>8, PrdType DEF p, last

\* What is cut out of it is a sequence of its words.
LEMMA SectionType ==
  ASSUME NEW r \in Requests
  PROVE  extractSection(GeneratedPrd(r)) \in Seq(Word)
<1> DEFINE doc == GeneratedPrd(r)
           start == IndexOf(doc, "criteria")
           end == IndexOf(doc, "testing")
<1>1. doc \in Seq(Word) /\ Quotes(doc, "criteria") /\ Quotes(doc, "testing")
  BY PrdType, PrdQuotes
<1> HIDE DEF doc
<1>2. \A h : Quotes(doc, h) => IndexOf(doc, h) \in 1 .. Len(doc)
  BY <1>1, IndexOfFirst
<1>3. start \in 1 .. Len(doc) /\ end \in 1 .. Len(doc)
  BY <1>1, <1>2
<1>4. extractSection(doc) =
        IF end <= start THEN <<"plain">> ELSE SubSeq(doc, start + 1, end - 1)
  BY DEF extractSection
<1> HIDE DEF start, end
<1>5. SubSeq(doc, start + 1, end - 1) \in Seq(Word)
  BY <1>1, <1>3
<1>6. extractSection(doc) \in Seq(Word)
  BY <1>4, <1>5, WrittenType
<1> QED
  BY <1>6 DEF doc

-----------------------------------------------------------------------------

\* The scope up to the end of each of its sections before the tasks.
ScopeTitle(r, done) == Item(r.name) \o <<Status(done = Tasks)>>
ScopeSummary(r, done) == ScopeTitle(r, done) \o Section(Within(r.name))
ScopeBrief(r, done) ==
  ScopeSummary(r, done) \o Section(Item(r.description) \o Item(r.notes))
ScopeContext(r, done) == ScopeBrief(r, done) \o Section(<<"plain">>)
ScopeMapping(r, done) == ScopeContext(r, done) \o Section(extractSection(GeneratedPrd(r)))

\* The parts of the feature scope likewise.
LEMMA ScopeType ==
  ASSUME NEW r \in Requests, NEW done
  PROVE  /\ ScopeTitle(r, done) \in Seq(Word) /\ ScopeSummary(r, done) \in Seq(Word)
         /\ ScopeBrief(r, done) \in Seq(Word) /\ ScopeContext(r, done) \in Seq(Word)
         /\ ScopeMapping(r, done) \in Seq(Word) /\ ScopeHead(r, done) \in Seq(Word)
         /\ ScopeHead(r, done) = ScopeMapping(r, done) \o Section(<<"plain">>)
<1> DEFINE p == <<"plain">>
           b == Status(done = Tasks)
           x == extractSection(GeneratedPrd(r))
           brief == Item(r.description) \o Item(r.notes)
<1>1. r.name \in Seq(Word) /\ r.description \in Seq(Word) /\ r.notes \in Seq(Word)
  BY TextType
<1>2. p \in Seq(Word) /\ <<b>> \in Seq(Word) /\ x \in Seq(Word)
  <2>1. <<b>> \in Seq(Word)
    BY DEF Status, Word
  <2> QED
    BY <2>1, WrittenType, SectionType
<1>3. Item(r.name) \in Seq(Word) /\ Within(r.name) \in Seq(Word) /\ brief \in Seq(Word)
  BY <1>1, RenderedType
<1> HIDE DEF p, b, x, brief
<1>4. /\ Section(Within(r.name)) \in Seq(Word) /\ Section(brief) \in Seq(Word)
      /\ Section(p) \in Seq(Word) /\ Section(x) \in Seq(Word)
  BY <1>2, <1>3, RenderedType
<1>5. ScopeTitle(r, done) \in Seq(Word)
  BY <1>2, <1>3 DEF ScopeTitle, b
<1>6. ScopeSummary(r, done) \in Seq(Word)
  BY <1>4, <1>5 DEF ScopeSummary
<1>7. ScopeBrief(r, done) \in Seq(Word)
  BY <1>4, <1>6 DEF ScopeBrief, brief
<1>8. ScopeContext(r, done) \in Seq(Word)
  BY <1>4, <1>7 DEF ScopeContext, p
<1>9. ScopeMapping(r, done) \in Seq(Word)
  BY <1>4, <1>8 DEF ScopeMapping, x
<1>10. ScopeHead(r, done) = ScopeMapping(r, done) \o Section(p)
  BY DEF ScopeHead, ScopeMapping, ScopeContext, ScopeBrief, ScopeSummary, ScopeTitle, p
<1>11. ScopeHead(r, done) \in Seq(Word)
  BY <1>4, <1>9, <1>10
<1> QED
  BY <1>5, <1>6, <1>7, <1>8, <1>9, <1>10, <1>11 DEF p

\* A task that is not done is open to the scan.
LEMMA TaskType ==
  ASSUME NEW t, NEW done, NEW body \in Seq(Word)
  PROVE  /\ Task(t, done, body) \in Seq(Word)
         /\ t \notin done => Open(Task(t, done, body))
<1> DEFINE b == Status(t \in done)
           s == <<b, "newline">>
           u == s \o body
<1>1. s \in Seq(Word) /\ Len(s) = 2 /\ s[1] = b /\ s[2] = "newline"
  BY DEF Status, Word
<1>2. t \notin done => b = "status"
  BY DEF Status
<1> HIDE DEF b, s
<1>3. u \in Seq(Word) /\ Len(u) >= 2 /\ u[1] = b /\ u[2] = "newline"
  <2>1. /\ u \in Seq(Word) /\ Len(u) = Len(s) + Len(body) /\ Len(body) \in Nat
        /\ \A i \in 1 .. Len(s) : u[i] = s[i]
    BY <1>1, Joined, Zenon
  <2> QED
    BY <1>1, <2>1
<1>4. Task(t, done, body) = Section(u)
  BY DEF Task, u, s, b
<1> HIDE DEF u
<1>5. Section(u) \in Seq(Word)
  BY <1>3, RenderedType
<1>6. ASSUME t \notin done PROVE Open(Section(u))
  <2>1. 1 \in 1 .. Len(u) - 1 /\ StartsLine(u, 1) /\ u[1 + 1] = "newline" /\ u[1] = "status"
    BY <1>2, <1>3, <1>6 DEF StartsLine
  <2> QED
    BY <1>3, <2>1, StatusInSection
<1> QED
  BY <1>4, <1>5, <1>6

\* While one of the three tasks is not done, the scope has an open one: no
\* text of the request hides it.
LEMMA ScopeShowsOpenTask ==
  ASSUME NEW r \in Requests, NEW done \in SUBSET Tasks, done # Tasks
  PROVE  Open(FeatureScope(r, done))
<1> DEFINE t1 == Task(1, done, Within(r.name) \o Within(r.notes))
           t2 == Task(2, done, Within(r.notes))
           t3 == Task(3, done, <<"plain">>)
<1>1. Within(r.name) \o Within(r.notes) \in Seq(Word) /\ Within(r.notes) \in Seq(Word)
  BY TextType, RenderedType
<1>2. /\ t1 \in Seq(Word) /\ t2 \in Seq(Word) /\ t3 \in Seq(Word)
      /\ 1 \notin done => Open(t1)
      /\ 2 \notin done => Open(t2)
      /\ 3 \notin done => Open(t3)
  <2>1. <<"plain">> \in Seq(Word)
    BY WrittenType
  <2>2. t1 \in Seq(Word) /\ (1 \notin done => Open(t1))
    BY <1>1, TaskType
  <2>3. t2 \in Seq(Word) /\ (2 \notin done => Open(t2))
    BY <1>1, TaskType
  <2>4. t3 \in Seq(Word) /\ (3 \notin done => Open(t3))
    BY <2>1, TaskType
  <2> QED
    BY <2>2, <2>3, <2>4
<1>3. 1 \notin done \/ 2 \notin done \/ 3 \notin done
  <2>1. PICK t \in Tasks : t \notin done
    OBVIOUS
  <2>2. t \in {1, 2, 3}
    BY DEF Tasks
  <2> QED
    BY <2>1, <2>2
<1>4. TaskList(r, done) = t1 \o t2 \o t3
  BY DEF TaskList
<1> HIDE DEF t1, t2, t3
<1>5. t1 \o t2 \in Seq(Word)
  BY <1>2
<1>6. Open(TaskList(r, done))
  <2>1. Open(t1) => Open(t1 \o t2)
    BY <1>2, OpenBehind
  <2>2. Open(t2) => Open(t1 \o t2)
    BY <1>2, OpenInFront
  <2>3. Open(t1 \o t2) => Open(t1 \o t2 \o t3)
    BY <1>2, OpenBehind
  <2>4. Open(t3) => Open(t1 \o t2 \o t3)
    BY <1>5, OpenInFront
  <2> QED
    BY <1>2, <1>3, <1>4, <2>1, <2>2, <2>3, <2>4
<1>7. ScopeHead(r, done) \in Seq(Word)
  BY ScopeType
<1> QED
  BY <1>6, <1>7, OpenInFront DEF FeatureScope

\* So the loop finds every task that is not done.
LEMMA OpenTaskIsScanned ==
  ASSUME NEW r \in Requests, NEW done \in SUBSET Tasks, done # Tasks
  PROVE  hasReadyInternalTask(FileOf(r, done))
  BY ScopeShowsOpenTask, OpenIsScanned

-----------------------------------------------------------------------------
(***************************************************************************)
(* Where the cut of the PRD begins and ends.                               *)
(***************************************************************************)

\* The document begins with the words of a, then those of t, then x.
Stands(doc, a, t, x) ==
  /\ doc \in Seq(Word) /\ a \in Seq(Word) /\ t \in Seq(Word)
  /\ Len(a) + Len(t) + 1 <= Len(doc)
  /\ \A i \in 1 .. Len(a) : doc[i] = a[i]
  /\ \A i \in 1 .. Len(t) : doc[Len(a) + i] = t[i]
  /\ doc[Len(a) + Len(t) + 1] = x

\* Words put behind, or in front of, a document move the place of its words.
LEMMA StandsBehind ==
  ASSUME NEW doc, NEW a, NEW t, NEW x, Stands(doc, a, t, x), NEW u \in Seq(Word)
  PROVE  Stands(doc \o u, a, t, x)
<1> DEFINE d == doc \o u
<1>1. doc \in Seq(Word) /\ a \in Seq(Word) /\ t \in Seq(Word) /\ Len(a) \in Nat /\ Len(t) \in Nat
  BY DEF Stands
<1>2. /\ d \in Seq(Word) /\ Len(d) = Len(doc) + Len(u) /\ Len(doc) \in Nat /\ Len(u) \in Nat
      /\ \A i \in 1 .. Len(doc) : d[i] = doc[i]
  BY <1>1, Joined, Zenon
<1> HIDE DEF d
<1>3. /\ \A i \in 1 .. Len(a) : i \in 1 .. Len(doc) /\ d[i] = a[i]
      /\ \A i \in 1 .. Len(t) : Len(a) + i \in 1 .. Len(doc) /\ d[Len(a) + i] = t[i]
  BY <1>1, <1>2 DEF Stands
<1>4. /\ Len(a) + Len(t) + 1 \in 1 .. Len(doc)
      /\ d[Len(a) + Len(t) + 1] = x
      /\ Len(a) + Len(t) + 1 <= Len(d)
  BY <1>1, <1>2 DEF Stands
<1>5. Stands(d, a, t, x)
  BY <1>1, <1>2, <1>3, <1>4 DEF Stands
<1> QED
  BY <1>5 DEF d

LEMMA StandsInFront ==
  ASSUME NEW doc, NEW a, NEW t, NEW x, Stands(doc, a, t, x), NEW s \in Seq(Word)
  PROVE  Stands(s \o doc, s \o a, t, x)
<1> DEFINE d == s \o doc
           b == s \o a
<1>1. doc \in Seq(Word) /\ a \in Seq(Word) /\ t \in Seq(Word) /\ Len(a) \in Nat /\ Len(t) \in Nat
  BY DEF Stands
<1>2. /\ d \in Seq(Word) /\ Len(d) = Len(s) + Len(doc) /\ Len(s) \in Nat /\ Len(doc) \in Nat
      /\ \A i \in 1 .. Len(s) : d[i] = s[i]
      /\ \A i \in 1 .. Len(doc) : d[Len(s) + i] = doc[i]
  BY <1>1
<1>3. /\ b \in Seq(Word) /\ Len(b) = Len(s) + Len(a)
      /\ \A i \in 1 .. Len(s) : b[i] = s[i]
      /\ \A i \in 1 .. Len(a) : b[Len(s) + i] = a[i]
  BY <1>1
<1> HIDE DEF d, b
<1>4. ASSUME NEW i \in 1 .. Len(b) PROVE d[i] = b[i]
  <2>1. CASE i <= Len(s)
    BY <1>2, <1>3, <2>1
  <2>2. CASE i > Len(s)
    <3> DEFINE j == i - Len(s)
    <3>1. j \in 1 .. Len(a) /\ j \in 1 .. Len(doc) /\ i = Len(s) + j
      BY <1>1, <1>2, <1>3, <2>2 DEF Stands
    <3> HIDE DEF j
    <3>2. d[i] = doc[j] /\ b[i] = a[j] /\ doc[j] = a[j]
      BY <1>2, <1>3, <3>1 DEF Stands
    <3> QED
      BY <3>2
  <2> QED
    BY <1>2, <1>3, <2>1, <2>2
<1>5. ASSUME NEW i \in 1 .. Len(t) PROVE d[Len(b) + i] = t[i]
  <2>1. Len(a) + i \in 1 .. Len(doc) /\ Len(b) + i = Len(s) + (Len(a) + i)
    BY <1>1, <1>2, <1>3 DEF Stands
  <2>2. d[Len(s) + (Len(a) + i)] = doc[Len(a) + i] /\ doc[Len(a) + i] = t[i]
    BY <1>2, <2>1 DEF Stands
  <2> QED
    BY <2>1, <2>2
<1>6. d[Len(b) + Len(t) + 1] = x
  <2>1. /\ Len(a) + Len(t) + 1 \in 1 .. Len(doc)
        /\ Len(b) + Len(t) + 1 = Len(s) + (Len(a) + Len(t) + 1)
    BY <1>1, <1>2, <1>3 DEF Stands
  <2>2. /\ d[Len(s) + (Len(a) + Len(t) + 1)] = doc[Len(a) + Len(t) + 1]
        /\ doc[Len(a) + Len(t) + 1] = x
    BY <1>2, <2>1 DEF Stands
  <2> QED
    BY <2>1, <2>2
<1>7. Len(b) + Len(t) + 1 <= Len(d)
  BY <1>1, <1>2, <1>3 DEF Stands
<1>8. Stands(d, b, t, x)
  BY <1>1, <1>2, <1>3, <1>4, <1>5, <1>6, <1>7 DEF Stands
<1> QED
  BY <1>8 DEF d, b

\* A text that is rendered within a sentence.
LEMMA StandsWithin ==
  ASSUME NEW t \in Seq(Word)
  PROVE  Stands(Within(t), <<"plain">>, t, "plain")
<1> DEFINE p == <<"plain">>
           u == p \o t
           d == u \o p
<1>1. p \in Seq(Word) /\ Len(p) = 1 /\ p[1] = "plain"
  BY WrittenType
<1>2. Within(t) = d
  BY DEF Within
<1> HIDE DEF p
<1>3. /\ u \in Seq(Word) /\ Len(u) = Len(p) + Len(t) /\ Len(t) \in Nat
      /\ \A i \in 1 .. Len(p) : u[i] = p[i]
      /\ \A i \in 1 .. Len(t) : u[Len(p) + i] = t[i]
  BY <1>1, Joined, Zenon
<1> HIDE DEF u
<1>4. /\ d \in Seq(Word) /\ Len(d) = Len(u) + Len(p)
      /\ \A i \in 1 .. Len(u) : d[i] = u[i]
      /\ \A i \in 1 .. Len(p) : d[Len(u) + i] = p[i]
  BY <1>1, <1>3, Joined, Zenon
<1> HIDE DEF d
<1>5. /\ \A i \in 1 .. Len(p) : i \in 1 .. Len(u) /\ d[i] = p[i]
      /\ \A i \in 1 .. Len(t) : Len(p) + i \in 1 .. Len(u) /\ d[Len(p) + i] = t[i]
      /\ d[Len(p) + Len(t) + 1] = "plain"
      /\ Len(p) + Len(t) + 1 <= Len(d)
  BY <1>1, <1>3, <1>4
<1>6. Stands(d, p, t, "plain")
  BY <1>1, <1>4, <1>5 DEF Stands
<1> QED
  BY <1>2, <1>6 DEF p

\* Any words behind others.
LEMMA StandsBetween ==
  ASSUME NEW a \in Seq(Word), NEW t \in Seq(Word), NEW u \in Seq(Word), Len(u) >= 1
  PROVE  Stands(a \o t \o u, a, t, u[1])
<1> DEFINE v == a \o t
           d == v \o u
<1>1. /\ v \in Seq(Word) /\ Len(v) = Len(a) + Len(t) /\ Len(a) \in Nat /\ Len(t) \in Nat
      /\ \A i \in 1 .. Len(a) : v[i] = a[i]
      /\ \A i \in 1 .. Len(t) : v[Len(a) + i] = t[i]
  BY Joined, Zenon
<1> HIDE DEF v
<1>2. /\ d \in Seq(Word) /\ Len(d) = Len(v) + Len(u) /\ Len(u) \in Nat
      /\ \A i \in 1 .. Len(v) : d[i] = v[i]
      /\ \A i \in 1 .. Len(u) : d[Len(v) + i] = u[i]
  BY <1>1, Joined, Zenon
<1> HIDE DEF d
<1>3. /\ \A i \in 1 .. Len(a) : i \in 1 .. Len(v) /\ d[i] = a[i]
      /\ \A i \in 1 .. Len(t) : Len(a) + i \in 1 .. Len(v) /\ d[Len(a) + i] = t[i]
      /\ d[Len(a) + Len(t) + 1] = u[1]
      /\ Len(a) + Len(t) + 1 <= Len(d)
  BY <1>1, <1>2
<1>4. Stands(d, a, t, u[1])
  BY <1>1, <1>2, <1>3 DEF Stands
<1> QED
  BY <1>4 DEF d, v

\* The first place of a heading that nothing before t quotes.
LEMMA FirstInText ==
  ASSUME NEW doc, NEW a, NEW t, NEW x, Stands(doc, a, t, x),
         NEW h, Quotes(t, h), ~Quotes(a, h)
  PROVE  IndexOf(doc, h) = Len(a) + IndexOf(t, h)
<1> DEFINE p == IndexOf(t, h)
           i == IndexOf(doc, h)
<1>1. /\ doc \in Seq(Word) /\ a \in Seq(Word) /\ t \in Seq(Word)
      /\ Len(doc) \in Nat /\ Len(a) \in Nat /\ Len(t) \in Nat
      /\ DOMAIN doc = 1 .. Len(doc) /\ DOMAIN a = 1 .. Len(a)
  BY DEF Stands
<1>2. p \in 1 .. Len(t) /\ t[p] = h /\ \A k \in 1 .. p - 1 : t[k] # h
  BY <1>1, IndexOfFirst
<1> HIDE DEF p
<1>3. Len(a) + p \in 1 .. Len(doc) /\ doc[Len(a) + p] = h
  BY <1>1, <1>2 DEF Stands
<1>4. Quotes(doc, h)
  BY <1>1, <1>3 DEF Quotes
<1>5. i \in 1 .. Len(doc) /\ doc[i] = h /\ \A k \in 1 .. i - 1 : doc[k] # h
  BY <1>1, <1>4, IndexOfFirst
<1> HIDE DEF i
<1>6. i <= Len(a) + p
  BY <1>1, <1>2, <1>3, <1>5
<1>7. i > Len(a)
  BY <1>1, <1>5 DEF Quotes, Stands
<1>8. ASSUME i < Len(a) + p PROVE FALSE
  <2> DEFINE k == i - Len(a)
  <2>1. k \in 1 .. p - 1 /\ k \in 1 .. Len(t) /\ i = Len(a) + k
    BY <1>1, <1>2, <1>5, <1>7, <1>8
  <2> HIDE DEF k
  <2>2. doc[i] = t[k] /\ t[k] # h
    BY <1>2, <2>1 DEF Stands
  <2> QED
    BY <1>5, <2>2
<1>9. i = Len(a) + p
  BY <1>1, <1>2, <1>5, <1>6, <1>8
<1> QED
  BY <1>9 DEF i, p

\* It comes before t if something there quotes it, and not otherwise.
LEMMA FirstBefore ==
  ASSUME NEW doc, NEW a, NEW t, NEW x, Stands(doc, a, t, x),
         NEW h, Quotes(doc, h)
  PROVE  /\ IndexOf(doc, h) \in 1 .. Len(doc) /\ doc[IndexOf(doc, h)] = h
         /\ Quotes(a, h) <=> IndexOf(doc, h) <= Len(a)
         /\ Quotes(a, h) => IndexOf(doc, h) = IndexOf(a, h)
<1> DEFINE i == IndexOf(doc, h)
           p == IndexOf(a, h)
<1>1. /\ doc \in Seq(Word) /\ a \in Seq(Word)
      /\ Len(doc) \in Nat /\ Len(a) \in Nat /\ Len(a) <= Len(doc)
      /\ DOMAIN doc = 1 .. Len(doc) /\ DOMAIN a = 1 .. Len(a)
      /\ \A k \in 1 .. Len(a) : doc[k] = a[k]
  BY DEF Stands
<1>2. i \in 1 .. Len(doc) /\ doc[i] = h /\ \A k \in 1 .. i - 1 : doc[k] # h
  BY <1>1, IndexOfFirst
<1>3. ASSUME Quotes(a, h) PROVE i <= Len(a) /\ i = p
  <2>1. p \in 1 .. Len(a) /\ a[p] = h /\ \A k \in 1 .. p - 1 : a[k] # h
    BY <1>1, <1>3, IndexOfFirst
  <2> HIDE DEF i, p
  <2>2. ~(p < i)
    BY <1>1, <1>2, <2>1
  <2>3. ~(i < p)
    BY <1>1, <1>2, <2>1
  <2> QED
    BY <1>1, <1>2, <2>1, <2>2, <2>3
<1>4. i <= Len(a) => Quotes(a, h)
  <2> HIDE DEF i
  <2> QED
    BY <1>1, <1>2 DEF Quotes
<1> QED
  BY <1>2, <1>3, <1>4

\* What stands before the PRD's name, its notes, its own first heading, its
\* description and its own second heading, each the first that the cut sees.
BeforeName == <<"plain">> \o <<"newline", "heading", "newline">>
BeforeNotes(r) ==
  PrdSolution(r) \o (<<"newline", "heading", "newline">>
    \o (Within(r.name) \o Within(Lowered(r.description)) \o <<"newline">> \o <<"plain">>))
BeforeCriteria(r) == PrdDecisions(r) \o <<"newline">>
BeforeDescription(r) == PrdOpened(r) \o (Within(r.name) \o <<"plain">>)
BeforeTesting(r) == PrdListed(r) \o <<"newline">>

\* The first word of some that the generator writes in a row.
LEMMA StandsWritten ==
  ASSUME NEW u \in Seq(Word), Len(u) >= 3, u[1] = "newline", NEW h \in Word, u[2] = h
  PROVE  Stands(u, <<"newline">>, <<h>>, u[3])
<1> DEFINE n == <<"newline">>
           c == <<h>>
<1>1. /\ n \in Seq(Word) /\ Len(n) = 1 /\ n[1] = "newline"
      /\ c \in Seq(Word) /\ Len(c) = 1 /\ c[1] = h
  BY WrittenType
<1> HIDE DEF n, c
<1>2. Len(n) + 1 = 2 /\ Len(n) + Len(c) + 1 = 3
  BY <1>1
<1>3. \A i \in 1 .. Len(n) : u[i] = n[i]
  BY <1>1
<1>4. \A i \in 1 .. Len(c) : u[Len(n) + i] = c[i]
  BY <1>1, <1>2
<1>5. Stands(u, n, c, u[3])
  BY <1>1, <1>2, <1>3, <1>4 DEF Stands
<1> QED
  BY <1>5 DEF n, c

\* Whatever stands at the beginning of a part of the PRD stands in all of it.
LEMMA StandsInPrd ==
  ASSUME NEW r \in Requests, NEW a, NEW t, NEW x
  PROVE  /\ Stands(PrdProblem(r), a, t, x) => Stands(PrdStories(r), a, t, x)
         /\ Stands(PrdStories(r), a, t, x) => Stands(PrdOpened(r), a, t, x)
         /\ Stands(PrdOpened(r), a, t, x) => Stands(PrdListed(r), a, t, x)
         /\ Stands(PrdListed(r), a, t, x) => Stands(PrdClosed(r), a, t, x)
         /\ Stands(PrdClosed(r), a, t, x) => Stands(GeneratedPrd(r), a, t, x)
<1> DEFINE c == <<"newline", "criteria", "newline">>
           e == <<"newline", "testing", "newline", "plain">>
           p == Section(<<"plain">>)
           last == Section(Item(r.description) \o Item(r.notes))
           n == Section(Within(r.name))
           s == Section(Stories(r))
<1>1. c \in Seq(Word) /\ e \in Seq(Word)
  BY WrittenType
<1>2. p \in Seq(Word) /\ last \in Seq(Word) /\ n \in Seq(Word) /\ s \in Seq(Word)
  <2>1. /\ Item(r.description) \in Seq(Word) /\ Item(r.notes) \in Seq(Word)
        /\ Within(r.name) \in Seq(Word)
    BY TextType, RenderedType
  <2>2. Item(r.description) \o Item(r.notes) \in Seq(Word) /\ <<"plain">> \in Seq(Word)
    BY <2>1, WrittenType
  <2>3. Stories(r) \in Seq(Word)
    BY PrdType
  <2> QED
    BY <2>1, <2>2, <2>3, RenderedType
<1>3. /\ PrdSolution(r) = PrdProblem(r) \o n
      /\ PrdStories(r) = PrdSolution(r) \o s
      /\ PrdDecisions(r) = PrdStories(r) \o n
      /\ PrdOpened(r) = PrdDecisions(r) \o c
      /\ PrdListed(r) = PrdOpened(r) \o AcceptanceCriteria(r)
      /\ PrdClosed(r) = PrdListed(r) \o e
      /\ GeneratedPrd(r) = PrdClosed(r) \o p \o p \o last
  BY PrdType DEF PrdSolution, PrdStories, PrdDecisions, PrdOpened, PrdListed, PrdClosed
<1>4. AcceptanceCriteria(r) \in Seq(Word)
  BY PrdType
<1> HIDE DEF c, e, p, last, n, s
<1>5. ASSUME Stands(PrdProblem(r), a, t, x) PROVE Stands(PrdStories(r), a, t, x)
  <2>1. Stands(PrdSolution(r), a, t, x)
    BY <1>2, <1>3, <1>5, StandsBehind
  <2> QED
    BY <1>2, <1>3, <2>1, StandsBehind
<1>6. ASSUME Stands(PrdStories(r), a, t, x) PROVE Stands(PrdOpened(r), a, t, x)
  <2>1. Stands(PrdDecisions(r), a, t, x)
    BY <1>2, <1>3, <1>6, StandsBehind
  <2> QED
    BY <1>1, <1>3, <2>1, StandsBehind
<1>7. ASSUME Stands(PrdOpened(r), a, t, x) PROVE Stands(PrdListed(r), a, t, x)
  BY <1>3, <1>4, <1>7, StandsBehind
<1>8. ASSUME Stands(PrdListed(r), a, t, x) PROVE Stands(PrdClosed(r), a, t, x)
  BY <1>1, <1>3, <1>8, StandsBehind
<1>9. ASSUME Stands(PrdClosed(r), a, t, x) PROVE Stands(GeneratedPrd(r), a, t, x)
  <2>1. Stands(PrdClosed(r) \o p, a, t, x)
    BY <1>2, <1>9, StandsBehind
  <2>2. Stands(PrdClosed(r) \o p \o p, a, t, x)
    BY <1>2, <2>1, StandsBehind
  <2> QED
    BY <1>2, <1>3, <2>2, StandsBehind
<1> QED
  BY <1>5, <1>6, <1>7, <1>8, <1>9

\* Where each text, and each of the PRD's own headings, comes first.
LEMMA NameStands ==
  ASSUME NEW r \in Requests
  PROVE  Stands(GeneratedPrd(r), BeforeName, r.name, "plain")
<1> DEFINE p == <<"plain">>
           head == <<"newline", "heading", "newline">>
<1>1. /\ p \in Seq(Word) /\ head \in Seq(Word) /\ Len(p) >= 1 /\ p[1] = "plain"
      /\ r.name \in Seq(Word)
  BY WrittenType, TextType
<1>2. PrdProblem(r) = p \o (head \o (r.name \o p)) /\ BeforeName = p \o head
  BY DEF PrdProblem, Section, BeforeName
<1> HIDE DEF p, head
<1>3. Stands(head \o r.name \o p, head, r.name, "plain")
  BY <1>1, StandsBetween
<1>4. head \o r.name \o p = head \o (r.name \o p)
  <2> DEFINE t == r.name
  <2>1. head \in Seq(Word) /\ t \in Seq(Word) /\ p \in Seq(Word)
    BY <1>1
  <2> HIDE DEF t
  <2>2. (head \o t) \o p = head \o (t \o p)
    BY <2>1, ConcatAssociative
  <2> QED
    BY <2>2 DEF t
<1>5. Stands(p \o (head \o (r.name \o p)), p \o head, r.name, "plain")
  BY <1>1, <1>3, <1>4, StandsInFront
<1> QED
  BY <1>2, <1>5, StandsInPrd

LEMMA NotesStand ==
  ASSUME NEW r \in Requests
  PROVE  Stands(GeneratedPrd(r), BeforeNotes(r), r.notes, "plain")
<1> DEFINE p == <<"plain">>
           head == <<"newline", "heading", "newline">>
           m == Within(r.name) \o Within(Lowered(r.description)) \o <<"newline">>
<1>1. p \in Seq(Word) /\ head \in Seq(Word) /\ <<"newline">> \in Seq(Word)
  BY WrittenType
<1>2. Within(r.name) \in Seq(Word) /\ Within(Lowered(r.description)) \in Seq(Word)
  <2>1. Lowered(r.description) \in Seq(Word)
    BY TextType, RenderedType
  <2> QED
    BY <2>1, TextType, RenderedType
<1>3. m \in Seq(Word)
  BY <1>1, <1>2
<1>4. /\ PrdStories(r) = PrdSolution(r) \o (head \o (m \o Within(r.notes)))
      /\ BeforeNotes(r) = PrdSolution(r) \o (head \o (m \o p))
  BY DEF PrdStories, Section, Stories, BeforeNotes
<1>5. PrdSolution(r) \in Seq(Word)
  BY PrdType
<1> HIDE DEF head, m
<1>6. Stands(Within(r.notes), p, r.notes, "plain")
  BY TextType, StandsWithin
<1> HIDE DEF p
<1>7. Stands(m \o Within(r.notes), m \o p, r.notes, "plain")
  BY <1>3, <1>6, StandsInFront
<1>8. Stands(head \o (m \o Within(r.notes)), head \o (m \o p), r.notes, "plain")
  BY <1>1, <1>7, StandsInFront
<1>9. Stands(PrdStories(r), BeforeNotes(r), r.notes, "plain")
  BY <1>4, <1>5, <1>8, StandsInFront
<1> QED
  BY <1>9, StandsInPrd

LEMMA CriteriaStand ==
  ASSUME NEW r \in Requests
  PROVE  Stands(GeneratedPrd(r), BeforeCriteria(r), <<"criteria">>, "newline")
<1> DEFINE u == <<"newline", "criteria", "newline">>
<1>1. /\ u \in Seq(Word) /\ Len(u) = 3 /\ u[1] = "newline" /\ u[2] = "criteria"
      /\ u[3] = "newline" /\ "criteria" \in Word
  BY DEF Word
<1>2. PrdOpened(r) = PrdDecisions(r) \o u
  BY DEF PrdOpened
<1> HIDE DEF u
<1>3. Stands(u, <<"newline">>, <<"criteria">>, "newline")
  BY <1>1, StandsWritten
<1>4. Stands(PrdOpened(r), BeforeCriteria(r), <<"criteria">>, "newline")
  <2>1. PrdDecisions(r) \in Seq(Word)
    BY PrdType
  <2>2. Stands(PrdDecisions(r) \o u, PrdDecisions(r) \o <<"newline">>, <<"criteria">>, "newline")
    BY <1>3, <2>1, StandsInFront
  <2> QED
    BY <1>2, <2>2 DEF BeforeCriteria
<1> QED
  BY <1>4, StandsInPrd

LEMMA DescriptionStands ==
  ASSUME NEW r \in Requests
  PROVE  Stands(GeneratedPrd(r), BeforeDescription(r), r.description, "plain")
<1> DEFINE p == <<"plain">>
           n == <<"newline">>
           w == Within(r.name)
           d == Within(r.description)
           m == Within(r.notes)
<1>1. p \in Seq(Word) /\ n \in Seq(Word)
  BY WrittenType
<1>2. w \in Seq(Word) /\ d \in Seq(Word) /\ m \in Seq(Word)
  BY TextType, RenderedType
<1>3. /\ PrdListed(r) = PrdOpened(r) \o (w \o d \o n \o m)
      /\ BeforeDescription(r) = PrdOpened(r) \o (w \o p)
  BY DEF PrdListed, AcceptanceCriteria, BeforeDescription
<1>4. PrdOpened(r) \in Seq(Word)
  BY PrdType
<1>5. Stands(d, p, r.description, "plain")
  BY TextType, StandsWithin
<1> HIDE DEF p, n, w, d, m
<1>6. Stands(w \o d, w \o p, r.description, "plain")
  BY <1>2, <1>5, StandsInFront
<1>7. Stands(w \o d \o n, w \o p, r.description, "plain")
  BY <1>1, <1>6, StandsBehind
<1>8. Stands(w \o d \o n \o m, w \o p, r.description, "plain")
  BY <1>2, <1>7, StandsBehind
<1>9. Stands(PrdListed(r), BeforeDescription(r), r.description, "plain")
  BY <1>3, <1>4, <1>8, StandsInFront
<1> QED
  BY <1>9, StandsInPrd

LEMMA TestingStands ==
  ASSUME NEW r \in Requests
  PROVE  Stands(GeneratedPrd(r), BeforeTesting(r), <<"testing">>, "newline")
<1> DEFINE u == <<"newline", "testing", "newline", "plain">>
<1>1. /\ u \in Seq(Word) /\ Len(u) = 4 /\ u[1] = "newline" /\ u[2] = "testing"
      /\ u[3] = "newline" /\ "testing" \in Word
  BY DEF Word
<1>2. PrdClosed(r) = PrdListed(r) \o u
  BY DEF PrdClosed
<1> HIDE DEF u
<1>3. Stands(u, <<"newline">>, <<"testing">>, "newline")
  BY <1>1, StandsWritten
<1>4. Stands(PrdClosed(r), BeforeTesting(r), <<"testing">>, "newline")
  <2>1. PrdListed(r) \in Seq(Word)
    BY PrdType
  <2>2. Stands(PrdListed(r) \o u, PrdListed(r) \o <<"newline">>, <<"testing">>, "newline")
    BY <1>3, <2>1, StandsInFront
  <2> QED
    BY <1>2, <2>2 DEF BeforeTesting
<1> QED
  BY <1>4, StandsInPrd

\* What a concatenation quotes, its parts quote.
LEMMA JoinedQuotes ==
  ASSUME NEW s \in Seq(Word), NEW u \in Seq(Word), NEW h
  PROVE  s \o u \in Seq(Word) /\ (Quotes(s \o u, h) <=> Quotes(s, h) \/ Quotes(u, h))
<1>1. s \o u \in Seq(Word)
  OBVIOUS
<1>2. Quotes(s \o u, h) <=> Quotes(s, h) \/ Quotes(u, h)
  BY QuotesSplit
<1> QED
  BY <1>1, <1>2

LEMMA SectionQuotes ==
  ASSUME NEW s \in Seq(Word), NEW h \in {"criteria", "testing"}
  PROVE  Section(s) \in Seq(Word) /\ (Quotes(Section(s), h) <=> Quotes(s, h))
<1>1. Section(s) \in Seq(Word)
  BY RenderedType
<1>2. Quotes(Section(s), h) <=> Quotes(s, h)
  BY RenderedQuotes
<1> QED
  BY <1>1, <1>2

\* What stands before each of the five places quotes only what the texts at
\* the earlier places quote.
LEMMA PrefixQuotes ==
  ASSUME NEW r \in Requests, NEW h \in {"criteria", "testing"}
  PROVE  /\ ~Quotes(BeforeName, h)
         /\ Quotes(BeforeNotes(r), h) <=> Quotes(r.name, h)
         /\ Quotes(BeforeCriteria(r), h) <=> Quotes(r.name, h) \/ Quotes(r.notes, h)
         /\ Quotes(BeforeDescription(r), h)
              <=> h = "criteria" \/ Quotes(r.name, h) \/ Quotes(r.notes, h)
         /\ Quotes(BeforeTesting(r), h)
              <=> \/ h = "criteria" \/ Quotes(r.name, h) \/ Quotes(r.notes, h)
                  \/ Quotes(r.description, h)
<1> DEFINE p == <<"plain">>
           n == <<"newline">>
           head == <<"newline", "heading", "newline">>
           c == <<"newline", "criteria", "newline">>
           w == Within(r.name)
           l == Within(Lowered(r.description))
           d == Within(r.description)
           m == Within(r.notes)
<1>1. /\ p \in Seq(Word) /\ n \in Seq(Word) /\ head \in Seq(Word) /\ c \in Seq(Word)
  BY WrittenType
<1>2. /\ ~Quotes(p, h) /\ ~Quotes(n, h) /\ ~Quotes(head, h)
      /\ Quotes(c, h) <=> h = "criteria"
  BY WrittenQuotes
<1>3. r.name \in Seq(Word) /\ r.description \in Seq(Word) /\ r.notes \in Seq(Word)
  BY TextType
<1>4. w \in Seq(Word) /\ d \in Seq(Word) /\ m \in Seq(Word)
  BY <1>3, RenderedType
<1>5. /\ Quotes(w, h) <=> Quotes(r.name, h)
      /\ Quotes(d, h) <=> Quotes(r.description, h)
      /\ Quotes(m, h) <=> Quotes(r.notes, h)
  BY <1>3, RenderedQuotes
<1>6. l \in Seq(Word) /\ ~Quotes(l, h)
  <2>1. Lowered(r.description) \in Seq(Word)
    BY <1>3, RenderedType
  <2>2. ~Quotes(Lowered(r.description), h)
    BY <1>3, RenderedQuotes
  <2>3. l \in Seq(Word)
    BY <2>1, RenderedType
  <2>4. Quotes(l, h) <=> Quotes(Lowered(r.description), h)
    BY <2>1, RenderedQuotes
  <2> QED
    BY <2>2, <2>3, <2>4
<1>7. /\ PrdProblem(r) \in Seq(Word) /\ PrdSolution(r) \in Seq(Word)
      /\ PrdStories(r) \in Seq(Word) /\ PrdDecisions(r) \in Seq(Word)
      /\ PrdOpened(r) \in Seq(Word) /\ PrdListed(r) \in Seq(Word) /\ Stories(r) \in Seq(Word)
  BY PrdType
<1>8. Quotes(PrdProblem(r), h) <=> Quotes(r.name, h)
  <2> DEFINE t == r.name \o p
             x == Section(t)
  <2>1. PrdProblem(r) = p \o x
    BY DEF PrdProblem
  <2> HIDE DEF p
  <2>2. t \in Seq(Word) /\ (Quotes(t, h) <=> Quotes(r.name, h))
    BY <1>1, <1>2, <1>3, JoinedQuotes
  <2> HIDE DEF t
  <2>3. x \in Seq(Word) /\ (Quotes(x, h) <=> Quotes(t, h))
    BY <2>2, SectionQuotes
  <2> HIDE DEF x
  <2>4. Quotes(p \o x, h) <=> Quotes(x, h)
    BY <1>1, <1>2, <2>3, JoinedQuotes
  <2> QED
    BY <2>1, <2>2, <2>3, <2>4
<1> DEFINE ws == Section(w)
<1>9. ws \in Seq(Word) /\ (Quotes(ws, h) <=> Quotes(r.name, h))
  <2>1. ws \in Seq(Word) /\ (Quotes(ws, h) <=> Quotes(w, h))
    BY <1>4, SectionQuotes
  <2> QED
    BY <1>5, <2>1
<1>10. Quotes(PrdSolution(r), h) <=> Quotes(r.name, h)
  <2>1. PrdSolution(r) = PrdProblem(r) \o ws
    BY DEF PrdSolution
  <2> HIDE DEF ws
  <2> QED
    BY <1>7, <1>8, <1>9, <2>1, JoinedQuotes
<1> DEFINE wl == w \o l
           wln == wl \o n
<1>11. Stories(r) = wln \o m /\ BeforeNotes(r) = PrdSolution(r) \o (head \o (wln \o p))
  BY DEF Stories, BeforeNotes
<1>12. PrdStories(r) = PrdSolution(r) \o Section(Stories(r))
  BY DEF PrdStories
<1>13. PrdDecisions(r) = PrdStories(r) \o ws /\ BeforeCriteria(r) = PrdDecisions(r) \o n
  BY DEF PrdDecisions, BeforeCriteria
<1> DEFINE wd == w \o d
           wdn == wd \o n
           ac == wdn \o m
           wp == w \o p
<1>14. /\ PrdOpened(r) = PrdDecisions(r) \o c
       /\ PrdListed(r) = PrdOpened(r) \o ac
       /\ BeforeName = p \o head
       /\ BeforeDescription(r) = PrdOpened(r) \o wp
       /\ BeforeTesting(r) = PrdListed(r) \o n
  BY DEF PrdOpened, PrdListed, AcceptanceCriteria, BeforeName, BeforeDescription, BeforeTesting
<1> HIDE DEF p, n, head, c, w, l, d, m, ws
<1>15. wl \in Seq(Word) /\ (Quotes(wl, h) <=> Quotes(r.name, h))
  BY <1>4, <1>5, <1>6, JoinedQuotes
<1> HIDE DEF wl
<1>16. wln \in Seq(Word) /\ (Quotes(wln, h) <=> Quotes(r.name, h))
  BY <1>1, <1>2, <1>15, JoinedQuotes
<1> HIDE DEF wln
<1>17. Quotes(Stories(r), h) <=> Quotes(r.name, h) \/ Quotes(r.notes, h)
  BY <1>4, <1>5, <1>11, <1>16, JoinedQuotes
<1>18. Quotes(PrdStories(r), h) <=> Quotes(r.name, h) \/ Quotes(r.notes, h)
  <2> DEFINE x == Section(Stories(r))
  <2>1. x \in Seq(Word) /\ (Quotes(x, h) <=> Quotes(Stories(r), h))
    BY <1>7, SectionQuotes
  <2>2. PrdStories(r) = PrdSolution(r) \o x
    BY <1>12
  <2> HIDE DEF x
  <2>3. Quotes(PrdSolution(r) \o x, h) <=> Quotes(PrdSolution(r), h) \/ Quotes(x, h)
    BY <1>7, <2>1, JoinedQuotes
  <2> QED
    BY <1>10, <1>17, <2>1, <2>2, <2>3
<1>19. Quotes(PrdDecisions(r), h) <=> Quotes(r.name, h) \/ Quotes(r.notes, h)
  BY <1>7, <1>9, <1>13, <1>18, JoinedQuotes
<1>20. Quotes(PrdOpened(r), h) <=> h = "criteria" \/ Quotes(r.name, h) \/ Quotes(r.notes, h)
  BY <1>1, <1>2, <1>7, <1>14, <1>19, JoinedQuotes
<1>21. wd \in Seq(Word) /\ (Quotes(wd, h) <=> Quotes(r.name, h) \/ Quotes(r.description, h))
  BY <1>4, <1>5, JoinedQuotes
<1> HIDE DEF wd
<1>22. wdn \in Seq(Word) /\ (Quotes(wdn, h) <=> Quotes(r.name, h) \/ Quotes(r.description, h))
  BY <1>1, <1>2, <1>21, JoinedQuotes
<1> HIDE DEF wdn
<1>23. /\ ac \in Seq(Word)
       /\ Quotes(ac, h) <=> Quotes(r.name, h) \/ Quotes(r.description, h) \/ Quotes(r.notes, h)
  BY <1>4, <1>5, <1>22, JoinedQuotes
<1> HIDE DEF ac
<1>24. Quotes(PrdListed(r), h)
         <=> \/ h = "criteria" \/ Quotes(r.name, h) \/ Quotes(r.notes, h)
             \/ Quotes(r.description, h)
  <2>1. Quotes(PrdOpened(r) \o ac, h) <=> Quotes(PrdOpened(r), h) \/ Quotes(ac, h)
    BY <1>7, <1>23, JoinedQuotes
  <2> QED
    BY <1>14, <1>20, <1>23, <2>1
<1>25. ~Quotes(BeforeName, h)
  BY <1>1, <1>2, <1>14, JoinedQuotes
<1>26. Quotes(BeforeNotes(r), h) <=> Quotes(r.name, h)
  <2> DEFINE x == wln \o p
             y == head \o x
  <2>1. x \in Seq(Word) /\ (Quotes(x, h) <=> Quotes(r.name, h))
    BY <1>1, <1>2, <1>16, JoinedQuotes
  <2>2. BeforeNotes(r) = PrdSolution(r) \o y
    BY <1>11
  <2> HIDE DEF x
  <2>3. y \in Seq(Word) /\ (Quotes(y, h) <=> Quotes(r.name, h))
    BY <1>1, <1>2, <2>1, JoinedQuotes
  <2> HIDE DEF y
  <2> QED
    BY <1>7, <1>10, <2>2, <2>3, JoinedQuotes
<1>27. Quotes(BeforeCriteria(r), h) <=> Quotes(r.name, h) \/ Quotes(r.notes, h)
  <2>1. Quotes(PrdDecisions(r) \o n, h) <=> Quotes(PrdDecisions(r), h)
    BY <1>1, <1>2, <1>7, JoinedQuotes
  <2> QED
    BY <1>13, <1>19, <2>1
<1>28. Quotes(BeforeDescription(r), h)
         <=> h = "criteria" \/ Quotes(r.name, h) \/ Quotes(r.notes, h)
  <2>1. wp \in Seq(Word) /\ (Quotes(wp, h) <=> Quotes(r.name, h))
    BY <1>1, <1>2, <1>4, <1>5, JoinedQuotes
  <2> HIDE DEF wp
  <2>2. Quotes(PrdOpened(r) \o wp, h) <=> Quotes(PrdOpened(r), h) \/ Quotes(wp, h)
    BY <1>7, <2>1, JoinedQuotes
  <2> QED
    BY <1>14, <1>20, <2>1, <2>2
<1>29. Quotes(BeforeTesting(r), h)
         <=> \/ h = "criteria" \/ Quotes(r.name, h) \/ Quotes(r.notes, h)
             \/ Quotes(r.description, h)
  <2>1. Quotes(PrdListed(r) \o n, h) <=> Quotes(PrdListed(r), h)
    BY <1>1, <1>2, <1>7, JoinedQuotes
  <2> QED
    BY <1>14, <1>24, <2>1
<1> QED
  BY <1>25, <1>26, <1>27, <1>28, <1>29

\* And it ends with the word w.
EndsWith(s, w) == s \in Seq(Word) /\ Len(s) >= 1 /\ s[Len(s)] = w

LEMMA EndsWithBehind ==
  ASSUME NEW s \in Seq(Word), NEW u, NEW w, EndsWith(u, w)
  PROVE  EndsWith(s \o u, w)
<1>1. u \in Seq(Word) /\ Len(u) >= 1 /\ u[Len(u)] = w /\ Len(u) \in 1 .. Len(u)
  BY DEF EndsWith
<1>2. /\ s \o u \in Seq(Word) /\ Len(s \o u) = Len(s) + Len(u)
      /\ Len(s) \in Nat /\ Len(u) \in Nat
      /\ (s \o u)[Len(s) + Len(u)] = u[Len(u)]
  BY <1>1, Joined
<1> QED
  BY <1>1, <1>2 DEF EndsWith

\* What stands just before each text.
LEMMA PrefixEnds ==
  ASSUME NEW r \in Requests
  PROVE  /\ EndsWith(BeforeName, "newline") /\ Len(BeforeName) = 4
         /\ \A i \in 1 .. 4 : BeforeName[i] # "status"
         /\ EndsWith(BeforeNotes(r), "plain")
         /\ EndsWith(BeforeDescription(r), "plain")
         /\ EndsWith(BeforeTesting(r), "newline")
<1> DEFINE p == <<"plain">>
           n == <<"newline">>
           head == <<"newline", "heading", "newline">>
           m == Within(r.name) \o Within(Lowered(r.description)) \o n
           w == Within(r.name)
<1>1. EndsWith(p, "plain") /\ EndsWith(n, "newline") /\ head \in Seq(Word)
  BY WrittenType DEF EndsWith
<1>2. w \in Seq(Word)
  BY TextType, RenderedType
<1>3. m \in Seq(Word)
  <2>1. Lowered(r.description) \in Seq(Word)
    BY TextType, RenderedType
  <2>2. Within(Lowered(r.description)) \in Seq(Word) /\ n \in Seq(Word)
    BY <2>1, RenderedType, WrittenType
  <2> QED
    BY <1>2, <2>2
<1>4. /\ EndsWith(BeforeName, "newline") /\ Len(BeforeName) = 4
      /\ \A i \in 1 .. 4 : BeforeName[i] # "status"
  BY DEF EndsWith, BeforeName, Word
<1>5. /\ BeforeNotes(r) = PrdSolution(r) \o (head \o (m \o p))
      /\ BeforeDescription(r) = PrdOpened(r) \o (w \o p)
      /\ BeforeTesting(r) = PrdListed(r) \o n
  BY DEF BeforeNotes, BeforeDescription, BeforeTesting
<1>6. PrdSolution(r) \in Seq(Word) /\ PrdOpened(r) \in Seq(Word) /\ PrdListed(r) \in Seq(Word)
  BY PrdType
<1> HIDE DEF p, n, head, m, w
<1>7. EndsWith(BeforeNotes(r), "plain")
  <2>1. EndsWith(m \o p, "plain")
    BY <1>1, <1>3, EndsWithBehind
  <2>2. EndsWith(head \o (m \o p), "plain")
    BY <1>1, <2>1, EndsWithBehind
  <2> QED
    BY <1>5, <1>6, <2>2, EndsWithBehind
<1>8. EndsWith(BeforeDescription(r), "plain")
  <2>1. EndsWith(w \o p, "plain")
    BY <1>1, <1>2, EndsWithBehind
  <2> QED
    BY <1>5, <1>6, <2>1, EndsWithBehind
<1>9. EndsWith(BeforeTesting(r), "newline")
  BY <1>1, <1>5, <1>6, EndsWithBehind
<1> QED
  BY <1>4, <1>7, <1>8, <1>9

-----------------------------------------------------------------------------
(***************************************************************************)
(* What the cut leaves of the two lines it is made in.                     *)
(***************************************************************************)

\* The places that CutLeavesStatus speaks of are those that indexOf finds.
LEMMA FirstIs ==
  ASSUME NEW t \in Seq(Word), NEW h, NEW i \in 1 .. Len(t), t[i] = h,
         \A k \in 1 .. i - 1 : t[k] # h
  PROVE  Quotes(t, h) /\ IndexOf(t, h) = i
<1> DEFINE p == IndexOf(t, h)
<1>1. Quotes(t, h)
  BY DEF Quotes
<1>2. p \in 1 .. Len(t) /\ t[p] = h /\ \A k \in 1 .. p - 1 : t[k] # h
  BY <1>1, IndexOfFirst
<1> HIDE DEF p
<1>3. ~(p < i) /\ ~(i < p)
  BY <1>2
<1>4. p = i
  BY <1>2, <1>3
<1> QED
  BY <1>1, <1>4 DEF p

\* The three conditions on a text, by the first places of its headings.
LEMMA OpensIs ==
  ASSUME NEW t \in Seq(Word)
  PROVE  LET p == IndexOf(t, "criteria") IN
         OpensWithStatus(t) <=>
           /\ Quotes(t, "criteria")
           /\ \A k \in 1 .. p - 1 : t[k] # "testing"
           /\ p + 2 <= Len(t) /\ t[p + 1] = "status" /\ t[p + 2] \in {"newline", "testing"}
<1> DEFINE p == IndexOf(t, "criteria")
<1>1. DOMAIN t = 1 .. Len(t)
  OBVIOUS
<1>2. ASSUME OpensWithStatus(t)
      PROVE  /\ Quotes(t, "criteria")
             /\ \A k \in 1 .. p - 1 : t[k] # "testing"
             /\ p + 2 <= Len(t) /\ t[p + 1] = "status" /\ t[p + 2] \in {"newline", "testing"}
  <2>1. PICK i \in 1 .. Len(t) :
          /\ t[i] = "criteria" /\ \A k \in 1 .. i - 1 : t[k] \notin {"criteria", "testing"}
          /\ i + 2 <= Len(t) /\ t[i + 1] = "status" /\ t[i + 2] \in {"newline", "testing"}
    BY <1>1, <1>2 DEF OpensWithStatus
  <2>2. Quotes(t, "criteria") /\ p = i
    BY <2>1, FirstIs
  <2> HIDE DEF p
  <2> QED
    BY <2>1, <2>2
<1>3. ASSUME Quotes(t, "criteria"), \A k \in 1 .. p - 1 : t[k] # "testing",
             p + 2 <= Len(t), t[p + 1] = "status", t[p + 2] \in {"newline", "testing"}
      PROVE  OpensWithStatus(t)
  <2>1. p \in 1 .. Len(t) /\ t[p] = "criteria" /\ \A k \in 1 .. p - 1 : t[k] # "criteria"
    BY <1>3, IndexOfFirst
  <2> HIDE DEF p
  <2>2. \A k \in 1 .. p - 1 : t[k] \notin {"criteria", "testing"}
    BY <1>3, <2>1
  <2> QED
    BY <1>1, <1>3, <2>1, <2>2 DEF OpensWithStatus
<1> QED
  BY <1>2, <1>3

LEMMA ClosesIs ==
  ASSUME NEW t \in Seq(Word)
  PROVE  LET q == IndexOf(t, "testing") IN
         ClosesWithStatus(t) <=>
           Quotes(t, "testing") /\ q > 2 /\ t[q - 1] = "status" /\ t[q - 2] = "newline"
<1> DEFINE q == IndexOf(t, "testing")
<1>1. DOMAIN t = 1 .. Len(t)
  OBVIOUS
<1>2. ASSUME ClosesWithStatus(t)
      PROVE  Quotes(t, "testing") /\ q > 2 /\ t[q - 1] = "status" /\ t[q - 2] = "newline"
  <2>1. PICK i \in 1 .. Len(t) :
          /\ t[i] = "testing" /\ \A k \in 1 .. i - 1 : t[k] # "testing"
          /\ i > 2 /\ t[i - 1] = "status" /\ t[i - 2] = "newline"
    BY <1>1, <1>2 DEF ClosesWithStatus
  <2>2. Quotes(t, "testing") /\ q = i
    BY <2>1, FirstIs
  <2> HIDE DEF q
  <2> QED
    BY <2>1, <2>2
<1>3. ASSUME Quotes(t, "testing"), q > 2, t[q - 1] = "status", t[q - 2] = "newline"
      PROVE  ClosesWithStatus(t)
  <2>1. q \in 1 .. Len(t) /\ t[q] = "testing" /\ \A k \in 1 .. q - 1 : t[k] # "testing"
    BY <1>3, IndexOfFirst
  <2> HIDE DEF q
  <2> QED
    BY <1>1, <1>3, <2>1 DEF ClosesWithStatus
<1> QED
  BY <1>2, <1>3

LEMMA CriteriaFirstIs ==
  ASSUME NEW t \in Seq(Word), Quotes(t, "testing")
  PROVE  CriteriaFirst(t) <=>
           Quotes(t, "criteria") /\ IndexOf(t, "criteria") < IndexOf(t, "testing")
<1> DEFINE p == IndexOf(t, "criteria")
           q == IndexOf(t, "testing")
<1>1. DOMAIN t = 1 .. Len(t)
  OBVIOUS
<1>2. q \in 1 .. Len(t) /\ t[q] = "testing" /\ \A k \in 1 .. q - 1 : t[k] # "testing"
  BY IndexOfFirst
<1>3. Quotes(t, "criteria") =>
        p \in 1 .. Len(t) /\ t[p] = "criteria" /\ \A k \in 1 .. p - 1 : t[k] # "criteria"
  BY IndexOfFirst
<1> HIDE DEF p, q
<1>4. ASSUME CriteriaFirst(t) PROVE Quotes(t, "criteria") /\ p < q
  <2>1. PICK i \in 1 .. Len(t) : t[i] = "criteria" /\ \A k \in 1 .. i : t[k] # "testing"
    BY <1>1, <1>4 DEF CriteriaFirst
  <2>2. Quotes(t, "criteria")
    BY <1>1, <2>1 DEF Quotes
  <2>3. p <= i
    BY <1>3, <2>1, <2>2
  <2>4. i < q
    BY <1>2, <2>1
  <2> QED
    BY <1>2, <1>3, <2>2, <2>3, <2>4
<1>5. ASSUME Quotes(t, "criteria"), p < q PROVE CriteriaFirst(t)
  <2>1. p \in 1 .. Len(t) /\ t[p] = "criteria"
    BY <1>3, <1>5
  <2>2. \A k \in 1 .. p : t[k] # "testing"
    BY <1>2, <1>5, <2>1
  <2> QED
    BY <1>1, <2>1, <2>2 DEF CriteriaFirst
<1>6. CriteriaFirst(t) <=> Quotes(t, "criteria") /\ p < q
  BY <1>4, <1>5
<1> QED
  BY <1>6 DEF p, q

\* The cut begins with a status that fills the rest of its line, or of the
\* section; it ends with one behind a line break.
CutOpen(doc) ==
  LET s == IndexOf(doc, "criteria")
  IN  /\ s < IndexOf(doc, "testing")
      /\ doc[s + 1] = "status" /\ doc[s + 2] \in {"newline", "testing"}
CutClose(doc) ==
  LET e == IndexOf(doc, "testing")
  IN  /\ IndexOf(doc, "criteria") < e
      /\ doc[e - 1] = "status" /\ doc[e - 2] = "newline"

\* When the first of the document's criteria headings is in the text t.
LEMMA CutOpensIn ==
  ASSUME NEW doc, NEW a, NEW t, Stands(doc, a, t, "plain"),
         ~Quotes(a, "criteria"), Quotes(t, "criteria"), Quotes(doc, "testing")
  PROVE  CutOpen(doc) <=> ~Quotes(a, "testing") /\ OpensWithStatus(t)
<1> DEFINE s == IndexOf(doc, "criteria")
           e == IndexOf(doc, "testing")
           p == IndexOf(t, "criteria")
<1>1. /\ doc \in Seq(Word) /\ a \in Seq(Word) /\ t \in Seq(Word)
      /\ Len(doc) \in Nat /\ Len(a) \in Nat /\ Len(t) \in Nat
      /\ Len(a) + Len(t) + 1 <= Len(doc)
      /\ \A i \in 1 .. Len(t) : doc[Len(a) + i] = t[i]
      /\ doc[Len(a) + Len(t) + 1] = "plain"
  BY DEF Stands
<1>2. s = Len(a) + p
  BY FirstInText
<1>3. p \in 1 .. Len(t) /\ t[p] = "criteria"
  BY <1>1, IndexOfFirst
<1>4. e \in 1 .. Len(doc) /\ doc[e] = "testing" /\ \A k \in 1 .. e - 1 : doc[k] # "testing"
  BY <1>1, IndexOfFirst
<1>5. Quotes(a, "testing") <=> e <= Len(a)
  BY FirstBefore
<1>6. OpensWithStatus(t) <=>
        /\ \A k \in 1 .. p - 1 : t[k] # "testing"
        /\ p + 2 <= Len(t) /\ t[p + 1] = "status" /\ t[p + 2] \in {"newline", "testing"}
  BY <1>1, OpensIs
<1>7. CutOpen(doc) <=> s < e /\ doc[s + 1] = "status" /\ doc[s + 2] \in {"newline", "testing"}
  BY DEF CutOpen
<1> HIDE DEF s, e, p
<1>8. ASSUME s < e, doc[s + 1] = "status", doc[s + 2] \in {"newline", "testing"}
      PROVE  ~Quotes(a, "testing") /\ OpensWithStatus(t)
  <2>1. ~Quotes(a, "testing")
    BY <1>1, <1>2, <1>3, <1>4, <1>5, <1>8
  <2>2. \A k \in 1 .. p - 1 : t[k] # "testing"
    <3> SUFFICES ASSUME NEW k \in 1 .. p - 1 PROVE t[k] # "testing"
      OBVIOUS
    <3>1. k \in 1 .. Len(t) /\ Len(a) + k \in 1 .. e - 1
      BY <1>1, <1>2, <1>3, <1>4, <1>8
    <3> QED
      BY <1>1, <1>4, <3>1
  <2>3. p + 1 <= Len(t)
    <3>1. p = Len(t) => s + 1 = Len(a) + Len(t) + 1
      BY <1>1, <1>2, <1>3
    <3>2. p # Len(t)
      BY <1>1, <1>8, <3>1
    <3> QED
      BY <1>1, <1>3, <3>2
  <2>4. p + 2 <= Len(t)
    <3>1. p + 1 = Len(t) => s + 2 = Len(a) + Len(t) + 1
      <4>1. p \in Nat /\ Len(a) \in Nat /\ Len(t) \in Nat
        BY <1>1, <1>3
      <4> QED
        BY <1>2, <4>1
    <3>2. p + 1 # Len(t)
      <4>1. doc[Len(a) + Len(t) + 1] # doc[s + 2]
        BY <1>1, <1>8
      <4> QED
        BY <3>1, <4>1
    <3> QED
      BY <1>1, <1>3, <2>3, <3>2
  <2>5. t[p + 1] = "status" /\ t[p + 2] \in {"newline", "testing"}
    <3>1. p + 1 \in 1 .. Len(t) /\ p + 2 \in 1 .. Len(t)
      BY <1>1, <1>3, <2>4
    <3>2. Len(a) + (p + 1) = s + 1 /\ Len(a) + (p + 2) = s + 2
      BY <1>1, <1>2, <1>3
    <3> QED
      BY <1>1, <1>8, <3>1, <3>2
  <2> QED
    BY <1>6, <2>1, <2>2, <2>4, <2>5
<1>9. ASSUME ~Quotes(a, "testing"), OpensWithStatus(t)
      PROVE  s < e /\ doc[s + 1] = "status" /\ doc[s + 2] \in {"newline", "testing"}
  <2>1. e > Len(a)
    BY <1>1, <1>4, <1>5, <1>9
  <2>2. e # s
    BY <1>1, <1>2, <1>3, <1>4
  <2>3. ASSUME e < s PROVE FALSE
    <3> DEFINE k == e - Len(a)
    <3>1. k \in 1 .. p - 1 /\ k \in 1 .. Len(t) /\ e = Len(a) + k
      BY <1>1, <1>2, <1>3, <1>4, <2>1, <2>3
    <3> HIDE DEF k
    <3>2. doc[e] = t[k] /\ t[k] # "testing"
      BY <1>1, <1>6, <1>9, <3>1
    <3> QED
      BY <1>4, <3>2
  <2>4. p + 1 \in 1 .. Len(t) /\ p + 2 \in 1 .. Len(t)
    BY <1>1, <1>3, <1>6, <1>9
  <2>5. Len(a) + (p + 1) = s + 1 /\ Len(a) + (p + 2) = s + 2
    BY <1>1, <1>2, <1>3
  <2>6. doc[s + 1] = "status" /\ doc[s + 2] \in {"newline", "testing"}
    BY <1>1, <1>6, <1>9, <2>4, <2>5
  <2> QED
    BY <1>1, <1>2, <1>3, <1>4, <2>2, <2>3, <2>6
<1> QED
  BY <1>7, <1>8, <1>9

\* When the first of its testing headings is in the text t.
LEMMA CutClosesIn ==
  ASSUME NEW doc, NEW a, NEW t, NEW x, Stands(doc, a, t, x),
         ~Quotes(a, "testing"), Quotes(t, "testing"), Quotes(doc, "criteria"),
         NEW y, EndsWith(a, y), y # "status",
         y = "newline" /\ t[1] = "status" => ~Quotes(a, "criteria")
  PROVE  CutClose(doc) <=>
           (Quotes(a, "criteria") \/ CriteriaFirst(t)) /\ ClosesWithStatus(t)
<1> DEFINE s == IndexOf(doc, "criteria")
           e == IndexOf(doc, "testing")
           p == IndexOf(t, "criteria")
           q == IndexOf(t, "testing")
<1>1. /\ doc \in Seq(Word) /\ a \in Seq(Word) /\ t \in Seq(Word)
      /\ Len(doc) \in Nat /\ Len(a) \in Nat /\ Len(t) \in Nat
      /\ Len(a) + Len(t) + 1 <= Len(doc)
      /\ \A i \in 1 .. Len(a) : doc[i] = a[i]
      /\ \A i \in 1 .. Len(t) : doc[Len(a) + i] = t[i]
  BY DEF Stands
<1>2. e = Len(a) + q
  BY FirstInText
<1>3. q \in 1 .. Len(t) /\ t[q] = "testing" /\ \A k \in 1 .. q - 1 : t[k] # "testing"
  BY <1>1, IndexOfFirst
<1>4. Len(a) >= 1 /\ a[Len(a)] = y
  BY DEF EndsWith
<1>5. s \in 1 .. Len(doc) /\ doc[s] = "criteria" /\ \A k \in 1 .. s - 1 : doc[k] # "criteria"
  BY <1>1, IndexOfFirst
<1>6. Quotes(a, "criteria") <=> s <= Len(a)
  BY FirstBefore
<1>7. ~Quotes(a, "criteria") /\ Quotes(t, "criteria") => s = Len(a) + p
  BY FirstInText
<1>8. CriteriaFirst(t) <=> Quotes(t, "criteria") /\ p < q
  BY <1>1, CriteriaFirstIs
<1>9. Quotes(t, "criteria") => p \in 1 .. Len(t)
  BY <1>1, IndexOfFirst
<1>10. ClosesWithStatus(t) <=> q > 2 /\ t[q - 1] = "status" /\ t[q - 2] = "newline"
  BY <1>1, ClosesIs
<1>11. CutClose(doc) <=> s < e /\ doc[e - 1] = "status" /\ doc[e - 2] = "newline"
  BY DEF CutClose
<1>12. \A i \in 1 .. Len(t) : t[i] = "criteria" => Quotes(t, "criteria")
  BY <1>1 DEF Quotes
<1> HIDE DEF s, e, p, q
<1>13. s < e <=> Quotes(a, "criteria") \/ CriteriaFirst(t)
  <2>1. CASE Quotes(a, "criteria")
    BY <1>1, <1>2, <1>3, <1>5, <1>6, <2>1
  <2>2. CASE ~Quotes(a, "criteria") /\ Quotes(t, "criteria")
    BY <1>1, <1>2, <1>3, <1>7, <1>8, <1>9, <2>2
  <2>3. CASE ~Quotes(a, "criteria") /\ ~Quotes(t, "criteria")
    <3>1. s > Len(a)
      BY <1>1, <1>5, <1>6, <2>3
    <3>2. ASSUME s < e PROVE FALSE
      <4> DEFINE k == s - Len(a)
      <4>1. k \in 1 .. Len(t) /\ s = Len(a) + k
        <5>1. s \in Nat /\ q \in Nat /\ s < Len(a) + q /\ q <= Len(t)
          BY <1>1, <1>2, <1>3, <1>5, <3>2
        <5> QED
          BY <1>1, <3>1, <5>1
      <4> HIDE DEF k
      <4>2. t[k] = "criteria"
        BY <1>1, <1>5, <4>1
      <4> QED
        BY <1>12, <2>3, <4>1, <4>2
    <3> QED
      BY <1>8, <2>3, <3>2
  <2> QED
    BY <2>1, <2>2, <2>3
<1>14. CASE q = 1
  <2>1. doc[e - 1] = y
    <3>1. e - 1 = Len(a) /\ Len(a) \in 1 .. Len(a)
      BY <1>1, <1>2, <1>4, <1>14
    <3> QED
      BY <1>1, <1>4, <3>1
  <2> QED
    BY <1>10, <1>11, <1>14, <2>1
<1>15. CASE q = 2
  <2>1. doc[e - 1] = t[1] /\ doc[e - 2] = y
    <3>1. /\ e - 1 = Len(a) + 1 /\ 1 \in 1 .. Len(t)
          /\ e - 2 = Len(a) /\ Len(a) \in 1 .. Len(a)
      BY <1>1, <1>2, <1>3, <1>4, <1>15
    <3> QED
      BY <1>1, <1>4, <3>1
  <2>2. CutClose(doc) => ~Quotes(a, "criteria")
    BY <1>11, <2>1
  <2>3. t[1] = "status" => ~CriteriaFirst(t)
    <3> SUFFICES ASSUME t[1] = "status", Quotes(t, "criteria"), p < 2 PROVE FALSE
      BY <1>8, <1>15
    <3>1. p = 1 /\ t[p] = "criteria"
      <4>1. t[IndexOf(t, "criteria")] = "criteria"
        BY <1>1, IndexOfFirst
      <4> QED
        BY <1>9, <4>1 DEF p
    <3> QED
      BY <3>1
  <2> QED
    BY <1>10, <1>11, <1>13, <1>15, <2>1, <2>2, <2>3
<1>16. CASE q > 2
  <2>1. doc[e - 1] = t[q - 1] /\ doc[e - 2] = t[q - 2]
    <3>1. /\ q - 1 \in 1 .. Len(t) /\ e - 1 = Len(a) + (q - 1)
          /\ q - 2 \in 1 .. Len(t) /\ e - 2 = Len(a) + (q - 2)
      BY <1>1, <1>2, <1>3, <1>16
    <3> QED
      BY <1>1, <3>1
  <2> QED
    BY <1>10, <1>11, <1>13, <1>16, <2>1
<1> QED
  BY <1>3, <1>14, <1>15, <1>16

\* The cut of the PRD opens with a status exactly when the request says so.
LEMMA CutOpenIff ==
  ASSUME NEW r \in Requests
  PROVE  CutOpen(GeneratedPrd(r)) <=>
           \/ OpensWithStatus(r.name)
           \/ /\ ~Quotes(r.name, "testing") /\ ~Quotes(r.name, "criteria")
              /\ OpensWithStatus(r.notes)
<1> DEFINE doc == GeneratedPrd(r)
<1>1. Quotes(doc, "criteria") /\ Quotes(doc, "testing")
  BY PrdQuotes
<1>2. Stands(doc, BeforeName, r.name, "plain")
  BY NameStands
<1>3. Stands(doc, BeforeNotes(r), r.notes, "plain")
  BY NotesStand
<1>4. Stands(doc, BeforeCriteria(r), <<"criteria">>, "newline")
  BY CriteriaStand
<1>5. /\ ~Quotes(BeforeName, "criteria") /\ ~Quotes(BeforeName, "testing")
      /\ Quotes(BeforeNotes(r), "criteria") <=> Quotes(r.name, "criteria")
      /\ Quotes(BeforeNotes(r), "testing") <=> Quotes(r.name, "testing")
      /\ Quotes(BeforeCriteria(r), "criteria") <=>
           Quotes(r.name, "criteria") \/ Quotes(r.notes, "criteria")
  BY PrefixQuotes
<1>6. OpensWithStatus(r.name) => Quotes(r.name, "criteria")
  BY TextType, OpensIs
<1>7. OpensWithStatus(r.notes) => Quotes(r.notes, "criteria")
  BY TextType, OpensIs
<1> HIDE DEF doc
<1>8. CASE Quotes(r.name, "criteria")
  <2>1. CutOpen(doc) <=> OpensWithStatus(r.name)
    BY <1>1, <1>2, <1>5, <1>8, CutOpensIn
  <2> QED
    BY <1>8, <2>1 DEF doc
<1>9. CASE ~Quotes(r.name, "criteria") /\ Quotes(r.notes, "criteria")
  <2>1. CutOpen(doc) <=> ~Quotes(BeforeNotes(r), "testing") /\ OpensWithStatus(r.notes)
    BY <1>1, <1>3, <1>5, <1>9, CutOpensIn
  <2> QED
    BY <1>5, <1>6, <1>9, <2>1 DEF doc
<1>10. CASE ~Quotes(r.name, "criteria") /\ ~Quotes(r.notes, "criteria")
  <2> DEFINE c == <<"criteria">>
  <2>1. c \in Seq(Word) /\ Len(c) = 1 /\ c[1] = "criteria" /\ 1 \in 1 .. Len(c)
    BY WrittenType
  <2>2. Quotes(c, "criteria") /\ IndexOf(c, "criteria") = 1
    <3> HIDE DEF c
    <3>1. \A k \in 1 .. 1 - 1 : c[k] # "criteria"
      OBVIOUS
    <3> QED
      BY <2>1, <3>1, FirstIs
  <2>3. Stands(doc, BeforeCriteria(r), c, "newline")
    BY <1>4
  <2> HIDE DEF c
  <2>4. IndexOf(doc, "criteria") = Len(BeforeCriteria(r)) + 1
    BY <1>5, <1>10, <2>2, <2>3, FirstInText
  <2>5. doc[Len(BeforeCriteria(r)) + 1 + 1] = "newline"
    <3>1. doc[Len(BeforeCriteria(r)) + Len(c) + 1] = "newline"
      BY <2>3 DEF Stands
    <3> QED
      BY <2>1, <3>1
  <2>6. ~CutOpen(doc)
    BY <2>4, <2>5 DEF CutOpen
  <2> QED
    BY <1>6, <1>7, <1>10, <2>6 DEF doc
<1> QED
  BY <1>8, <1>9, <1>10

\* And it closes with one exactly when the request says so.
LEMMA CutCloseIff ==
  ASSUME NEW r \in Requests
  PROVE  CutClose(GeneratedPrd(r)) <=>
           \/ CriteriaFirst(r.name) /\ ClosesWithStatus(r.name)
           \/ /\ ~Quotes(r.name, "testing")
              /\ \/ /\ Quotes(r.name, "criteria") \/ CriteriaFirst(r.notes)
                    /\ ClosesWithStatus(r.notes)
                 \/ ~Quotes(r.notes, "testing") /\ ClosesWithStatus(r.description)
<1> DEFINE doc == GeneratedPrd(r)
<1>1. Quotes(doc, "criteria") /\ Quotes(doc, "testing")
  BY PrdQuotes
<1>2. Stands(doc, BeforeName, r.name, "plain")
  BY NameStands
<1>3. Stands(doc, BeforeNotes(r), r.notes, "plain")
  BY NotesStand
<1>4. Stands(doc, BeforeDescription(r), r.description, "plain")
  BY DescriptionStands
<1>5. Stands(doc, BeforeTesting(r), <<"testing">>, "newline")
  BY TestingStands
<1>6. /\ EndsWith(BeforeName, "newline") /\ EndsWith(BeforeNotes(r), "plain")
      /\ EndsWith(BeforeDescription(r), "plain") /\ EndsWith(BeforeTesting(r), "newline")
  BY PrefixEnds
<1>7. /\ ~Quotes(BeforeName, "criteria") /\ ~Quotes(BeforeName, "testing")
      /\ Quotes(BeforeNotes(r), "criteria") <=> Quotes(r.name, "criteria")
      /\ Quotes(BeforeNotes(r), "testing") <=> Quotes(r.name, "testing")
  BY PrefixQuotes
<1>8. /\ Quotes(BeforeDescription(r), "criteria")
      /\ Quotes(BeforeDescription(r), "testing") <=>
           Quotes(r.name, "testing") \/ Quotes(r.notes, "testing")
      /\ Quotes(BeforeTesting(r), "testing") <=>
           \/ Quotes(r.name, "testing") \/ Quotes(r.notes, "testing")
           \/ Quotes(r.description, "testing")
  BY PrefixQuotes
<1>9. ClosesWithStatus(r.name) => Quotes(r.name, "testing")
  BY TextType, ClosesIs
<1>10. ClosesWithStatus(r.notes) => Quotes(r.notes, "testing")
  BY TextType, ClosesIs
<1>11. ClosesWithStatus(r.description) => Quotes(r.description, "testing")
  BY TextType, ClosesIs
<1> HIDE DEF doc
<1>12. CASE Quotes(r.name, "testing")
  <2>1. CutClose(doc) <=>
          (Quotes(BeforeName, "criteria") \/ CriteriaFirst(r.name)) /\ ClosesWithStatus(r.name)
    BY <1>1, <1>2, <1>6, <1>7, <1>12, CutClosesIn
  <2> QED
    BY <1>7, <1>12, <2>1 DEF doc
<1>13. CASE ~Quotes(r.name, "testing") /\ Quotes(r.notes, "testing")
  <2>1. CutClose(doc) <=>
          /\ Quotes(BeforeNotes(r), "criteria") \/ CriteriaFirst(r.notes)
          /\ ClosesWithStatus(r.notes)
    BY <1>1, <1>3, <1>6, <1>7, <1>13, CutClosesIn
  <2> QED
    BY <1>7, <1>9, <1>13, <2>1 DEF doc
<1>14. CASE /\ ~Quotes(r.name, "testing") /\ ~Quotes(r.notes, "testing")
            /\ Quotes(r.description, "testing")
  <2>1. CutClose(doc) <=>
          /\ Quotes(BeforeDescription(r), "criteria") \/ CriteriaFirst(r.description)
          /\ ClosesWithStatus(r.description)
    BY <1>1, <1>4, <1>6, <1>8, <1>14, CutClosesIn
  <2> QED
    BY <1>8, <1>9, <1>10, <1>14, <2>1 DEF doc
<1>15. CASE /\ ~Quotes(r.name, "testing") /\ ~Quotes(r.notes, "testing")
            /\ ~Quotes(r.description, "testing")
  <2> DEFINE c == <<"testing">>
             a == BeforeTesting(r)
  <2>1. c \in Seq(Word) /\ Len(c) = 1 /\ c[1] = "testing" /\ 1 \in 1 .. Len(c)
    BY WrittenType
  <2>2. Quotes(c, "testing") /\ IndexOf(c, "testing") = 1
    <3> HIDE DEF c
    <3>1. \A k \in 1 .. 1 - 1 : c[k] # "testing"
      OBVIOUS
    <3> QED
      BY <2>1, <3>1, FirstIs
  <2>3. Stands(doc, a, c, "newline") /\ ~Quotes(a, "testing") /\ EndsWith(a, "newline")
    BY <1>5, <1>6, <1>8, <1>15
  <2> HIDE DEF c, a
  <2>4. IndexOf(doc, "testing") = Len(a) + 1
    BY <2>2, <2>3, FirstInText
  <2>5. a \in Seq(Word) /\ Len(a) \in Nat /\ Len(a) \in 1 .. Len(a) /\ a[Len(a)] = "newline"
    BY <2>3 DEF EndsWith
  <2>6. doc[Len(a)] = "newline"
    BY <2>3, <2>5 DEF Stands
  <2>7. Len(a) + 1 - 1 = Len(a)
    BY <2>5
  <2>8. ~CutClose(doc)
    BY <2>4, <2>6, <2>7 DEF CutClose
  <2> QED
    BY <1>9, <1>10, <1>11, <1>15, <2>8 DEF doc
<1> QED
  BY <1>12, <1>13, <1>14, <1>15

\* Both ends together: the cut begins or ends with a status line of its own
\* exactly when CutLeavesStatus says so.
LEMMA CutIff ==
  ASSUME NEW r \in Requests
  PROVE  CutOpen(GeneratedPrd(r)) \/ CutClose(GeneratedPrd(r)) <=> CutLeavesStatus(r)
  BY CutOpenIff, CutCloseIff DEF CutLeavesStatus

-----------------------------------------------------------------------------
(***************************************************************************)
(* What the scan does not find.                                            *)
(***************************************************************************)

\* A status with a line to itself, the ends of the words d counting as line
\* breaks: around them there may be some.
ReadyAt(d, k) ==
  k \in 1 .. Len(d) /\ d[k] = "status" /\ StartsLine(d, k) /\ EndsLine(d, k)
Silent(d) == d \in Seq(Word) /\ \A k \in 1 .. Len(d) : ~ReadyAt(d, k)

\* Joining makes no ready line that neither part has.
LEMMA ReadyJoin ==
  ASSUME NEW s \in Seq(Word), NEW u \in Seq(Word), NEW k, ReadyAt(s \o u, k)
  PROVE  ReadyAt(s, k) \/ (k > Len(s) /\ ReadyAt(u, k - Len(s)))
<1> DEFINE d == s \o u
<1>1. /\ d \in Seq(Word) /\ Len(d) = Len(s) + Len(u) /\ Len(s) \in Nat /\ Len(u) \in Nat
      /\ \A i \in 1 .. Len(s) : d[i] = s[i]
      /\ \A i \in 1 .. Len(u) : d[Len(s) + i] = u[i]
  BY Joined, Zenon
<1>2. /\ k \in 1 .. Len(d) /\ d[k] = "status"
      /\ k = 1 \/ d[k - 1] = "newline"
      /\ k = Len(d) \/ d[k + 1] = "newline"
  BY DEF ReadyAt, StartsLine, EndsLine
<1> HIDE DEF d
<1>3. CASE k <= Len(s)
  <2>1. k \in 1 .. Len(s) /\ s[k] = "status"
    BY <1>1, <1>2, <1>3
  <2>2. k = 1 \/ s[k - 1] = "newline"
    <3> SUFFICES ASSUME k # 1 PROVE s[k - 1] = "newline"
      OBVIOUS
    <3>1. k - 1 \in 1 .. Len(s)
      BY <1>1, <2>1
    <3> QED
      BY <1>1, <1>2, <3>1
  <2>3. k = Len(s) \/ s[k + 1] = "newline"
    <3> SUFFICES ASSUME k # Len(s) PROVE s[k + 1] = "newline"
      OBVIOUS
    <3>1. k + 1 \in 1 .. Len(s) /\ k # Len(d)
      BY <1>1, <2>1
    <3> QED
      BY <1>1, <1>2, <3>1
  <2> QED
    BY <2>1, <2>2, <2>3 DEF ReadyAt, StartsLine, EndsLine
<1>4. CASE k > Len(s)
  <2> DEFINE j == k - Len(s)
  <2>1. j \in 1 .. Len(u) /\ k = Len(s) + j
    BY <1>1, <1>2, <1>4
  <2> HIDE DEF j
  <2>2. u[j] = "status"
    BY <1>1, <1>2, <2>1
  <2>3. j = 1 \/ u[j - 1] = "newline"
    <3> SUFFICES ASSUME j # 1 PROVE u[j - 1] = "newline"
      OBVIOUS
    <3>1. j - 1 \in 1 .. Len(u) /\ k - 1 = Len(s) + (j - 1) /\ k # 1
      BY <1>1, <2>1
    <3> QED
      BY <1>1, <1>2, <3>1
  <2>4. j = Len(u) \/ u[j + 1] = "newline"
    <3> SUFFICES ASSUME j # Len(u) PROVE u[j + 1] = "newline"
      OBVIOUS
    <3>1. j + 1 \in 1 .. Len(u) /\ k + 1 = Len(s) + (j + 1) /\ k # Len(d)
      BY <1>1, <2>1
    <3> QED
      BY <1>1, <1>2, <3>1
  <2>5. ReadyAt(u, j)
    BY <2>1, <2>2, <2>3, <2>4 DEF ReadyAt, StartsLine, EndsLine
  <2> QED
    BY <1>4, <2>5 DEF j
<1> QED
  BY <1>1, <1>2, <1>3, <1>4

\* A status line of a concatenation is in the one part that has any.
LEMMA ReadyBefore ==
  ASSUME NEW s \in Seq(Word), NEW u, Silent(u), NEW k, ReadyAt(s \o u, k)
  PROVE  ReadyAt(s, k)
<1>1. u \in Seq(Word) /\ \A j : ~ReadyAt(u, j)
  BY DEF Silent, ReadyAt
<1> QED
  BY <1>1, ReadyJoin

LEMMA SilentTogether ==
  ASSUME NEW s, Silent(s), NEW u, Silent(u)
  PROVE  Silent(s \o u)
<1>1. s \in Seq(Word) /\ u \in Seq(Word) /\ \A j : ~ReadyAt(s, j)
  BY DEF Silent, ReadyAt
<1>2. s \o u \in Seq(Word)
  BY <1>1
<1>3. \A k : ~ReadyAt(s \o u, k)
  BY <1>1, ReadyBefore
<1> QED
  BY <1>2, <1>3 DEF Silent

\* The generator's own words have no status line.
LEMMA WrittenSilent ==
  /\ Silent(<<"plain">>) /\ Silent(<<"newline">>) /\ Silent(<<"plain", "newline">>)
  /\ Silent(<<"newline", "heading", "newline">>)
  /\ Silent(<<"newline", "criteria", "newline">>)
  /\ Silent(<<"newline", "testing", "newline", "plain">>)
<1> DEFINE a == <<"plain">>
           b == <<"newline">>
           c == <<"plain", "newline">>
           d == <<"newline", "heading", "newline">>
           e == <<"newline", "criteria", "newline">>
           f == <<"newline", "testing", "newline", "plain">>
<1>1. /\ a \in Seq(Word) /\ b \in Seq(Word) /\ c \in Seq(Word) /\ d \in Seq(Word)
      /\ e \in Seq(Word) /\ f \in Seq(Word)
  BY DEF Word
<1>2. /\ \A i \in 1 .. Len(a) : a[i] # "status"
      /\ \A i \in 1 .. Len(b) : b[i] # "status"
      /\ \A i \in 1 .. Len(c) : c[i] # "status"
  OBVIOUS
<1>3. /\ \A i \in 1 .. Len(d) : d[i] # "status"
      /\ \A i \in 1 .. Len(e) : e[i] # "status"
      /\ \A i \in 1 .. Len(f) : f[i] # "status"
  OBVIOUS
<1> HIDE DEF a, b, c, d, e, f
<1>4. \A s \in Seq(Word) : (\A i \in 1 .. Len(s) : s[i] # "status") => Silent(s)
  BY DEF Silent, ReadyAt
<1>5. Silent(a) /\ Silent(b) /\ Silent(c) /\ Silent(d) /\ Silent(e) /\ Silent(f)
  BY <1>1, <1>2, <1>3, <1>4
<1> QED
  BY <1>5 DEF a, b, c, d, e, f

LEMMA SectionSilent ==
  ASSUME NEW t, Silent(t)
  PROVE  Silent(Section(t))
  BY WrittenSilent, SilentTogether DEF Section

\* Behind a word and in front of another, only a status line inside the text
\* is left; in front of a line break, its last line counts too.
LEMMA WrappedReady ==
  ASSUME NEW t \in Seq(Word), NEW w \in {"plain", "newline"}, NEW k,
         ReadyAt(<<"plain">> \o t \o <<w>>, k)
  PROVE  /\ k - 1 \in 2 .. Len(t) /\ t[k - 1] = "status" /\ t[k - 2] = "newline"
         /\ (k - 1 = Len(t) /\ w = "newline") \/ (k - 1 < Len(t) /\ t[k] = "newline")
<1> DEFINE p == <<"plain">>
           v == <<w>>
           u == p \o t
           d == u \o v
<1>1. /\ p \in Seq(Word) /\ Len(p) = 1 /\ p[1] = "plain"
      /\ v \in Seq(Word) /\ Len(v) = 1 /\ v[1] = w
  BY DEF Word
<1>2. ReadyAt(d, k)
  OBVIOUS
<1> HIDE DEF p, v
<1>3. /\ u \in Seq(Word) /\ Len(u) = Len(p) + Len(t) /\ Len(t) \in Nat
      /\ \A i \in 1 .. Len(p) : u[i] = p[i]
      /\ \A i \in 1 .. Len(t) : u[Len(p) + i] = t[i]
  BY <1>1, Joined, Zenon
<1> HIDE DEF u
<1>4. /\ d \in Seq(Word) /\ Len(d) = Len(u) + Len(v)
      /\ \A i \in 1 .. Len(u) : d[i] = u[i]
      /\ \A i \in 1 .. Len(v) : d[Len(u) + i] = v[i]
  BY <1>1, <1>3, Joined, Zenon
<1> HIDE DEF d
<1>5. Len(d) = Len(t) + 2 /\ d[1] = "plain" /\ d[Len(t) + 2] = w
  <2>1. Len(u) = Len(t) + 1 /\ 1 \in 1 .. Len(u) /\ 1 \in 1 .. Len(p) /\ 1 \in 1 .. Len(v)
    BY <1>1, <1>3
  <2>2. d[1] = p[1] /\ d[Len(u) + 1] = v[1]
    BY <1>3, <1>4, <2>1
  <2>3. Len(u) + 1 = Len(t) + 2
    BY <1>3, <2>1
  <2> QED
    BY <1>1, <1>3, <1>4, <2>1, <2>2, <2>3
<1>6. ASSUME NEW i \in 1 .. Len(t) PROVE d[i + 1] = t[i]
  <2>1. i + 1 \in 1 .. Len(u) /\ i + 1 = Len(p) + i
    BY <1>1, <1>3
  <2> QED
    BY <1>3, <1>4, <2>1
<1>7. /\ k \in 1 .. Len(t) + 2 /\ d[k] = "status"
      /\ k = 1 \/ d[k - 1] = "newline"
      /\ k = Len(t) + 2 \/ d[k + 1] = "newline"
  BY <1>2, <1>5 DEF ReadyAt, StartsLine, EndsLine
<1>8. k # 1 /\ k # 2 /\ k # Len(t) + 2
  <2>1. k # 1 /\ k # Len(t) + 2
    BY <1>5, <1>7
  <2>2. ASSUME k = 2 PROVE FALSE
    <3>1. d[1] = "newline"
      BY <1>7, <2>2
    <3> QED
      BY <1>5, <3>1
  <2> QED
    BY <2>1, <2>2
<1>9. k - 1 \in 2 .. Len(t) /\ k - 1 \in 1 .. Len(t) /\ k - 2 \in 1 .. Len(t)
  BY <1>3, <1>7, <1>8
<1>10. d[k] = t[k - 1]
  <2>1. k = (k - 1) + 1
    BY <1>7
  <2> QED
    BY <1>6, <1>9, <2>1
<1>11. d[k - 1] = t[k - 2]
  <2>1. k - 1 = (k - 2) + 1
    BY <1>7
  <2> QED
    BY <1>6, <1>9, <2>1
<1>12. t[k - 1] = "status" /\ t[k - 2] = "newline"
  BY <1>7, <1>8, <1>10, <1>11
<1>13. CASE k - 1 = Len(t)
  <2>1. k + 1 = Len(t) + 2
    BY <1>3, <1>7, <1>13
  <2>2. w = "newline"
    BY <1>5, <1>7, <1>8, <2>1
  <2> QED
    BY <1>9, <1>12, <1>13, <2>2
<1>14. CASE k - 1 # Len(t)
  <2>1. k \in Nat /\ k - 1 <= Len(t) /\ k - 1 >= 2
    BY <1>7, <1>9
  <2>2. k \in 1 .. Len(t) /\ k - 1 < Len(t)
    <3>1. Len(t) \in Nat
      BY <1>3
    <3> QED
      BY <1>14, <2>1, <3>1
  <2>3. d[k + 1] = t[k]
    BY <1>6, <2>2
  <2>4. t[k] = "newline"
    BY <1>7, <1>8, <2>3
  <2> QED
    BY <1>9, <1>12, <2>2, <2>4
<1> QED
  BY <1>13, <1>14

\* No status line inside the text, whatever its ends stand next to.
Calm(t) == t \in Seq(Word) /\ \A k : ~ReadyIn(t, k)

\* A text without a status line leaves none.
LEMMA TextCalm ==
  ASSUME NEW t \in Seq(Word), ~StatusLine(t)
  PROVE  Calm(t)
<1>1. ASSUME NEW k, ReadyIn(t, k) PROVE FALSE
  <2>1. k \in 2 .. Len(t) - 1 /\ t[k - 1] = "newline" /\ t[k] = "status" /\ t[k + 1] = "newline"
    BY <1>1 DEF ReadyIn
  <2>2. k \in DOMAIN t /\ k > 1
    BY <2>1
  <2> QED
    BY <2>1, <2>2 DEF StatusLine, StatusLineAt, StartsLine, EndsLine
<1> QED
  BY <1>1 DEF Calm

\* The name is calm: a sentence goes on behind it.
LEMMA NameCalm ==
  ASSUME NEW t \in Seq(Word), ~StatusLine(t \o <<"plain">>)
  PROVE  Calm(t)
<1> DEFINE p == <<"plain">>
           d == t \o p
<1>1. p \in Seq(Word) /\ Len(p) = 1
  BY WrittenType
<1>2. ~StatusLine(d)
  OBVIOUS
<1> HIDE DEF p
<1>3. /\ d \in Seq(Word) /\ Len(d) = Len(t) + Len(p) /\ Len(t) \in Nat
      /\ \A i \in 1 .. Len(t) : d[i] = t[i]
  BY <1>1, Joined, Zenon
<1> HIDE DEF d
<1>4. ASSUME NEW k, ReadyIn(t, k) PROVE FALSE
  <2>1. k \in 2 .. Len(t) - 1 /\ t[k - 1] = "newline" /\ t[k] = "status" /\ t[k + 1] = "newline"
    BY <1>4 DEF ReadyIn
  <2>2. /\ k - 1 \in 1 .. Len(t) /\ k \in 1 .. Len(t) /\ k + 1 \in 1 .. Len(t)
        /\ k \in DOMAIN d /\ k > 1
    <3>1. DOMAIN d = 1 .. Len(d)
      BY <1>3
    <3> QED
      BY <1>1, <1>3, <2>1, <3>1
  <2>3. d[k - 1] = "newline" /\ d[k] = "status" /\ d[k + 1] = "newline"
    BY <1>3, <2>1, <2>2
  <2> QED
    BY <1>2, <2>2, <2>3 DEF StatusLine, StatusLineAt, StartsLine, EndsLine
<1> QED
  BY <1>4 DEF Calm

\* And so is a text of which the story shows no capitals.
LEMMA LoweredCalm ==
  ASSUME NEW t, Calm(t)
  PROVE  Calm(Lowered(t))
<1> DEFINE l == Lowered(t)
<1>1. t \in Seq(Word) /\ l \in Seq(Word)
  BY RenderedType DEF Calm
<1>2. Len(l) = Len(t) /\ \A i \in 1 .. Len(t) :
        /\ l[i] = "status" => t[i] = "status"
        /\ l[i] = "newline" => t[i] = "newline"
  <2>1. DOMAIN l = DOMAIN t /\ DOMAIN t = 1 .. Len(t) /\ DOMAIN l = 1 .. Len(l)
    BY <1>1 DEF Lowered
  <2>2. Len(l) \in Nat /\ Len(t) \in Nat
    BY <1>1
  <2>3. Len(l) = Len(t)
    <3> HIDE DEF l
    <3> QED
      BY <2>1, <2>2
  <2> QED
    BY <2>1, <2>3 DEF Lowered
<1> HIDE DEF l
<1>3. ASSUME NEW k, ReadyIn(l, k) PROVE ReadyIn(t, k)
  <2>1. k \in 2 .. Len(l) - 1 /\ l[k - 1] = "newline" /\ l[k] = "status" /\ l[k + 1] = "newline"
    BY <1>3 DEF ReadyIn
  <2>2. /\ k - 1 \in 1 .. Len(t) /\ k \in 1 .. Len(t) /\ k + 1 \in 1 .. Len(t)
        /\ k \in 2 .. Len(t) - 1
    BY <1>1, <1>2, <2>1
  <2> QED
    BY <1>2, <2>1, <2>2 DEF ReadyIn
<1>4. Calm(l)
  BY <1>1, <1>3 DEF Calm
<1> QED
  BY <1>4 DEF l

LEMMA WithinSilent ==
  ASSUME NEW t, Calm(t)
  PROVE  Silent(Within(t))
<1>1. t \in Seq(Word) /\ Within(t) \in Seq(Word)
  BY RenderedType DEF Calm
<1>2. ASSUME NEW k, ReadyAt(Within(t), k) PROVE FALSE
  <2>1. ReadyAt(<<"plain">> \o t \o <<"plain">>, k)
    BY <1>2 DEF Within
  <2>2. /\ k - 1 \in 2 .. Len(t) /\ t[k - 1] = "status" /\ t[k - 2] = "newline"
        /\ k - 1 < Len(t) /\ t[k] = "newline"
    BY <1>1, <2>1, WrappedReady
  <2>3. k \in Int
    BY <1>2 DEF ReadyAt
  <2>4. /\ k - 1 \in 2 .. Len(t) - 1 /\ (k - 1) - 1 = k - 2 /\ (k - 1) + 1 = k
    BY <1>1, <2>2, <2>3
  <2>5. ReadyIn(t, k - 1)
    BY <2>2, <2>4 DEF ReadyIn
  <2> QED
    BY <2>5 DEF Calm
<1> QED
  BY <1>1, <1>2 DEF Silent

\* At the end of a line, its last line counts too.
LEMMA ItemReady ==
  ASSUME NEW t \in Seq(Word), NEW k, ReadyAt(Item(t), k)
  PROVE  k - 1 \in DOMAIN t /\ StatusLineAt(t, k - 1)
<1>1. ReadyAt(<<"plain">> \o t \o <<"newline">>, k)
  BY DEF Item
<1>2. /\ k - 1 \in 2 .. Len(t) /\ t[k - 1] = "status" /\ t[k - 2] = "newline"
      /\ k - 1 = Len(t) \/ t[k] = "newline"
  BY <1>1, WrappedReady
<1>3. k \in Int
  BY DEF ReadyAt
<1>4. /\ k - 1 > 1 /\ (k - 1) - 1 = k - 2 /\ (k - 1) + 1 = k /\ k - 1 \in DOMAIN t
  BY <1>2, <1>3
<1> QED
  BY <1>2, <1>4 DEF StatusLineAt, StartsLine, EndsLine

LEMMA ItemSilent ==
  ASSUME NEW t \in Seq(Word), ~StatusLine(t)
  PROVE  Silent(Item(t))
<1>1. Item(t) \in Seq(Word)
  BY RenderedType
<1>2. \A k : ~ReadyAt(Item(t), k)
  BY ItemReady DEF StatusLine
<1> QED
  BY <1>1, <1>2 DEF Silent

\* Below a heading and within its line, the first line counts.
LEMMA TitledReady ==
  ASSUME NEW t, Calm(t), NEW k, ReadyAt(t \o <<"plain">>, k)
  PROVE  k = 1
<1> DEFINE p == <<"plain">>
           d == t \o p
<1>1. p \in Seq(Word) /\ Len(p) = 1 /\ p[1] = "plain"
  BY WrittenType
<1>2. ReadyAt(d, k)
  OBVIOUS
<1> HIDE DEF p
<1>3. t \in Seq(Word)
  BY DEF Calm
<1>4. /\ d \in Seq(Word) /\ Len(d) = Len(t) + Len(p) /\ Len(t) \in Nat
      /\ \A i \in 1 .. Len(t) : d[i] = t[i]
      /\ \A i \in 1 .. Len(p) : d[Len(t) + i] = p[i]
  BY <1>1, <1>3, Joined, Zenon
<1> HIDE DEF d
<1>5. Len(d) = Len(t) + 1 /\ d[Len(t) + 1] = "plain"
  BY <1>1, <1>4
<1>6. /\ k \in 1 .. Len(t) + 1 /\ d[k] = "status"
      /\ k = 1 \/ d[k - 1] = "newline"
      /\ k = Len(t) + 1 \/ d[k + 1] = "newline"
  BY <1>2, <1>5 DEF ReadyAt, StartsLine, EndsLine
<1>7. k # Len(t) + 1
  BY <1>5, <1>6
<1>8. k # Len(t)
  <2>1. k = Len(t) => d[k + 1] = "plain"
    BY <1>5
  <2> QED
    BY <1>6, <1>7, <2>1
<1> SUFFICES ASSUME k # 1 PROVE FALSE
  OBVIOUS
<1>9. /\ k \in 2 .. Len(t) - 1
      /\ k - 1 \in 1 .. Len(t) /\ k \in 1 .. Len(t) /\ k + 1 \in 1 .. Len(t)
  BY <1>4, <1>6, <1>7, <1>8
<1>10. ReadyIn(t, k)
  BY <1>4, <1>6, <1>7, <1>9 DEF ReadyIn
<1> QED
  BY <1>10 DEF Calm

\* The PRD of calm texts has a ready line at most where its first section
\* begins, and so in front of everything the cut can find.
LEMMA PrdReady ==
  ASSUME NEW r \in Requests, ~TextLeavesStatus(r), NEW k, ReadyAt(GeneratedPrd(r), k)
  PROVE  k = 5
<1> DEFINE p == <<"plain">>
           n == <<"newline">>
           head == <<"newline", "heading", "newline">>
           c == <<"newline", "criteria", "newline">>
           e == <<"newline", "testing", "newline", "plain">>
           w == Within(r.name)
           l == Within(Lowered(r.description))
           d == Within(r.description)
           m == Within(r.notes)
           ps == Section(p)
           ws == Section(w)
           ss == Section(Stories(r))
           last == Section(Item(r.description) \o Item(r.notes))
           title == r.name \o p
<1>1. r.name \in Seq(Word) /\ r.description \in Seq(Word) /\ r.notes \in Seq(Word)
  BY TextType
<1>2. /\ ~StatusLine(r.description) /\ ~StatusLine(r.notes) /\ ~StatusLine(r.name \o <<"plain">>)
  BY DEF TextLeavesStatus
<1>3. Calm(r.name) /\ Calm(r.description) /\ Calm(r.notes)
  BY <1>1, <1>2, NameCalm, TextCalm
<1>4. /\ Silent(p) /\ Silent(n) /\ Silent(head) /\ Silent(c) /\ Silent(e)
      /\ p \in Seq(Word) /\ Len(p) = 1 /\ head \in Seq(Word) /\ Len(head) = 3
  BY WrittenSilent, WrittenType
<1>5. Silent(w) /\ Silent(d) /\ Silent(m)
  BY <1>3, WithinSilent
<1>6. Silent(l)
  BY <1>3, LoweredCalm, WithinSilent
<1>7. Silent(Item(r.description)) /\ Silent(Item(r.notes))
  BY <1>1, <1>2, ItemSilent
<1>8. Silent(Stories(r))
  <2>1. Stories(r) = w \o l \o n \o m
    BY DEF Stories
  <2> HIDE DEF w, l, n, m
  <2>2. Silent(w \o l)
    BY <1>5, <1>6, SilentTogether
  <2>3. Silent(w \o l \o n)
    BY <1>4, <2>2, SilentTogether
  <2> QED
    BY <1>5, <2>1, <2>3, SilentTogether
<1>9. Silent(AcceptanceCriteria(r))
  <2>1. AcceptanceCriteria(r) = w \o d \o n \o m
    BY DEF AcceptanceCriteria
  <2> HIDE DEF w, d, n, m
  <2>2. Silent(w \o d)
    BY <1>5, SilentTogether
  <2>3. Silent(w \o d \o n)
    BY <1>4, <2>2, SilentTogether
  <2> QED
    BY <1>5, <2>1, <2>3, SilentTogether
<1>10. Silent(Item(r.description) \o Item(r.notes))
  BY <1>7, SilentTogether
<1>11. Silent(ps) /\ Silent(ws) /\ Silent(ss) /\ Silent(last)
  <2> HIDE DEF p, w
  <2> QED
    BY <1>4, <1>5, <1>8, <1>10, SectionSilent
<1>12. /\ PrdSolution(r) = PrdProblem(r) \o ws
       /\ PrdStories(r) = PrdSolution(r) \o ss
       /\ PrdDecisions(r) = PrdStories(r) \o ws
       /\ PrdOpened(r) = PrdDecisions(r) \o c
       /\ PrdListed(r) = PrdOpened(r) \o AcceptanceCriteria(r)
       /\ PrdClosed(r) = PrdListed(r) \o e
       /\ GeneratedPrd(r) = PrdClosed(r) \o ps \o ps \o last
  BY PrdType DEF PrdSolution, PrdStories, PrdDecisions, PrdOpened, PrdListed, PrdClosed
<1>13. /\ PrdProblem(r) \in Seq(Word) /\ PrdSolution(r) \in Seq(Word)
       /\ PrdStories(r) \in Seq(Word) /\ PrdDecisions(r) \in Seq(Word)
       /\ PrdOpened(r) \in Seq(Word) /\ PrdListed(r) \in Seq(Word)
       /\ PrdClosed(r) \in Seq(Word)
  BY PrdType
<1>14. PrdProblem(r) = p \o (head \o title)
  BY DEF PrdProblem, Section
<1>15. title \in Seq(Word) /\ \A i : ReadyAt(title, i) => i = 1
  <2>1. title \in Seq(Word)
    BY <1>1, <1>4
  <2> QED
    BY <1>3, <2>1, TitledReady
<1> HIDE DEF p, n, head, c, e, w, l, d, m, ps, ws, ss, last, title
<1>16. ReadyAt(PrdClosed(r), k)
  <2>1. ps \in Seq(Word) /\ PrdClosed(r) \o ps \in Seq(Word)
    BY <1>11, <1>13 DEF Silent
  <2>2. PrdClosed(r) \o ps \o ps \in Seq(Word)
    BY <2>1
  <2>3. ReadyAt(PrdClosed(r) \o ps \o ps, k)
    BY <1>11, <1>12, <2>2, ReadyBefore
  <2>4. ReadyAt(PrdClosed(r) \o ps, k)
    BY <1>11, <2>1, <2>3, ReadyBefore
  <2> QED
    BY <1>11, <1>13, <2>4, ReadyBefore
<1>17. ReadyAt(PrdOpened(r), k)
  <2>1. ReadyAt(PrdListed(r), k)
    BY <1>4, <1>12, <1>13, <1>16, ReadyBefore
  <2> QED
    BY <1>9, <1>12, <1>13, <2>1, ReadyBefore
<1>18. ReadyAt(PrdStories(r), k)
  <2>1. ReadyAt(PrdDecisions(r), k)
    BY <1>4, <1>12, <1>13, <1>17, ReadyBefore
  <2> QED
    BY <1>11, <1>12, <1>13, <2>1, ReadyBefore
<1>19. ReadyAt(PrdProblem(r), k)
  <2>1. ReadyAt(PrdSolution(r), k)
    BY <1>11, <1>12, <1>13, <1>18, ReadyBefore
  <2> QED
    BY <1>11, <1>12, <1>13, <2>1, ReadyBefore
<1>20. /\ \A i : ~ReadyAt(p, i)
       /\ \A i : ~ReadyAt(head, i)
  BY <1>4 DEF Silent, ReadyAt
<1>21. head \o title \in Seq(Word)
  BY <1>4, <1>15
<1>22. ReadyAt(p \o (head \o title), k)
  BY <1>14, <1>19
<1>23. ReadyAt(head \o title, k - Len(p))
  BY <1>4, <1>20, <1>21, <1>22, ReadyJoin
<1>24. ReadyAt(title, k - Len(p) - Len(head))
  BY <1>4, <1>15, <1>20, <1>23, ReadyJoin
<1>25. k - 1 - 3 = 1
  BY <1>4, <1>15, <1>24
<1>26. k \in Int
  BY DEF ReadyAt
<1> QED
  BY <1>25, <1>26

\* The words of a section that is not empty by the order of its headings.
LEMMA SectionWords ==
  ASSUME NEW doc \in Seq(Word), Quotes(doc, "criteria"), Quotes(doc, "testing"),
         IndexOf(doc, "criteria") < IndexOf(doc, "testing")
  PROVE  LET s == IndexOf(doc, "criteria")
             e == IndexOf(doc, "testing")
             x == extractSection(doc)
         IN  /\ x \in Seq(Word) /\ Len(x) = e - 1 - s
             /\ \A j \in 1 .. e - 1 - s : x[j] = doc[s + j]
<1> DEFINE s == IndexOf(doc, "criteria")
           e == IndexOf(doc, "testing")
           x == extractSection(doc)
<1>1. s \in 1 .. Len(doc) /\ e \in 1 .. Len(doc) /\ s < e
  BY IndexOfFirst
<1>2. x = IF e <= s THEN <<"plain">> ELSE SubSeq(doc, s + 1, e - 1)
  BY DEF extractSection
<1> HIDE DEF s, e, x
<1>3. x = SubSeq(doc, s + 1, e - 1)
  BY <1>1, <1>2
<1>4. s + 1 \in 1 .. Len(doc) + 1 /\ e - 1 \in 0 .. Len(doc) /\ Len(doc) \in Nat
  BY <1>1
<1>5. x \in Seq(Word)
  BY <1>1, <1>3
<1>6. Len(x) = e - 1 - s
  BY <1>1, <1>3
<1>7. ASSUME NEW j \in 1 .. e - 1 - s PROVE x[j] = doc[s + j]
  BY <1>1, <1>3
<1>8. x \in Seq(Word) /\ Len(x) = e - 1 - s /\ \A j \in 1 .. e - 1 - s : x[j] = doc[s + j]
  BY <1>5, <1>6, <1>7
<1> QED
  BY <1>8 DEF s, e, x

\* A ready line of the section is its first, its last, or one of the PRD.
LEMMA SectionReady ==
  ASSUME NEW doc \in Seq(Word), Quotes(doc, "criteria"), Quotes(doc, "testing"),
         IndexOf(doc, "criteria") < IndexOf(doc, "testing"),
         NEW j, ReadyAt(extractSection(doc), j)
  PROVE  CutOpen(doc) \/ CutClose(doc) \/ ReadyAt(doc, IndexOf(doc, "criteria") + j)
<1> DEFINE s == IndexOf(doc, "criteria")
           e == IndexOf(doc, "testing")
           x == extractSection(doc)
<1>1. s \in 1 .. Len(doc) /\ e \in 1 .. Len(doc) /\ s < e /\ doc[e] = "testing"
  BY IndexOfFirst
<1>2. Len(x) = e - 1 - s /\ \A i \in 1 .. e - 1 - s : x[i] = doc[s + i]
  BY SectionWords
<1>3. CutOpen(doc) <=> s < e /\ doc[s + 1] = "status" /\ doc[s + 2] \in {"newline", "testing"}
  BY DEF CutOpen
<1>4. CutClose(doc) <=> s < e /\ doc[e - 1] = "status" /\ doc[e - 2] = "newline"
  BY DEF CutClose
<1>5. /\ j \in 1 .. Len(x) /\ x[j] = "status"
      /\ j = 1 \/ x[j - 1] = "newline"
      /\ j = Len(x) \/ x[j + 1] = "newline"
  BY DEF ReadyAt, StartsLine, EndsLine
<1> HIDE DEF s, e, x
<1>6. j \in 1 .. e - 1 - s /\ doc[s + j] = "status"
  BY <1>2, <1>5
<1>7. j # e - 1 - s => j + 1 \in 1 .. e - 1 - s /\ doc[s + (j + 1)] = "newline"
  BY <1>1, <1>2, <1>5, <1>6
<1>8. j # 1 => j - 1 \in 1 .. e - 1 - s /\ doc[s + (j - 1)] = "newline"
  BY <1>1, <1>2, <1>5, <1>6
<1>9. CASE j = 1
  <2>1. doc[s + 2] \in {"newline", "testing"}
    <3>1. CASE e - 1 - s = 1
      <4>1. e = s + 2
        BY <1>1, <3>1
      <4> QED
        BY <1>1, <4>1
    <3>2. CASE e - 1 - s # 1
      <4>1. doc[s + (1 + 1)] = "newline"
        BY <1>7, <1>9, <3>2
      <4> QED
        BY <4>1
    <3> QED
      BY <3>1, <3>2
  <2> QED
    BY <1>1, <1>3, <1>6, <1>9, <2>1
<1>10. CASE j # 1 /\ j = e - 1 - s
  <2>1. s + j = e - 1 /\ s + (j - 1) = e - 2
    BY <1>1, <1>6, <1>10
  <2> QED
    BY <1>1, <1>4, <1>6, <1>8, <1>10, <2>1
<1>11. CASE j # 1 /\ j # e - 1 - s
  <2>1. /\ s + j \in 1 .. Len(doc)
        /\ s + (j - 1) = s + j - 1 /\ s + (j + 1) = s + j + 1
    BY <1>1, <1>6
  <2>2. ReadyAt(doc, s + j)
    <3> DEFINE k == s + j
    <3>1. k \in 1 .. Len(doc) /\ doc[k] = "status"
      BY <1>6, <2>1
    <3>2. doc[k - 1] = "newline" /\ doc[k + 1] = "newline"
      <4>1. doc[s + (j - 1)] = "newline" /\ doc[s + (j + 1)] = "newline"
        BY <1>7, <1>8, <1>11
      <4>2. k - 1 = s + (j - 1) /\ k + 1 = s + (j + 1)
        BY <1>1, <1>6
      <4> QED
        BY <4>1, <4>2
    <3> HIDE DEF k
    <3>3. ReadyAt(doc, k)
      BY <3>1, <3>2 DEF ReadyAt, StartsLine, EndsLine
    <3> QED
      BY <3>3 DEF k
  <2> QED
    BY <2>2 DEF s
<1> QED
  BY <1>9, <1>10, <1>11

\* Where the cut opens or closes with a status, the section has it on a line.
LEMMA CutShows ==
  ASSUME NEW doc \in Seq(Word), Quotes(doc, "criteria"), Quotes(doc, "testing"),
         CutOpen(doc) \/ CutClose(doc)
  PROVE  \E j : ReadyAt(extractSection(doc), j)
<1> DEFINE s == IndexOf(doc, "criteria")
           e == IndexOf(doc, "testing")
           x == extractSection(doc)
<1>1. /\ s \in 1 .. Len(doc) /\ doc[s] = "criteria"
      /\ e \in 1 .. Len(doc) /\ doc[e] = "testing"
      /\ \A k \in 1 .. e - 1 : doc[k] # "testing"
  BY IndexOfFirst
<1>2. s < e
  BY DEF CutOpen, CutClose
<1>3. Len(x) = e - 1 - s /\ \A i \in 1 .. e - 1 - s : x[i] = doc[s + i]
  BY <1>2, SectionWords
<1>4. CutOpen(doc) => doc[s + 1] = "status" /\ doc[s + 2] \in {"newline", "testing"}
  BY DEF CutOpen
<1>5. CutClose(doc) => doc[e - 1] = "status" /\ doc[e - 2] = "newline"
  BY DEF CutClose
<1> HIDE DEF s, e, x
<1>6. CASE CutOpen(doc)
  <2>1. e # s + 1
    BY <1>1, <1>4, <1>6
  <2>2. 1 \in 1 .. e - 1 - s
    BY <1>1, <1>2, <2>1
  <2>3. x[1] = "status"
    BY <1>3, <1>4, <1>6, <2>2
  <2>4. 1 = Len(x) \/ x[1 + 1] = "newline"
    <3>1. CASE e = s + 2
      BY <1>1, <1>3, <3>1
    <3>2. CASE e # s + 2
      <4>1. 2 \in 1 .. e - 1 - s /\ s + 2 \in 1 .. e - 1
        BY <1>1, <1>2, <2>1, <3>2
      <4>2. x[2] = doc[s + 2] /\ doc[s + 2] # "testing"
        BY <1>1, <1>3, <4>1
      <4> QED
        BY <1>4, <1>6, <4>2
    <3> QED
      BY <3>1, <3>2
  <2>5. ReadyAt(x, 1)
    BY <1>3, <2>2, <2>3, <2>4 DEF ReadyAt, StartsLine, EndsLine
  <2> QED
    BY <2>5 DEF x
<1>7. CASE CutClose(doc)
  <2> DEFINE j == e - 1 - s
  <2>1. e - 1 # s
    BY <1>1, <1>5, <1>7
  <2>2. e - 2 # s
    BY <1>1, <1>5, <1>7
  <2>3. j \in 2 .. e - 1 - s /\ s + j = e - 1 /\ s + (j - 1) = e - 2
    BY <1>1, <1>2, <2>1, <2>2
  <2>4. j = Len(x)
    BY <1>3
  <2> HIDE DEF j
  <2>5. j \in 1 .. e - 1 - s /\ j - 1 \in 1 .. e - 1 - s
    BY <1>1, <2>3
  <2>6. x[j] = "status" /\ x[j - 1] = "newline"
    BY <1>3, <1>5, <1>7, <2>3, <2>5
  <2>7. ReadyAt(x, j)
    BY <1>3, <2>4, <2>5, <2>6 DEF ReadyAt, StartsLine, EndsLine
  <2> QED
    BY <2>7 DEF x
<1> QED
  BY <1>6, <1>7

\* Nor does the cut of a request that leaves none.
LEMMA SectionIsSilent ==
  ASSUME NEW r \in Requests, ~LeavesStatus(r)
  PROVE  Silent(extractSection(GeneratedPrd(r)))
<1> DEFINE doc == GeneratedPrd(r)
           s == IndexOf(doc, "criteria")
           x == extractSection(doc)
<1>1. doc \in Seq(Word) /\ Quotes(doc, "criteria") /\ Quotes(doc, "testing")
  BY PrdType, PrdQuotes
<1>2. ~TextLeavesStatus(r) /\ ~CutOpen(doc) /\ ~CutClose(doc)
  BY CutIff DEF LeavesStatus
<1>3. s > 4
  <2>1. Stands(doc, BeforeName, r.name, "plain") /\ ~Quotes(BeforeName, "criteria")
    BY NameStands, PrefixQuotes
  <2>2. s \in 1 .. Len(doc) /\ ~(s <= Len(BeforeName))
    <3> HIDE DEF doc
    <3> QED
      BY <1>1, <2>1, FirstBefore
  <2>3. Len(BeforeName) = 4
    BY PrefixEnds
  <2> QED
    BY <2>2, <2>3
<1>4. x \in Seq(Word)
  BY SectionType
<1>5. x = IF IndexOf(doc, "testing") <= s THEN <<"plain">>
          ELSE SubSeq(doc, s + 1, IndexOf(doc, "testing") - 1)
  BY DEF extractSection
<1>6. s \in 1 .. Len(doc) /\ IndexOf(doc, "testing") \in 1 .. Len(doc)
  <2> HIDE DEF doc
  <2> QED
    BY <1>1, IndexOfFirst
<1>7. CASE IndexOf(doc, "testing") <= s
  BY <1>5, <1>7, WrittenSilent
<1>8. CASE s < IndexOf(doc, "testing")
  <2> SUFFICES ASSUME NEW j \in 1 .. Len(x), ReadyAt(x, j) PROVE FALSE
    BY <1>4 DEF Silent
  <2>1. ReadyAt(doc, s + j)
    <3> HIDE DEF doc
    <3> QED
      BY <1>1, <1>2, <1>8, SectionReady
  <2>2. s + j = 5
    BY <1>2, <2>1, PrdReady
  <2> HIDE DEF s, x
  <2>3. s \in Nat /\ j \in Nat /\ j >= 1
    BY <1>4, <1>6
  <2> QED
    BY <1>3, <2>2, <2>3
<1> QED
  BY <1>6, <1>7, <1>8

\* Nor a task that is done.
LEMMA DoneTaskSilent ==
  ASSUME NEW t \in Tasks, NEW body, Silent(body)
  PROVE  Silent(Task(t, Tasks, body))
<1>1. Task(t, Tasks, body) = Section(<<"plain", "newline">> \o body)
  BY DEF Task, Status
<1>2. Silent(<<"plain", "newline">> \o body)
  BY WrittenSilent, SilentTogether
<1> QED
  BY <1>1, <1>2, SectionSilent

\* When all tasks are done and no status line is left, a ready line of the
\* scope can only be the last of the name, in the title.
LEMMA ScopeReady ==
  ASSUME NEW r \in Requests, ~LeavesStatus(r), NEW k, ReadyAt(FeatureScope(r, Tasks), k)
  PROVE  k - 1 \in DOMAIN r.name /\ StatusLineAt(r.name, k - 1)
<1> DEFINE p == <<"plain">>
           w == Within(r.name)
           m == Within(r.notes)
           ps == Section(p)
           ws == Section(w)
           xs == Section(extractSection(GeneratedPrd(r)))
           brief == Section(Item(r.description) \o Item(r.notes))
           t1 == Task(1, Tasks, w \o m)
           t2 == Task(2, Tasks, m)
           t3 == Task(3, Tasks, p)
<1>1. r.name \in Seq(Word) /\ r.description \in Seq(Word) /\ r.notes \in Seq(Word)
  BY TextType
<1>2. /\ ~StatusLine(r.description) /\ ~StatusLine(r.notes) /\ ~StatusLine(r.name \o <<"plain">>)
  BY DEF LeavesStatus, TextLeavesStatus
<1>3. Silent(p) /\ Silent(w) /\ Silent(m)
  BY <1>1, <1>2, NameCalm, TextCalm, WithinSilent, WrittenSilent
<1>4. Silent(xs)
  BY SectionIsSilent, SectionSilent
<1>5. Silent(brief)
  <2>1. Silent(Item(r.description)) /\ Silent(Item(r.notes))
    BY <1>1, <1>2, ItemSilent
  <2>2. Silent(Item(r.description) \o Item(r.notes))
    BY <2>1, SilentTogether
  <2> QED
    BY <2>2, SectionSilent
<1>6. TaskList(r, Tasks) = t1 \o t2 \o t3 /\ 1 \in Tasks /\ 2 \in Tasks /\ 3 \in Tasks
  BY DEF TaskList, Tasks
<1>7. /\ FeatureScope(r, Tasks) = ScopeHead(r, Tasks) \o TaskList(r, Tasks)
      /\ ScopeHead(r, Tasks) = ScopeMapping(r, Tasks) \o ps
      /\ ScopeMapping(r, Tasks) = ScopeContext(r, Tasks) \o xs
      /\ ScopeContext(r, Tasks) = ScopeBrief(r, Tasks) \o ps
      /\ ScopeBrief(r, Tasks) = ScopeSummary(r, Tasks) \o brief
      /\ ScopeSummary(r, Tasks) = ScopeTitle(r, Tasks) \o ws
      /\ ScopeTitle(r, Tasks) = Item(r.name) \o p
  BY ScopeType DEF FeatureScope, ScopeMapping, ScopeContext, ScopeBrief, ScopeSummary,
                   ScopeTitle, Status
<1>8. /\ ScopeTitle(r, Tasks) \in Seq(Word) /\ ScopeSummary(r, Tasks) \in Seq(Word)
      /\ ScopeBrief(r, Tasks) \in Seq(Word) /\ ScopeContext(r, Tasks) \in Seq(Word)
      /\ ScopeMapping(r, Tasks) \in Seq(Word) /\ ScopeHead(r, Tasks) \in Seq(Word)
      /\ Item(r.name) \in Seq(Word)
  BY <1>1, ScopeType, RenderedType
<1> HIDE DEF p, w, m, xs, brief
<1>9. Silent(ps) /\ Silent(ws)
  BY <1>3, SectionSilent
<1>10. Silent(w \o m)
  BY <1>3, SilentTogether
<1>11. Silent(t1) /\ Silent(t2) /\ Silent(t3)
  BY <1>3, <1>6, <1>10, DoneTaskSilent
<1> HIDE DEF ps, ws, t1, t2, t3
<1>12. Silent(TaskList(r, Tasks))
  BY <1>6, <1>11, SilentTogether
<1>13. ReadyAt(ScopeMapping(r, Tasks), k)
  <2>1. ReadyAt(ScopeHead(r, Tasks), k)
    <3>1. ReadyAt(ScopeHead(r, Tasks) \o TaskList(r, Tasks), k)
      BY <1>7
    <3> QED
      BY <1>8, <1>12, <3>1, ReadyBefore
  <2> QED
    BY <1>7, <1>8, <1>9, <2>1, ReadyBefore
<1>14. ReadyAt(ScopeBrief(r, Tasks), k)
  <2>1. ReadyAt(ScopeContext(r, Tasks), k)
    BY <1>4, <1>7, <1>8, <1>13, ReadyBefore
  <2> QED
    BY <1>7, <1>8, <1>9, <2>1, ReadyBefore
<1>15. ReadyAt(ScopeTitle(r, Tasks), k)
  <2>1. ReadyAt(ScopeSummary(r, Tasks), k)
    BY <1>5, <1>7, <1>8, <1>14, ReadyBefore
  <2> QED
    BY <1>7, <1>8, <1>9, <2>1, ReadyBefore
<1>16. ReadyAt(Item(r.name), k)
  BY <1>3, <1>7, <1>8, <1>15, ReadyBefore
<1> QED
  BY <1>1, <1>16, ItemReady

\* The scope begins with the name.
LEMMA ScopeBegins ==
  ASSUME NEW r \in Requests, NEW done
  PROVE  /\ FeatureScope(r, done) \in Seq(Word)
         /\ Stands(FeatureScope(r, done), <<"plain">>, r.name, "newline")
<1> DEFINE p == <<"plain">>
           n == <<"newline">>
           ws == Section(Within(r.name))
           xs == Section(extractSection(GeneratedPrd(r)))
           brief == Section(Item(r.description) \o Item(r.notes))
           ps == Section(p)
           b == <<Status(done = Tasks)>>
           body == Within(r.name) \o Within(r.notes)
<1>1. r.name \in Seq(Word) /\ r.description \in Seq(Word) /\ r.notes \in Seq(Word)
  BY TextType
<1>2. p \in Seq(Word) /\ n \in Seq(Word) /\ Len(n) >= 1 /\ n[1] = "newline"
  BY WrittenType
<1>3. Within(r.name) \in Seq(Word) /\ Within(r.notes) \in Seq(Word) /\ body \in Seq(Word)
  BY <1>1, RenderedType
<1>4. Item(r.description) \o Item(r.notes) \in Seq(Word)
  BY <1>1, RenderedType
<1>5. b \in Seq(Word)
  BY DEF Status, Word
<1>6. ws \in Seq(Word) /\ brief \in Seq(Word) /\ ps \in Seq(Word) /\ xs \in Seq(Word)
  BY <1>2, <1>3, <1>4, SectionType, RenderedType
<1>7. TaskList(r, done) \in Seq(Word)
  <2>1. Task(1, done, body) \in Seq(Word)
    BY <1>3, TaskType
  <2>2. Task(2, done, Within(r.notes)) \in Seq(Word)
    BY <1>3, TaskType
  <2>3. Task(3, done, p) \in Seq(Word)
    BY <1>2, TaskType
  <2> QED
    BY <2>1, <2>2, <2>3 DEF TaskList
<1>8. /\ FeatureScope(r, done) = ScopeHead(r, done) \o TaskList(r, done)
      /\ ScopeHead(r, done) = ScopeMapping(r, done) \o ps
      /\ ScopeMapping(r, done) = ScopeContext(r, done) \o xs
      /\ ScopeContext(r, done) = ScopeBrief(r, done) \o ps
      /\ ScopeBrief(r, done) = ScopeSummary(r, done) \o brief
      /\ ScopeSummary(r, done) = ScopeTitle(r, done) \o ws
      /\ ScopeTitle(r, done) = p \o r.name \o n \o b
  BY ScopeType DEF FeatureScope, ScopeMapping, ScopeContext, ScopeBrief, ScopeSummary,
                   ScopeTitle, Item
<1>9. ScopeHead(r, done) \in Seq(Word)
  BY ScopeType
<1> HIDE DEF p, n, ws, xs, brief, ps, b
<1>10. Stands(p \o r.name \o n, p, r.name, "newline")
  BY <1>1, <1>2, StandsBetween
<1>11. Stands(ScopeTitle(r, done), p, r.name, "newline")
  BY <1>5, <1>8, <1>10, StandsBehind
<1>12. Stands(ScopeSummary(r, done), p, r.name, "newline")
  BY <1>6, <1>8, <1>11, StandsBehind
<1>13. Stands(ScopeBrief(r, done), p, r.name, "newline")
  BY <1>6, <1>8, <1>12, StandsBehind
<1>14. Stands(ScopeContext(r, done), p, r.name, "newline")
  BY <1>6, <1>8, <1>13, StandsBehind
<1>15. Stands(ScopeMapping(r, done), p, r.name, "newline")
  BY <1>6, <1>8, <1>14, StandsBehind
<1>16. Stands(ScopeHead(r, done), p, r.name, "newline")
  BY <1>6, <1>8, <1>15, StandsBehind
<1>17. Stands(FeatureScope(r, done), p, r.name, "newline")
  BY <1>7, <1>8, <1>16, StandsBehind
<1>18. FeatureScope(r, done) \in Seq(Word)
  BY <1>7, <1>8, <1>9
<1> QED
  BY <1>17, <1>18 DEF p

\* With the tasks done, the scan finds nothing in a scope without such lines.
LEMMA NoStatusNoScan ==
  ASSUME NEW r \in Requests, ~LeavesStatus(r)
  PROVE  ~hasReadyInternalTask(FileOf(r, Tasks))
<1> DEFINE d == FeatureScope(r, Tasks)
           t == r.name
           p == <<"plain">>
           f == [i \in DOMAIN d |-> LineAt(d, i)]
<1> SUFFICES ASSUME hasReadyInternalTask(f) PROVE FALSE
  BY DEF FileOf
<1>1. d \in Seq(Word) /\ Stands(d, p, t, "newline")
  BY ScopeBegins
<1>2. \A i : ReadyAt(d, i) => i - 1 \in DOMAIN t /\ StatusLineAt(t, i - 1)
  BY ScopeReady
<1>3. t \in Seq(Word) /\ p \in Seq(Word) /\ Len(p) = 1 /\ p[1] = "plain"
  BY TextType, WrittenType
<1>4. \A i, j \in DOMAIN t :
        1 < i /\ i < j => ~(LineAt(t, i) = "heading" /\ StatusLineAt(t, j))
  BY DEF LeavesStatus, TextLeavesStatus
<1> HIDE DEF d, t, p
<1>5. DOMAIN f = 1 .. Len(d) /\ DOMAIN t = 1 .. Len(t) /\ Len(t) \in Nat /\ Len(d) \in Nat
  BY <1>1, <1>3
<1>6. PICK h, k \in 1 .. Len(d) : h < k /\ f[h] = "heading" /\ f[k] = "ready"
  BY <1>5 DEF hasReadyInternalTask
<1>7. LineAt(d, h) = "heading" /\ LineAt(d, k) = "ready"
  BY <1>1, <1>6
<1> HIDE DEF f
<1>8. d[1] = "plain" /\ \A i \in 1 .. Len(t) : d[i + 1] = t[i]
  <2>1. 1 \in 1 .. Len(p)
    BY <1>3
  <2>2. d[1] = p[1]
    BY <1>1, <2>1 DEF Stands
  <2>3. \A i \in 1 .. Len(t) : d[Len(p) + i] = t[i]
    BY <1>1 DEF Stands
  <2> QED
    BY <1>3, <1>5, <2>2, <2>3
<1>9. ReadyAt(d, k)
  BY <1>6, <1>7 DEF LineAt, ReadyAt
<1>10. k - 1 \in 1 .. Len(t) /\ StatusLineAt(t, k - 1)
  BY <1>2, <1>5, <1>9
<1>11. d[h] \in {"heading", "criteria", "testing"} /\ (h = 1 \/ d[h - 1] = "newline")
  BY <1>7 DEF LineAt, StartsLine
<1>12. h # 1 /\ h # 2
  <2>1. h # 1
    BY <1>8, <1>11
  <2>2. ASSUME h = 2 PROVE FALSE
    <3>1. d[1] = "newline"
      BY <1>11, <2>2
    <3> QED
      BY <1>8, <3>1
  <2> QED
    BY <2>1, <2>2
<1>13. /\ h - 1 \in 1 .. Len(t) /\ h - 2 \in 1 .. Len(t) /\ 1 < h - 1 /\ h - 1 < k - 1
       /\ (h - 1) + 1 = h /\ (h - 2) + 1 = h - 1 /\ (h - 1) - 1 = h - 2
  BY <1>5, <1>6, <1>10, <1>12
<1>14. t[h - 1] = d[h] /\ t[h - 2] = d[h - 1]
  <2>1. d[(h - 1) + 1] = t[h - 1] /\ d[(h - 2) + 1] = t[h - 2]
    BY <1>8, <1>13
  <2> QED
    BY <1>13, <2>1
<1>15. LineAt(t, h - 1) = "heading"
  BY <1>11, <1>12, <1>13, <1>14 DEF LineAt, StartsLine
<1> QED
  BY <1>4, <1>5, <1>10, <1>13, <1>15

-----------------------------------------------------------------------------
(***************************************************************************)
(* The status lines of the request are found.                              *)
(***************************************************************************)

\* What stands inside the words still does with words around them.
LEMMA InnerBehind ==
  ASSUME NEW s \in Seq(Word), NEW u \in Seq(Word), NEW k
  PROVE  /\ ReadyIn(s, k) => ReadyIn(s \o u, k)
         /\ HeadIn(s, k) => HeadIn(s \o u, k)
<1> DEFINE d == s \o u
<1>1. /\ d \in Seq(Word) /\ Len(d) = Len(s) + Len(u) /\ Len(s) \in Nat /\ Len(u) \in Nat
      /\ \A i \in 1 .. Len(s) : d[i] = s[i]
  BY Joined, Zenon
<1> HIDE DEF d
<1>2. ASSUME ReadyIn(s, k) PROVE ReadyIn(d, k)
  <2>1. /\ k \in 2 .. Len(s) - 1 /\ s[k - 1] = "newline" /\ s[k] = "status"
        /\ s[k + 1] = "newline"
    BY <1>2 DEF ReadyIn
  <2>2. /\ k - 1 \in 1 .. Len(s) /\ k \in 1 .. Len(s) /\ k + 1 \in 1 .. Len(s)
        /\ k \in 2 .. Len(d) - 1
    BY <1>1, <2>1
  <2>3. d[k - 1] = "newline" /\ d[k] = "status" /\ d[k + 1] = "newline"
    BY <1>1, <2>1, <2>2
  <2> QED
    BY <2>2, <2>3 DEF ReadyIn
<1>3. HeadIn(s, k) => HeadIn(d, k)
  BY <1>1 DEF HeadIn
<1> QED
  BY <1>2, <1>3 DEF d

LEMMA InnerInFront ==
  ASSUME NEW s \in Seq(Word), NEW u \in Seq(Word), NEW k
  PROVE  /\ ReadyIn(u, k) => ReadyIn(s \o u, Len(s) + k)
         /\ HeadIn(u, k) => HeadIn(s \o u, Len(s) + k)
<1> DEFINE d == s \o u
<1>1. /\ d \in Seq(Word) /\ Len(d) = Len(s) + Len(u) /\ Len(s) \in Nat /\ Len(u) \in Nat
      /\ \A i \in 1 .. Len(u) : d[Len(s) + i] = u[i]
  BY Joined, Zenon
<1> HIDE DEF d
<1>2. ASSUME ReadyIn(u, k) PROVE ReadyIn(d, Len(s) + k)
  <2>1. /\ k \in 2 .. Len(u) - 1 /\ u[k - 1] = "newline" /\ u[k] = "status"
        /\ u[k + 1] = "newline"
    BY <1>2 DEF ReadyIn
  <2>2. k - 1 \in 1 .. Len(u) /\ k \in 1 .. Len(u) /\ k + 1 \in 1 .. Len(u)
    BY <1>1, <2>1
  <2>3. /\ d[Len(s) + (k - 1)] = "newline" /\ d[Len(s) + k] = "status"
        /\ d[Len(s) + (k + 1)] = "newline"
    BY <1>1, <2>1, <2>2
  <2>4. /\ Len(s) + (k - 1) = Len(s) + k - 1 /\ Len(s) + (k + 1) = Len(s) + k + 1
        /\ Len(s) + k \in 2 .. Len(d) - 1
    BY <1>1, <2>1
  <2> DEFINE i == Len(s) + k
  <2>5. /\ i \in 2 .. Len(d) - 1 /\ i - 1 = Len(s) + (k - 1) /\ i + 1 = Len(s) + (k + 1)
    BY <1>1, <2>1, <2>4
  <2>6. d[i - 1] = "newline" /\ d[i] = "status" /\ d[i + 1] = "newline"
    BY <2>3, <2>5
  <2> HIDE DEF i
  <2>7. ReadyIn(d, i)
    BY <2>5, <2>6 DEF ReadyIn
  <2> QED
    BY <2>7 DEF i
<1>3. ASSUME HeadIn(u, k) PROVE HeadIn(d, Len(s) + k)
  <2>1. k \in 2 .. Len(u) /\ u[k - 1] = "newline" /\ u[k] \in {"heading", "criteria", "testing"}
    BY <1>3 DEF HeadIn
  <2>2. k - 1 \in 1 .. Len(u) /\ k \in 1 .. Len(u)
    BY <1>1, <2>1
  <2>3. d[Len(s) + (k - 1)] = "newline" /\ d[Len(s) + k] = u[k]
    BY <1>1, <2>1, <2>2
  <2>4. Len(s) + (k - 1) = Len(s) + k - 1 /\ Len(s) + k \in 2 .. Len(d)
    BY <1>1, <2>1
  <2> QED
    BY <2>1, <2>3, <2>4 DEF HeadIn
<1> QED
  BY <1>2, <1>3 DEF d

LEMMA ReadyInSection ==
  ASSUME NEW body \in Seq(Word), NEW k, ReadyIn(body, k)
  PROVE  Open(Section(body))
<1>1. /\ k \in 2 .. Len(body) - 1 /\ body[k - 1] = "newline" /\ body[k] = "status"
      /\ body[k + 1] = "newline" /\ Len(body) \in Nat
  BY DEF ReadyIn
<1>2. k \in 1 .. Len(body) - 1 /\ StartsLine(body, k)
  BY <1>1 DEF StartsLine
<1> QED
  BY <1>1, <1>2, StatusInSection

\* A text's status line and heading line, where the text ends its line.
LEMMA ItemShows ==
  ASSUME NEW t \in Seq(Word), NEW i \in DOMAIN t
  PROVE  /\ StatusLineAt(t, i) => ReadyIn(Item(t), i + 1)
         /\ i > 1 /\ LineAt(t, i) = "heading" => HeadIn(Item(t), i + 1)
<1> DEFINE p == <<"plain">>
           n == <<"newline">>
           u == p \o t
           d == u \o n
<1>1. /\ p \in Seq(Word) /\ Len(p) = 1 /\ n \in Seq(Word) /\ Len(n) = 1 /\ n[1] = "newline"
  BY WrittenType
<1>2. Item(t) = d
  BY DEF Item
<1> HIDE DEF p, n
<1>3. /\ u \in Seq(Word) /\ Len(u) = Len(p) + Len(t) /\ Len(t) \in Nat
      /\ \A j \in 1 .. Len(t) : u[Len(p) + j] = t[j]
  BY <1>1, Joined, Zenon
<1> HIDE DEF u
<1>4. /\ d \in Seq(Word) /\ Len(d) = Len(u) + Len(n)
      /\ \A j \in 1 .. Len(u) : d[j] = u[j]
      /\ \A j \in 1 .. Len(n) : d[Len(u) + j] = n[j]
  BY <1>1, <1>3, Joined, Zenon
<1> HIDE DEF d
<1>5. Len(d) = Len(t) + 2 /\ d[Len(t) + 2] = "newline"
  <2>1. 1 \in 1 .. Len(n) /\ Len(u) + 1 = Len(t) + 2
    BY <1>1, <1>3
  <2>2. d[Len(u) + 1] = "newline"
    BY <1>1, <1>4, <2>1
  <2> QED
    BY <1>1, <1>3, <1>4, <2>1, <2>2
<1>6. ASSUME NEW j \in 1 .. Len(t) PROVE d[j + 1] = t[j]
  <2>1. j + 1 \in 1 .. Len(u) /\ j + 1 = Len(p) + j
    BY <1>1, <1>3
  <2> QED
    BY <1>3, <1>4, <2>1
<1>7. i \in 1 .. Len(t)
  OBVIOUS
<1>8. d[i + 1] = t[i]
  BY <1>6, <1>7
<1>9. i > 1 => d[i] = t[i - 1]
  <2> SUFFICES ASSUME i > 1 PROVE d[i] = t[i - 1]
    OBVIOUS
  <2>1. i - 1 \in 1 .. Len(t) /\ (i - 1) + 1 = i
    BY <1>3, <1>7
  <2> QED
    BY <1>6, <2>1
<1>10. ASSUME StatusLineAt(t, i) PROVE ReadyIn(d, i + 1)
  <2>1. /\ i > 1 /\ t[i] = "status" /\ t[i - 1] = "newline"
        /\ i = Len(t) \/ t[i + 1] = "newline"
    BY <1>7, <1>10 DEF StatusLineAt, StartsLine, EndsLine
  <2>2. d[i + 2] = "newline"
    <3>1. CASE i = Len(t)
      BY <1>5, <3>1
    <3>2. CASE i # Len(t)
      <4>1. i + 1 \in 1 .. Len(t) /\ (i + 1) + 1 = i + 2
        BY <1>3, <1>7, <3>2
      <4>2. d[(i + 1) + 1] = t[i + 1]
        BY <1>6, <4>1
      <4> QED
        BY <2>1, <3>2, <4>1, <4>2
    <3> QED
      BY <3>1, <3>2
  <2>3. i + 1 \in 2 .. Len(d) - 1 /\ (i + 1) - 1 = i /\ (i + 1) + 1 = i + 2
    BY <1>3, <1>5, <1>7
  <2> QED
    BY <1>8, <1>9, <2>1, <2>2, <2>3 DEF ReadyIn
<1>11. ASSUME i > 1, LineAt(t, i) = "heading" PROVE HeadIn(d, i + 1)
  <2>1. t[i] \in {"heading", "criteria", "testing"} /\ t[i - 1] = "newline"
    BY <1>7, <1>11 DEF LineAt, StartsLine
  <2>2. i + 1 \in 2 .. Len(d) /\ (i + 1) - 1 = i
    BY <1>3, <1>5, <1>7
  <2> QED
    BY <1>8, <1>9, <1>11, <2>1, <2>2 DEF HeadIn
<1> QED
  BY <1>2, <1>10, <1>11

\* In a sentence.
LEMMA WithinShows ==
  ASSUME NEW t \in Seq(Word), StatusLine(t \o <<"plain">>)
  PROVE  \E k : ReadyIn(Within(t), k)
<1> DEFINE p == <<"plain">>
           d == t \o p
<1>1. p \in Seq(Word) /\ Len(p) = 1 /\ p[1] = "plain"
  BY WrittenType
<1>2. Within(t) = p \o t \o p /\ StatusLine(d)
  BY DEF Within
<1> HIDE DEF p
<1>3. /\ d \in Seq(Word) /\ Len(d) = Len(t) + Len(p) /\ Len(t) \in Nat
      /\ \A j \in 1 .. Len(t) : d[j] = t[j]
      /\ \A j \in 1 .. Len(p) : d[Len(t) + j] = p[j]
  BY <1>1, Joined, Zenon
<1> HIDE DEF d
<1>4. Len(d) = Len(t) + 1 /\ d[Len(t) + 1] = "plain" /\ DOMAIN d = 1 .. Len(d)
  BY <1>1, <1>3
<1>5. PICK i \in 1 .. Len(t) + 1 :
        /\ i > 1 /\ d[i] = "status" /\ d[i - 1] = "newline"
        /\ i = Len(t) + 1 \/ d[i + 1] = "newline"
  <2>1. PICK i \in DOMAIN d : StatusLineAt(d, i)
    BY <1>2 DEF StatusLine
  <2>2. /\ i \in 1 .. Len(t) + 1 /\ i > 1 /\ d[i] = "status"
        /\ d[i - 1] = "newline" /\ (i = Len(t) + 1 \/ d[i + 1] = "newline")
    BY <1>4, <2>1 DEF StatusLineAt, StartsLine, EndsLine
  <2> QED
    BY <2>2
<1>6. i # Len(t) + 1
  BY <1>4, <1>5
<1>7. i # Len(t)
  <2>1. i = Len(t) => d[i + 1] = "plain"
    BY <1>4
  <2> QED
    BY <1>5, <1>6, <2>1
<1>8. /\ i \in 2 .. Len(t) - 1
      /\ i - 1 \in 1 .. Len(t) /\ i \in 1 .. Len(t) /\ i + 1 \in 1 .. Len(t)
  BY <1>3, <1>5, <1>6, <1>7
<1>9. ReadyIn(t, i)
  BY <1>3, <1>5, <1>6, <1>8 DEF ReadyIn
<1>10. ReadyIn(p \o t, Len(p) + i)
  BY <1>1, <1>9, InnerInFront
<1>11. p \o t \in Seq(Word)
  BY <1>1
<1>12. ReadyIn(p \o t \o p, Len(p) + i)
  BY <1>1, <1>10, <1>11, InnerBehind
<1> QED
  BY <1>2, <1>12

\* Whatever LeavesStatus describes is open to the scan, ...
LEMMA StatusIsShown ==
  ASSUME NEW r \in Requests, NEW done, LeavesStatus(r)
  PROVE  Open(FeatureScope(r, done))
<1> DEFINE p == <<"plain">>
           n == <<"newline">>
           x == extractSection(GeneratedPrd(r))
           w == Within(r.name)
           a == Item(r.description)
           o == Item(r.notes)
           ws == Section(w)
           brief == Section(a \o o)
           ps == Section(p)
           xs == Section(x)
           b == <<Status(done = Tasks)>>
           body == Within(r.name) \o Within(r.notes)
<1>1. r.name \in Seq(Word) /\ r.description \in Seq(Word) /\ r.notes \in Seq(Word)
  BY TextType
<1>2. p \in Seq(Word) /\ x \in Seq(Word)
  BY WrittenType, SectionType
<1>3. w \in Seq(Word) /\ a \in Seq(Word) /\ o \in Seq(Word) /\ Item(r.name) \in Seq(Word)
  BY <1>1, RenderedType
<1>4. b \in Seq(Word)
  BY DEF Status, Word
<1>5. TaskList(r, done) \in Seq(Word)
  <2>1. Within(r.notes) \in Seq(Word) /\ body \in Seq(Word)
    BY <1>1, <1>3, RenderedType
  <2>2. Task(1, done, body) \in Seq(Word)
    BY <2>1, TaskType
  <2>3. Task(2, done, Within(r.notes)) \in Seq(Word)
    BY <2>1, TaskType
  <2>4. Task(3, done, p) \in Seq(Word)
    BY <1>2, TaskType
  <2> QED
    BY <2>2, <2>3, <2>4 DEF TaskList
<1>6. /\ FeatureScope(r, done) = ScopeHead(r, done) \o TaskList(r, done)
      /\ ScopeHead(r, done) = ScopeMapping(r, done) \o ps
      /\ ScopeMapping(r, done) = ScopeContext(r, done) \o xs
      /\ ScopeContext(r, done) = ScopeBrief(r, done) \o ps
      /\ ScopeBrief(r, done) = ScopeSummary(r, done) \o brief
      /\ ScopeSummary(r, done) = ScopeTitle(r, done) \o ws
      /\ ScopeTitle(r, done) = Item(r.name) \o b
  BY ScopeType DEF FeatureScope, ScopeMapping, ScopeContext, ScopeBrief, ScopeSummary,
                   ScopeTitle
<1>7. /\ ScopeTitle(r, done) \in Seq(Word) /\ ScopeSummary(r, done) \in Seq(Word)
      /\ ScopeContext(r, done) \in Seq(Word)
  BY ScopeType
<1>8. Len(ps) >= 1 /\ ps[1] = "newline"
  BY DEF Section
<1>9. a \o o \in Seq(Word)
  BY <1>3
<1>10. ws \in Seq(Word) /\ brief \in Seq(Word) /\ ps \in Seq(Word) /\ xs \in Seq(Word)
  <2> HIDE DEF p, x, w, a, o
  <2> QED
    BY <1>2, <1>3, <1>9, RenderedType
<1>11. StatusLine(r.description) => Open(brief)
  <2> SUFFICES ASSUME NEW i \in DOMAIN r.description, StatusLineAt(r.description, i)
               PROVE  Open(brief)
    BY DEF StatusLine
  <2>1. ReadyIn(a, i + 1)
    BY <1>1, ItemShows
  <2> HIDE DEF a, o
  <2>2. ReadyIn(a \o o, i + 1)
    BY <1>3, <2>1, InnerBehind
  <2> QED
    BY <1>9, <2>2, ReadyInSection
<1>12. StatusLine(r.notes) => Open(brief)
  <2> SUFFICES ASSUME NEW i \in DOMAIN r.notes, StatusLineAt(r.notes, i)
               PROVE  Open(brief)
    BY DEF StatusLine
  <2>1. ReadyIn(o, i + 1)
    BY <1>1, ItemShows
  <2> HIDE DEF a, o
  <2>2. ReadyIn(a \o o, Len(a) + (i + 1))
    BY <1>3, <2>1, InnerInFront
  <2> QED
    BY <1>9, <2>2, ReadyInSection
<1>13. StatusLine(r.name \o <<"plain">>) => Open(ws)
  <2> SUFFICES ASSUME StatusLine(r.name \o <<"plain">>) PROVE Open(ws)
    OBVIOUS
  <2>1. PICK k : ReadyIn(w, k)
    BY <1>1, WithinShows
  <2> HIDE DEF w
  <2> QED
    BY <1>3, <2>1, ReadyInSection
<1>14. (\E k, i \in DOMAIN r.name :
          1 < k /\ k < i /\ LineAt(r.name, k) = "heading" /\ StatusLineAt(r.name, i))
         => Open(Item(r.name))
  <2> SUFFICES ASSUME NEW k \in DOMAIN r.name, NEW i \in DOMAIN r.name,
                      1 < k, k < i, LineAt(r.name, k) = "heading", StatusLineAt(r.name, i)
               PROVE  Open(Item(r.name))
    OBVIOUS
  <2>1. HeadIn(Item(r.name), k + 1)
    BY <1>1, ItemShows
  <2>2. ReadyIn(Item(r.name), i + 1)
    BY <1>1, ItemShows
  <2>3. k + 1 \in Nat /\ i + 1 \in Nat /\ k + 1 < i + 1
    BY <1>1
  <2> QED
    BY <1>3, <2>1, <2>2, <2>3 DEF Open
<1>15. CutLeavesStatus(r) => Open(xs \o ps)
  <2> SUFFICES ASSUME CutLeavesStatus(r) PROVE Open(xs \o ps)
    OBVIOUS
  <2>1. GeneratedPrd(r) \in Seq(Word)
    BY PrdType
  <2>2. Quotes(GeneratedPrd(r), "criteria") /\ Quotes(GeneratedPrd(r), "testing")
    BY PrdQuotes
  <2>3. CutOpen(GeneratedPrd(r)) \/ CutClose(GeneratedPrd(r))
    BY CutIff
  <2>4. PICK j : ReadyAt(x, j)
    BY <2>1, <2>2, <2>3, CutShows
  <2> HIDE DEF x, ps
  <2>5. j \in 1 .. Len(x) /\ x[j] = "status" /\ StartsLine(x, j) /\ EndsLine(x, j)
    BY <2>4 DEF ReadyAt
  <2> QED
    BY <1>2, <1>8, <1>10, <2>5, StatusUnderHeading
<1> HIDE DEF p, x, w, a, o, ws, brief, ps, xs, b
<1>16. Open(Item(r.name)) => Open(ScopeTitle(r, done))
  BY <1>4, <1>6, OpenBehind
<1>17. Open(ScopeTitle(r, done)) \/ Open(ws) => Open(ScopeSummary(r, done))
  BY <1>6, <1>7, <1>10, OpenBehind, OpenInFront
<1>18. Open(ScopeSummary(r, done)) \/ Open(brief) => Open(ScopeBrief(r, done))
  BY <1>6, <1>7, <1>10, OpenBehind, OpenInFront
<1>19. Open(ScopeBrief(r, done)) => Open(ScopeHead(r, done))
  <2> SUFFICES ASSUME Open(ScopeBrief(r, done)) PROVE Open(ScopeHead(r, done))
    OBVIOUS
  <2>1. Open(ScopeContext(r, done))
    BY <1>6, <1>10, OpenBehind
  <2>2. Open(ScopeMapping(r, done))
    BY <1>6, <1>10, <2>1, OpenBehind
  <2> QED
    BY <1>6, <1>10, <2>2, OpenBehind
<1>20. Open(xs \o ps) => Open(ScopeHead(r, done))
  <2> SUFFICES ASSUME Open(xs \o ps) PROVE Open(ScopeHead(r, done))
    OBVIOUS
  <2> DEFINE c == ScopeContext(r, done)
  <2>1. c \in Seq(Word) /\ ScopeHead(r, done) = (c \o xs) \o ps
    BY <1>6, <1>7
  <2> HIDE DEF c
  <2>2. (c \o xs) \o ps = c \o (xs \o ps)
    BY <1>10, <2>1, ConcatAssociative
  <2>3. Open(c \o (xs \o ps))
    BY <2>1, OpenInFront
  <2> QED
    BY <2>1, <2>2, <2>3
<1>21. Open(ScopeHead(r, done)) => Open(FeatureScope(r, done))
  BY <1>5, <1>6, OpenBehind
<1>22. \/ StatusLine(r.description) \/ StatusLine(r.notes)
       \/ StatusLine(r.name \o <<"plain">>) \/ CutLeavesStatus(r)
       \/ \E k, i \in DOMAIN r.name :
            1 < k /\ k < i /\ LineAt(r.name, k) = "heading" /\ StatusLineAt(r.name, i)
  BY DEF LeavesStatus, TextLeavesStatus
<1> QED
  BY <1>11, <1>12, <1>13, <1>14, <1>15, <1>16, <1>17, <1>18, <1>19, <1>20, <1>21, <1>22

\* ... so the loop finds it.
LEMMA StatusIsScanned ==
  ASSUME NEW r \in Requests, NEW done, LeavesStatus(r)
  PROVE  hasReadyInternalTask(FileOf(r, done))
  BY StatusIsShown, OpenIsScanned

-----------------------------------------------------------------------------
(***************************************************************************)
(* When the cut is the PRD's own list.                                     *)
(***************************************************************************)

\* Where the PRD has its own headings and its list.
LEMMA OwnPlaces ==
  ASSUME NEW r \in Requests
  PROVE  LET doc == GeneratedPrd(r)
             a == Len(PrdDecisions(r))
             ac == AcceptanceCriteria(r)
         IN  /\ a \in Nat /\ Len(ac) \in Nat
             /\ Len(BeforeCriteria(r)) = a + 1 /\ Len(BeforeTesting(r)) = a + Len(ac) + 4
             /\ doc[a + 3] = "newline" /\ doc[a + Len(ac) + 4] = "newline"
             /\ \A i \in 1 .. Len(ac) : doc[a + 3 + i] = ac[i]
<1> DEFINE doc == GeneratedPrd(r)
           dec == PrdDecisions(r)
           ac == AcceptanceCriteria(r)
           n == <<"newline">>
           c == <<"newline", "criteria", "newline">>
           x == <<"criteria">>
           e == <<"newline", "testing", "newline", "plain">>
<1>1. /\ dec \in Seq(Word) /\ ac \in Seq(Word)
      /\ PrdOpened(r) \in Seq(Word) /\ PrdListed(r) \in Seq(Word)
  BY PrdType
<1>2. /\ n \in Seq(Word) /\ Len(n) = 1 /\ n[1] = "newline"
      /\ c \in Seq(Word) /\ Len(c) = 3
      /\ x \in Seq(Word) /\ Len(x) = 1
      /\ e \in Seq(Word) /\ Len(e) >= 1 /\ e[1] = "newline"
  BY WrittenType
<1>3. /\ BeforeCriteria(r) = dec \o n
      /\ PrdOpened(r) = dec \o c
      /\ PrdListed(r) = PrdOpened(r) \o ac
      /\ BeforeTesting(r) = PrdListed(r) \o n
      /\ PrdClosed(r) = PrdListed(r) \o e
  BY DEF BeforeCriteria, PrdOpened, PrdListed, BeforeTesting, PrdClosed
<1>4. Stands(doc, BeforeCriteria(r), x, "newline")
  BY CriteriaStand
<1> HIDE DEF doc, dec, ac, n, c, x, e
<1>5. Len(dec) \in Nat /\ Len(ac) \in Nat
  BY <1>1
<1>6. Len(BeforeCriteria(r)) = Len(dec) + 1
  <2>1. Len(dec \o n) = Len(dec) + Len(n)
    BY <1>1, <1>2, Joined, Zenon
  <2> QED
    BY <1>2, <1>3, <2>1
<1>7. Len(PrdOpened(r)) = Len(dec) + 3
  <2>1. Len(dec \o c) = Len(dec) + Len(c)
    BY <1>1, <1>2, Joined, Zenon
  <2> QED
    BY <1>2, <1>3, <2>1
<1>8. Len(PrdListed(r)) = Len(dec) + 3 + Len(ac)
  <2>1. Len(PrdOpened(r) \o ac) = Len(PrdOpened(r)) + Len(ac)
    BY <1>1, Joined, Zenon
  <2> QED
    BY <1>3, <1>7, <2>1
<1>9. Len(BeforeTesting(r)) = Len(dec) + Len(ac) + 4
  <2>1. Len(BeforeTesting(r)) = Len(PrdListed(r)) + 1
    <3>1. Len(PrdListed(r) \o n) = Len(PrdListed(r)) + Len(n)
      BY <1>1, <1>2, Joined, Zenon
    <3> QED
      BY <1>2, <1>3, <3>1
  <2> QED
    BY <1>5, <1>8, <2>1
<1>10. doc[Len(dec) + 3] = "newline"
  <2>1. doc[Len(BeforeCriteria(r)) + Len(x) + 1] = "newline"
    BY <1>4 DEF Stands
  <2>2. Len(BeforeCriteria(r)) + Len(x) + 1 = Len(dec) + 3
    BY <1>2, <1>5, <1>6
  <2> QED
    BY <2>1, <2>2
<1>11. Stands(doc, PrdOpened(r), ac, "newline")
  <2>1. Stands(PrdClosed(r), PrdOpened(r), ac, "newline")
    <3>1. Stands(PrdOpened(r) \o ac \o e, PrdOpened(r), ac, e[1])
      BY <1>1, <1>2, StandsBetween
    <3> QED
      BY <1>2, <1>3, <3>1
  <2> QED
    BY <2>1, StandsInPrd DEF doc
<1>12. doc[Len(dec) + Len(ac) + 4] = "newline"
  <2>1. doc[Len(PrdOpened(r)) + Len(ac) + 1] = "newline"
    BY <1>11 DEF Stands
  <2>2. Len(PrdOpened(r)) + Len(ac) + 1 = Len(dec) + Len(ac) + 4
    BY <1>5, <1>7
  <2> QED
    BY <2>1, <2>2
<1>13. \A i \in 1 .. Len(ac) : doc[Len(dec) + 3 + i] = ac[i]
  <2>1. \A i \in 1 .. Len(ac) : doc[Len(PrdOpened(r)) + i] = ac[i]
    BY <1>11 DEF Stands
  <2> QED
    BY <1>7, <2>1
<1>14. /\ Len(dec) \in Nat /\ Len(ac) \in Nat
       /\ Len(BeforeCriteria(r)) = Len(dec) + 1
       /\ Len(BeforeTesting(r)) = Len(dec) + Len(ac) + 4
       /\ doc[Len(dec) + 3] = "newline" /\ doc[Len(dec) + Len(ac) + 4] = "newline"
       /\ \A i \in 1 .. Len(ac) : doc[Len(dec) + 3 + i] = ac[i]
  BY <1>5, <1>6, <1>9, <1>10, <1>12, <1>13
<1> QED
  BY <1>14 DEF doc, dec, ac

\* The list on lines of its own, word by word.
LEMMA ListWords ==
  ASSUME NEW t \in Seq(Word)
  PROVE  LET x == <<"newline">> \o t \o <<"newline">>
         IN  /\ x \in Seq(Word) /\ Len(x) = Len(t) + 2 /\ Len(t) \in Nat
             /\ x[1] = "newline" /\ x[Len(t) + 2] = "newline"
             /\ \A i \in 1 .. Len(t) : x[i + 1] = t[i]
             /\ Quotes(x, "testing") <=> Quotes(t, "testing")
<1> DEFINE n == <<"newline">>
           u == n \o t
           x == u \o n
<1>1. n \in Seq(Word) /\ Len(n) = 1 /\ n[1] = "newline" /\ ~Quotes(n, "testing")
  BY WrittenType, WrittenQuotes
<1> HIDE DEF n
<1>2. /\ u \in Seq(Word) /\ Len(u) = Len(n) + Len(t) /\ Len(t) \in Nat
      /\ \A i \in 1 .. Len(n) : u[i] = n[i]
      /\ \A i \in 1 .. Len(t) : u[Len(n) + i] = t[i]
  BY <1>1, Joined, Zenon
<1>3. Quotes(u, "testing") <=> Quotes(t, "testing")
  BY <1>1, JoinedQuotes
<1> HIDE DEF u
<1>4. /\ x \in Seq(Word) /\ Len(x) = Len(u) + Len(n)
      /\ \A i \in 1 .. Len(u) : x[i] = u[i]
      /\ \A i \in 1 .. Len(n) : x[Len(u) + i] = n[i]
  BY <1>1, <1>2, Joined, Zenon
<1>5. Quotes(x, "testing") <=> Quotes(u, "testing")
  BY <1>1, <1>2, JoinedQuotes
<1> HIDE DEF x
<1>6. Len(u) = Len(t) + 1 /\ Len(x) = Len(t) + 2
  BY <1>1, <1>2, <1>4
<1>7. x[1] = "newline"
  <2>1. 1 \in 1 .. Len(n) /\ 1 \in 1 .. Len(u)
    BY <1>1, <1>2, <1>6
  <2> QED
    BY <1>1, <1>2, <1>4, <2>1
<1>8. x[Len(t) + 2] = "newline"
  <2>1. 1 \in 1 .. Len(n) /\ Len(u) + 1 = Len(t) + 2
    BY <1>1, <1>2, <1>6
  <2>2. x[Len(u) + 1] = n[1]
    BY <1>4, <2>1
  <2> QED
    BY <1>1, <2>1, <2>2
<1>9. ASSUME NEW i \in 1 .. Len(t) PROVE x[i + 1] = t[i]
  <2>1. i + 1 \in 1 .. Len(u) /\ i + 1 = Len(n) + i
    BY <1>1, <1>2, <1>6
  <2> QED
    BY <1>2, <1>4, <2>1
<1>10. /\ x \in Seq(Word) /\ Len(x) = Len(t) + 2 /\ Len(t) \in Nat
       /\ x[1] = "newline" /\ x[Len(t) + 2] = "newline"
       /\ \A i \in 1 .. Len(t) : x[i + 1] = t[i]
       /\ Quotes(x, "testing") <=> Quotes(t, "testing")
  BY <1>2, <1>3, <1>4, <1>5, <1>6, <1>7, <1>8, <1>9
<1> QED
  BY <1>10 DEF x, u, n

\* What is listed quotes what the texts quote.
LEMMA ListQuotes ==
  ASSUME NEW r \in Requests
  PROVE  Quotes(AcceptanceCriteria(r), "testing") <=>
           \/ Quotes(r.name, "testing") \/ Quotes(r.notes, "testing")
           \/ Quotes(r.description, "testing")
<1> DEFINE w == Within(r.name)
           d == Within(r.description)
           m == Within(r.notes)
           n == <<"newline">>
           wd == w \o d
           wdn == wd \o n
<1>1. r.name \in Seq(Word) /\ r.description \in Seq(Word) /\ r.notes \in Seq(Word)
  BY TextType
<1>2. n \in Seq(Word) /\ ~Quotes(n, "testing")
  BY WrittenType, WrittenQuotes
<1>3. w \in Seq(Word) /\ d \in Seq(Word) /\ m \in Seq(Word)
  BY <1>1, RenderedType
<1>4. /\ Quotes(w, "testing") <=> Quotes(r.name, "testing")
      /\ Quotes(d, "testing") <=> Quotes(r.description, "testing")
      /\ Quotes(m, "testing") <=> Quotes(r.notes, "testing")
  BY <1>1, RenderedQuotes
<1>5. AcceptanceCriteria(r) = wdn \o m
  BY DEF AcceptanceCriteria
<1> HIDE DEF w, d, m, n
<1>6. /\ wd \in Seq(Word)
      /\ Quotes(wd, "testing") <=> Quotes(w, "testing") \/ Quotes(d, "testing")
  BY <1>3, JoinedQuotes
<1> HIDE DEF wd
<1>7. wdn \in Seq(Word) /\ (Quotes(wdn, "testing") <=> Quotes(wd, "testing"))
  BY <1>2, <1>6, JoinedQuotes
<1> HIDE DEF wdn
<1>8. Quotes(wdn \o m, "testing") <=> Quotes(wdn, "testing") \/ Quotes(m, "testing")
  BY <1>3, <1>7, JoinedQuotes
<1> QED
  BY <1>4, <1>5, <1>6, <1>7, <1>8

\* The section is the list, on lines of its own, exactly when the texts quote
\* no heading that would be found before the PRD's own.
LEMMA SectionIsExact ==
  ASSUME NEW r \in Requests
  PROVE  extractSection(GeneratedPrd(r)) = <<"newline">> \o AcceptanceCriteria(r) \o <<"newline">>
         <=> /\ ~Quotes(r.name, "criteria") /\ ~Quotes(r.notes, "criteria")
             /\ ~Quotes(r.name, "testing") /\ ~Quotes(r.notes, "testing")
             /\ ~Quotes(r.description, "testing")
<1> DEFINE doc == GeneratedPrd(r)
           s == IndexOf(doc, "criteria")
           e == IndexOf(doc, "testing")
           x == extractSection(doc)
           ac == AcceptanceCriteria(r)
           list == <<"newline">> \o ac \o <<"newline">>
           a == Len(PrdDecisions(r))
<1>1. doc \in Seq(Word) /\ Quotes(doc, "criteria") /\ Quotes(doc, "testing")
  BY PrdType, PrdQuotes
<1>2. /\ a \in Nat /\ Len(ac) \in Nat
      /\ Len(BeforeCriteria(r)) = a + 1 /\ Len(BeforeTesting(r)) = a + Len(ac) + 4
      /\ doc[a + 3] = "newline" /\ doc[a + Len(ac) + 4] = "newline"
      /\ \A i \in 1 .. Len(ac) : doc[a + 3 + i] = ac[i]
  BY OwnPlaces
<1>3. ac \in Seq(Word)
  BY PrdType
<1>4. /\ Quotes(ac, "testing") <=>
           \/ Quotes(r.name, "testing") \/ Quotes(r.notes, "testing")
           \/ Quotes(r.description, "testing")
  BY ListQuotes
<1>5. /\ Stands(doc, BeforeCriteria(r), <<"criteria">>, "newline")
      /\ Stands(doc, BeforeTesting(r), <<"testing">>, "newline")
  BY CriteriaStand, TestingStands
<1>6. /\ Quotes(BeforeCriteria(r), "criteria") <=>
           Quotes(r.name, "criteria") \/ Quotes(r.notes, "criteria")
      /\ Quotes(BeforeTesting(r), "testing") <=>
           \/ Quotes(r.name, "testing") \/ Quotes(r.notes, "testing")
           \/ Quotes(r.description, "testing")
  BY PrefixQuotes
<1>7. x = IF e <= s THEN <<"plain">> ELSE SubSeq(doc, s + 1, e - 1)
  BY DEF extractSection
<1> HIDE DEF doc, ac
<1>8. /\ list \in Seq(Word) /\ Len(list) = Len(ac) + 2
      /\ list[1] = "newline" /\ list[Len(ac) + 2] = "newline"
      /\ \A i \in 1 .. Len(ac) : list[i + 1] = ac[i]
      /\ Quotes(list, "testing") <=> Quotes(ac, "testing")
  BY <1>3, ListWords
<1>9. /\ s \in 1 .. Len(doc) /\ e \in 1 .. Len(doc)
      /\ \A k \in 1 .. e - 1 : doc[k] # "testing"
  BY <1>1, IndexOfFirst
<1>10. s < e =>
         x \in Seq(Word) /\ Len(x) = e - 1 - s /\ \A j \in 1 .. e - 1 - s : x[j] = doc[s + j]
  BY <1>1, SectionWords
<1>11. ~Quotes(BeforeTesting(r), "testing") => e = a + Len(ac) + 5
  <2> SUFFICES ASSUME ~Quotes(BeforeTesting(r), "testing") PROVE e = a + Len(ac) + 5
    OBVIOUS
  <2> DEFINE y == <<"testing">>
             b == BeforeTesting(r)
  <2>1. y \in Seq(Word) /\ Len(y) = 1 /\ y[1] = "testing" /\ 1 \in 1 .. Len(y)
    BY WrittenType
  <2>2. Stands(doc, b, y, "newline") /\ ~Quotes(b, "testing")
    BY <1>5
  <2> HIDE DEF y, b
  <2>3. \A k \in 1 .. 1 - 1 : y[k] # "testing"
    OBVIOUS
  <2>4. Quotes(y, "testing") /\ IndexOf(y, "testing") = 1
    BY <2>1, <2>3, FirstIs
  <2>5. e = Len(b) + 1
    BY <2>2, <2>4, FirstInText
  <2>6. Len(b) = a + Len(ac) + 4
    BY <1>2 DEF b
  <2> QED
    BY <1>2, <2>5, <2>6
<1>12. ~Quotes(BeforeCriteria(r), "criteria") => s = a + 2
  <2> SUFFICES ASSUME ~Quotes(BeforeCriteria(r), "criteria") PROVE s = a + 2
    OBVIOUS
  <2> DEFINE y == <<"criteria">>
             b == BeforeCriteria(r)
  <2>1. y \in Seq(Word) /\ Len(y) = 1 /\ y[1] = "criteria" /\ 1 \in 1 .. Len(y)
    BY WrittenType
  <2>2. Stands(doc, b, y, "newline") /\ ~Quotes(b, "criteria")
    BY <1>5
  <2> HIDE DEF y, b
  <2>3. \A k \in 1 .. 1 - 1 : y[k] # "criteria"
    OBVIOUS
  <2>4. Quotes(y, "criteria") /\ IndexOf(y, "criteria") = 1
    BY <2>1, <2>3, FirstIs
  <2>5. s = Len(b) + 1
    BY <2>2, <2>4, FirstInText
  <2>6. Len(b) = a + 1
    BY <1>2 DEF b
  <2> QED
    BY <1>2, <2>5, <2>6
<1>13. Quotes(BeforeCriteria(r), "criteria") => s <= a + 1
  <2>1. Quotes(BeforeCriteria(r), "criteria") <=> s <= Len(BeforeCriteria(r))
    BY <1>1, <1>5, FirstBefore
  <2> QED
    BY <1>2, <2>1
<1> HIDE DEF s, e, x, a, list
<1>14. CASE Quotes(ac, "testing")
  <2>1. ~Quotes(x, "testing")
    <3>1. CASE e <= s
      BY <1>7, <3>1, WrittenQuotes
    <3>2. CASE s < e
      <4> SUFFICES ASSUME NEW j \in DOMAIN x, x[j] = "testing" PROVE FALSE
        BY DEF Quotes
      <4>1. j \in 1 .. e - 1 - s
        BY <1>10, <3>2
      <4>2. s + j \in 1 .. e - 1
        BY <1>9, <3>2, <4>1
      <4>3. x[j] = doc[s + j]
        BY <1>10, <3>2, <4>1
      <4> QED
        BY <1>9, <4>2, <4>3
    <3> QED
      BY <1>9, <3>1, <3>2
  <2>2. x # list
    BY <1>8, <1>14, <2>1
  <2> QED
    BY <1>4, <1>14, <2>2 DEF x, list, doc, ac
<1>15. CASE ~Quotes(ac, "testing") /\ Quotes(BeforeCriteria(r), "criteria")
  <2>1. e = a + Len(ac) + 5 /\ s <= a + 1
    BY <1>4, <1>6, <1>11, <1>13, <1>15
  <2>2. s < e /\ e - 1 - s > Len(ac) + 2
    BY <1>2, <1>9, <2>1
  <2>3. Len(x) > Len(ac) + 2
    BY <1>10, <2>2
  <2>4. x # list
    BY <1>2, <1>8, <2>3
  <2> QED
    BY <1>6, <1>15, <2>4 DEF x, list, doc, ac
<1>16. CASE ~Quotes(ac, "testing") /\ ~Quotes(BeforeCriteria(r), "criteria")
  <2>1. e = a + Len(ac) + 5 /\ s = a + 2
    BY <1>4, <1>6, <1>11, <1>12, <1>16
  <2>2. s < e /\ e - 1 - s = Len(ac) + 2
    BY <1>2, <2>1
  <2>3. x \in Seq(Word) /\ Len(x) = Len(ac) + 2 /\ \A j \in 1 .. Len(ac) + 2 : x[j] = doc[s + j]
    BY <1>10, <2>2
  <2>4. ASSUME NEW j \in 1 .. Len(ac) + 2 PROVE x[j] = list[j]
    <3>1. x[j] = doc[a + 2 + j]
      BY <2>1, <2>3
    <3>2. CASE j = 1
      <4>1. a + 2 + j = a + 3
        BY <1>2, <3>2
      <4> QED
        BY <1>2, <1>8, <3>1, <3>2, <4>1
    <3>3. CASE j = Len(ac) + 2
      <4>1. a + 2 + j = a + Len(ac) + 4
        BY <1>2, <3>3
      <4> QED
        BY <1>2, <1>8, <3>1, <3>3, <4>1
    <3>4. CASE j # 1 /\ j # Len(ac) + 2
      <4> DEFINE i == j - 1
      <4>1. i \in 1 .. Len(ac) /\ j = i + 1 /\ a + 2 + j = a + 3 + i
        BY <1>2, <3>4
      <4> HIDE DEF i
      <4>2. doc[a + 3 + i] = ac[i] /\ list[i + 1] = ac[i]
        BY <1>2, <1>8, <4>1
      <4> QED
        BY <3>1, <4>1, <4>2
    <3> QED
      BY <3>2, <3>3, <3>4
  <2>5. x = list
    <3>1. DOMAIN x = 1 .. Len(ac) + 2 /\ DOMAIN list = 1 .. Len(ac) + 2
      BY <1>8, <2>3
    <3> QED
      BY <1>8, <2>3, <2>4, <3>1
  <2> QED
    BY <1>4, <1>6, <1>16, <2>5 DEF x, list, doc, ac
<1> QED
  BY <1>14, <1>15, <1>16

-----------------------------------------------------------------------------

\* The file is the rendered scope with the completed tasks marked.
PackInv ==
  /\ IInv
  /\ request \in Requests
  /\ completed \subseteq Tasks
  /\ file = FileOf(request, completed)

LEMMA PackInitInv == PackInit => PackInv
  BY InitIInv DEF PackInit, PackInv

LEMMA PackNextInv == PackInv /\ [PackNext]_packVars => PackInv'
<1> SUFFICES ASSUME PackInv, [PackNext]_packVars PROVE PackInv'
  OBVIOUS
<1>1. /\ IInv /\ request \in Requests
      /\ completed \subseteq Tasks /\ file = FileOf(request, completed)
  BY DEF PackInv
<1>2. CASE CompleteTask
  <2>1. AgentExits /\ UNCHANGED request /\ file' = FileOf(request, completed')
    BY <1>2 DEF CompleteTask
  <2>2. completed' \subseteq Tasks
    BY <1>1, <1>2 DEF CompleteTask
  <2>3. IInv'
    BY <1>1, <2>1, NextIInv DEF Next
  <2>4. file' = FileOf(request', completed')
    BY <2>1
  <2> QED
    BY <1>1, <2>1, <2>2, <2>3, <2>4 DEF PackInv
<1>3. CASE CompleteNothing \/ GiveUp
  <2>1. (AgentExits \/ AgentFails) /\ UNCHANGED <<file, request, completed>>
    BY <1>3 DEF CompleteNothing, GiveUp
  <2>2. IInv'
    BY <1>1, <2>1, NextIInv DEF Next
  <2> QED
    BY <1>1, <2>1, <2>2 DEF PackInv
<1>4. CASE Look
  <2>1. (Check \/ Compare) /\ UNCHANGED <<request, completed>>
    BY <1>4 DEF Look
  <2>2. IInv'
    BY <1>1, <2>1, NextIInv DEF Next
  <2>3. UNCHANGED file
    BY <2>1 DEF Check, Compare
  <2> QED
    BY <1>1, <2>1, <2>2, <2>3 DEF PackInv
<1>5. CASE UNCHANGED packVars
  <2>1. UNCHANGED vars /\ UNCHANGED <<file, request, completed>>
    BY <1>5 DEF packVars, vars
  <2>2. IInv'
    BY <1>1, <2>1, NextIInv
  <2> QED
    BY <1>1, <2>1, <2>2 DEF PackInv
<1> QED
  BY <1>2, <1>3, <1>4, <1>5 DEF PackNext

\* Whatever texts a request consists of, the guarded loop returns, and the
\* job succeeds, only when the agent has completed all three tasks that the
\* generator wrote.
THEOREM NoTaskIsHidden == PackSpec => []ReturnedMeansAllDone
<1>1. PackInv => ReturnedMeansAllDone
  <2> SUFFICES ASSUME PackInv, pc = "returned" PROVE completed = Tasks
    BY DEF ReturnedMeansAllDone
  <2>1. ~hasReadyInternalTask(file)
    BY DEF PackInv, IInv
  <2>2. /\ request \in Requests /\ completed \in SUBSET Tasks
        /\ file = FileOf(request, completed)
    BY DEF PackInv
  <2>3. ~hasReadyInternalTask(FileOf(request, completed))
    BY <2>1, <2>2
  <2>4. completed # Tasks => hasReadyInternalTask(FileOf(request, completed))
    BY <2>2, OpenTaskIsScanned
  <2> QED
    BY <2>3, <2>4
<1> QED
  BY <1>1, PackInitInv, PackNextInv, PTL DEF PackSpec

\* The loop's scan reacts to the open tasks and to the status lines that
\* LeavesStatus describes, and to nothing else, for texts of any length.
THEOREM ScanSeesExactly == PackSpec => []ScanIsExact
<1>1. PackInv => ScanIsExact
  <2> SUFFICES ASSUME PackInv PROVE ScanIsExact
    OBVIOUS
  <2>1. /\ request \in Requests /\ completed \in SUBSET Tasks
        /\ file = FileOf(request, completed)
    BY DEF PackInv
  <2>2. completed # Tasks => hasReadyInternalTask(file)
    BY <2>1, OpenTaskIsScanned
  <2>3. LeavesStatus(request) => hasReadyInternalTask(file)
    BY <2>1, StatusIsScanned
  <2>4. completed = Tasks /\ ~LeavesStatus(request) => ~hasReadyInternalTask(file)
    BY <2>1, NoStatusNoScan
  <2> QED
    BY <2>2, <2>3, <2>4 DEF ScanIsExact
<1> QED
  BY <1>1, PackInitInv, PackNextInv, PTL DEF PackSpec

\* The scope's criteria are the PRD's, for texts of any length, exactly when
\* the request quotes none of the headings that the cutting would find first.
THEOREM CutsAreKnown == PackSpec => []CriteriaSurvive
<1>1. PackInv => CriteriaSurvive
  <2> SUFFICES ASSUME request \in Requests PROVE CriteriaSurvive
    BY DEF PackInv
  <2> QED
    BY SectionIsExact DEF CriteriaSurvive
<1> QED
  BY <1>1, PackInitInv, PackNextInv, PTL DEF PackSpec

-----------------------------------------------------------------------------
(***************************************************************************)
(* How long the loop runs on a pack, and how it ends.                      *)
(***************************************************************************)

\* Each iteration but the first has completed a task: a second run that
\* completes none is caught by the stall test before it is counted.
ProgressInv ==
  /\ pc \in {"check", "run"} => iteration <= Cardinality(completed) + 1
  /\ pc = "compare" =>
       \/ iteration <= Cardinality(completed)
       \/ file = content /\ iteration <= Cardinality(completed) + 1
  /\ pc \in Ended => iteration <= Cardinality(completed) + 1
  /\ error \notin {"unreadable", "exceeded"}

\* A request that leaves no status line has an agent at work only while a
\* task is open, and no run on its last task ends with the scope as it was.
NeedInv ==
  ~LeavesStatus(request) =>
    /\ pc = "run" => completed # Tasks
    /\ pc = "compare" /\ completed = Tasks => file # content
    /\ completed = Tasks => error = "none"

\* The agent is started only while one of the three tasks is open, or the
\* request's own texts hold a status line that the scan takes for a task.
RunsNeedReason == pc = "run" => completed # Tasks \/ LeavesStatus(request)

\* As many iterations as tasks are done, and one more for the forgiven idle
\* run: never a fourth try at the same scope, and no pack is "exceeded".
IterationsAreTasks ==
  /\ iteration <= Cardinality(completed) + 1
  /\ error \notin {"unreadable", "exceeded"}

\* With all three tasks done and no status line in its texts a job is not
\* failed by the loop: not stalled, not exceeded, not by a further agent run.
DoneIsNotRefused == completed = Tasks /\ ~LeavesStatus(request) => error = "none"

LEMMA CountType ==
  ASSUME NEW S \in SUBSET Tasks
  PROVE  /\ IsFiniteSet(S) /\ Cardinality(S) \in 0 .. 3
         /\ \A t \in Tasks \ S : Cardinality(S \cup {t}) = Cardinality(S) + 1
<1>1. IsFiniteSet(Tasks) /\ Cardinality(Tasks) = 3
  <2>1. /\ IsFiniteSet(1 .. 3)
        /\ Cardinality(1 .. 3) = IF 1 > 3 THEN 0 ELSE 3 - 1 + 1
    BY 1 \in Int, 3 \in Int, FS_Interval
  <2> QED
    BY <2>1 DEF Tasks
<1>2. IsFiniteSet(S) /\ Cardinality(S) <= 3
  BY <1>1, FS_Subset
<1>3. Cardinality(S) \in Nat
  BY <1>2, FS_CardinalityType
<1>4. \A t \in Tasks \ S : Cardinality(S \cup {t}) = Cardinality(S) + 1
  BY <1>2, FS_AddElement
<1> QED
  BY <1>2, <1>3, <1>4

\* Every step on a pack is a step of the guarded loop.
LEMMA PackStepIsStep == [PackNext]_packVars => [Next]_vars
  BY DEF PackNext, packVars, CompleteTask, CompleteNothing, GiveUp, Look, Next

\* The pack is an instance of the loop with its arbitrary agent.
LEMMA PackRefines == PackSpec => Spec
<1>1. PackInit => Init
  BY DEF PackInit
<1> QED
  BY <1>1, PackStepIsStep, PTL DEF PackSpec, Spec

\* Every iteration but one completes a task.
LEMMA NextProgress ==
  ASSUME MaxIterations > 4, PackInv, ProgressInv, [PackNext]_packVars
  PROVE  ProgressInv'
<1> DEFINE n == Cardinality(completed)
<1>1. /\ completed \in SUBSET Tasks /\ request \in Requests
      /\ file = FileOf(request, completed) /\ IInv
  BY DEF PackInv
<1>2. n \in 0 .. 3 /\ iteration \in Nat /\ MaxIterations \in Nat
  BY <1>1, CountType, IterationAssumption DEF IInv, TypeOK
<1>3. file # NoFile
  BY <1>1, PackAssumption, ScopeAssumption
<1>4. UNCHANGED completed => n' = n
  OBVIOUS
<1>5. CASE CompleteTask
  <2>1. n' = n + 1
    BY <1>1, <1>5, CountType DEF CompleteTask
  <2>2. pc = "run" /\ pc' = "compare" /\ UNCHANGED <<iteration, error>>
    BY <1>5 DEF CompleteTask, AgentExits
  <2> HIDE DEF n
  <2>3. iteration' <= n'
    BY <1>2, <2>1, <2>2 DEF ProgressInv, n
  <2> QED
    BY <2>2, <2>3 DEF ProgressInv, n, Ended
<1>6. CASE CompleteNothing
  <2>1. pc = "run" /\ pc' = "compare" /\ UNCHANGED <<file, content, iteration, error, completed>>
    BY <1>6 DEF CompleteNothing, AgentExits
  <2>2. file = content
    BY <1>1, <2>1 DEF IInv, ReadingInv
  <2> QED
    BY <1>4, <2>1, <2>2 DEF ProgressInv, Ended
<1>7. CASE GiveUp
  <2>1. pc = "run" /\ pc' = "threw" /\ error' = "agent" /\ UNCHANGED <<iteration, completed>>
    BY <1>7 DEF GiveUp, AgentFails, Throw
  <2> QED
    BY <1>4, <2>1 DEF ProgressInv, Ended
<1>8. CASE Look /\ Check
  <2>1. /\ pc = "check" /\ pc' \in {"run", "returned"}
        /\ UNCHANGED <<iteration, completed, error>>
    BY <1>3, <1>8 DEF Look, Check
  <2> QED
    BY <1>4, <2>1 DEF ProgressInv, Ended
<1>9. CASE Look /\ Compare
  <2>1. pc = "compare" /\ UNCHANGED <<file, content, completed>>
    BY <1>9 DEF Look, Compare
  <2>2. CASE file = content /\ file = previous
    <3>1. pc' = "threw" /\ error' = "stalled" /\ UNCHANGED iteration
      BY <1>3, <1>9, <2>2 DEF Compare, Throw
    <3>2. iteration <= n + 1
      BY <1>2, <2>1 DEF ProgressInv
    <3> QED
      BY <1>4, <2>1, <3>1, <3>2 DEF ProgressInv
  <2>3. CASE ~(file = content /\ file = previous)
    <3>1. NextIteration(file)
      BY <1>3, <1>9, <2>3 DEF Compare
    <3>2. iteration <= n
      <4>1. CASE iteration = 0
        BY <1>2, <4>1
      <4>2. CASE iteration # 0
        <5>1. previous = content
          BY <1>1, <2>1, <4>2 DEF IInv, ReadingInv
        <5>2. file # content
          BY <2>3, <5>1
        <5> QED
          BY <2>1, <5>2 DEF ProgressInv
      <4> QED
        BY <4>1, <4>2
    <3> HIDE DEF n
    <3>3. iteration + 1 < MaxIterations /\ iteration + 1 <= n + 1
      BY <1>2, <3>2
    <3>4. pc' = "check" /\ iteration' = iteration + 1 /\ UNCHANGED error
      BY <3>1, <3>3 DEF NextIteration
    <3> QED
      BY <1>4, <2>1, <3>3, <3>4 DEF ProgressInv, n, Ended
  <2> QED
    BY <2>2, <2>3
<1>10. CASE UNCHANGED packVars
  BY <1>4, <1>10 DEF packVars, vars, ProgressInv
<1> QED
  BY <1>5, <1>6, <1>7, <1>8, <1>9, <1>10 DEF PackNext, Look

LEMMA InitProgress == PackInit => ProgressInv
<1> SUFFICES ASSUME PackInit PROVE ProgressInv
  OBVIOUS
<1>1. Cardinality(completed) = 0
  BY FS_EmptySet DEF PackInit
<1>2. pc = "check" /\ iteration = 0 /\ error = "none"
  BY DEF PackInit, Init
<1> QED
  BY <1>1, <1>2 DEF ProgressInv, Ended

LEMMA ProgressInvariance ==
  ASSUME MaxIterations > 4
  PROVE  PackSpec => [](PackInv /\ TruthInv /\ ProgressInv)
<1>1. Init => TruthInv
  BY DEF Init, TruthInv
<1>2. PackInit => Init
  BY DEF PackInit
<1>3. PackInv => IInv
  BY DEF PackInv
<1>4. PackInv /\ ProgressInv /\ [PackNext]_packVars => ProgressInv'
  BY NextProgress
<1> QED
  BY <1>1, <1>2, <1>3, <1>4, InitProgress, PackInitInv, PackNextInv, PackStepIsStep, NextTruth,
     PTL DEF PackSpec

LEMMA NextNeed ==
  ASSUME PackInv, TruthInv, ProgressInv, NeedInv, [PackNext]_packVars, PackInv', ProgressInv'
  PROVE  NeedInv'
<1> SUFFICES ASSUME (~LeavesStatus(request))'
             PROVE  /\ (pc = "run" => completed # Tasks)'
                    /\ (pc = "compare" /\ completed = Tasks => file # content)'
                    /\ (completed = Tasks => error = "none")'
  BY DEF NeedInv
<1>1. UNCHANGED request
  BY DEF PackNext, CompleteTask, CompleteNothing, GiveUp, Look, packVars
<1>2. ~LeavesStatus(request)
  BY <1>1
<1>3. /\ pc = "run" => completed # Tasks
      /\ pc = "compare" /\ completed = Tasks => file # content
      /\ completed = Tasks => error = "none"
  BY <1>2 DEF NeedInv
<1>4. completed = Tasks => ~hasReadyInternalTask(file)
  BY <1>2, NoStatusNoScan DEF PackInv
<1>5. file # NoFile /\ IInv
  BY PackAssumption, ScopeAssumption DEF PackInv
<1>6. CASE CompleteTask
  <2>1. /\ pc = "run" /\ pc' = "compare" /\ UNCHANGED <<content, error>>
        /\ hasReadyInternalTask(content)
    BY <1>6 DEF CompleteTask, AgentExits, TruthInv
  <2>2. error = "none"
    BY <2>1 DEF TruthInv
  <2>3. completed' = Tasks => ~hasReadyInternalTask(file')
    <3>1. /\ file' = FileOf(request, completed') /\ request \in Requests
      BY <1>6 DEF CompleteTask, PackInv
    <3> QED
      BY <1>2, <3>1, NoStatusNoScan
  <2>4. completed' = Tasks => file' # content
    BY <2>1, <2>3
  <2> QED
    BY <2>1, <2>2, <2>4
<1>7. CASE CompleteNothing \/ GiveUp
  <2>1. pc = "run" /\ UNCHANGED completed
    BY <1>7 DEF CompleteNothing, GiveUp, AgentExits, AgentFails
  <2> QED
    BY <1>3, <2>1
<1>8. CASE Look /\ Check
  <2>1. /\ pc = "check" /\ UNCHANGED <<completed, error>>
        /\ pc' = IF hasReadyInternalTask(file) THEN "run" ELSE "returned"
    BY <1>5, <1>8 DEF Look, Check
  <2>2. pc' # "compare" /\ (pc' = "run" => hasReadyInternalTask(file))
    BY <2>1
  <2> QED
    BY <1>3, <1>4, <2>1, <2>2
<1>9. CASE Look /\ Compare
  <2>1. pc = "compare" /\ UNCHANGED <<completed, file, content>>
    BY <1>9 DEF Look, Compare
  <2>2. pc' \in {"check", "threw"}
    BY <1>9 DEF Compare, Throw, NextIteration
  <2>3. completed = Tasks => error' = "none"
    <3> SUFFICES ASSUME completed = Tasks PROVE error' = "none"
      OBVIOUS
    <3>1. file # content
      BY <1>3, <2>1
    <3>2. NextIteration(file)
      BY <1>5, <1>9, <3>1 DEF Compare
    <3>3. error' = "none" \/ error' = "exceeded"
      BY <1>3, <3>2 DEF NextIteration, Throw
    <3>4. error' # "exceeded"
      BY DEF ProgressInv
    <3> QED
      BY <3>3, <3>4
  <2> QED
    BY <2>1, <2>2, <2>3
<1>10. CASE UNCHANGED packVars
  <2>1. UNCHANGED <<completed, file, content, pc, error>>
    BY <1>10 DEF packVars, vars
  <2> QED
    BY <1>3, <2>1
<1> QED
  BY <1>6, <1>7, <1>8, <1>9, <1>10 DEF PackNext, Look

\* An agent run always has a reason the pack itself gives: an open task, or a
\* status line in the request's texts.  Only the second breaks docs/PRD.md:85,
\* which a run refutes as it stands.
THEOREM RunsHaveReason == PackSpec => []RunsNeedReason
<1>1. PackInv /\ TruthInv => RunsNeedReason
  <2> SUFFICES ASSUME PackInv, TruthInv, pc = "run", completed = Tasks
               PROVE  LeavesStatus(request)
    BY DEF RunsNeedReason
  <2>1. hasReadyInternalTask(file)
    BY DEF PackInv, IInv, ReadingInv, TruthInv
  <2> QED
    BY <2>1, NoStatusNoScan DEF PackInv
<1>2. PackSpec => []TruthInv
  BY PackRefines, TruthInvariance, PTL
<1> QED
  BY <1>1, <1>2, PackInitInv, PackNextInv, PTL DEF PackSpec

\* The 25 iterations of the code are far more than a pack can use: with any
\* bound above four the loop counts no more iterations than completed tasks
\* and one, and never throws for the bound or for an unreadable scope.
THEOREM BoundIsNotMet ==
  ASSUME MaxIterations > 4
  PROVE  PackSpec => []IterationsAreTasks
<1>1. PackInv /\ ProgressInv => IterationsAreTasks
  <2> SUFFICES ASSUME PackInv, ProgressInv PROVE IterationsAreTasks
    OBVIOUS
  <2>1. Cardinality(completed) \in 0 .. 3 /\ iteration \in Nat /\ pc \in {"check", "run", "compare"} \cup Ended
    BY CountType DEF PackInv, IInv, TypeOK
  <2> QED
    BY <2>1 DEF ProgressInv, IterationsAreTasks
<1> QED
  BY <1>1, ProgressInvariance, PTL

\* The safety half of CompletedIsAccepted: once the three tasks of a request
\* without status lines are done, nothing in the loop fails the job.
THEOREM DoneIsAccepted ==
  ASSUME MaxIterations > 4
  PROVE  PackSpec => []DoneIsNotRefused
<1>1. PackInit => NeedInv
  BY DEF PackInit, Init, NeedInv
<1>2. /\ PackInv /\ TruthInv /\ ProgressInv /\ NeedInv
      /\ [PackNext]_packVars /\ PackInv' /\ ProgressInv'
      => NeedInv'
  BY NextNeed
<1>3. NeedInv => DoneIsNotRefused
  BY DEF NeedInv, DoneIsNotRefused
<1> QED
  BY <1>1, <1>2, <1>3, ProgressInvariance, PTL DEF PackSpec

=============================================================================
