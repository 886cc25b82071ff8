---------------------------- MODULE FixtureProofs ----------------------------
EXTENDS Menus, TransitionScore, LoupeProbe, TLAPS

(* The isolated display's programs: the menu recorder, the probe with its  *)
(* X server, and the score of a transition's frames.                       *)
-----------------------------------------------------------------------------
(* Sequences. *)

LEMMA Elements ==
  ASSUME NEW S, NEW s \in Seq(S)
  PROVE  \A k \in DOMAIN s : s[k] \in S
OBVIOUS

LEMMA Appended ==
  ASSUME NEW S, NEW s \in Seq(S), NEW e \in S
  PROVE  /\ Append(s, e) \in Seq(S) /\ Len(Append(s, e)) = Len(s) + 1
         /\ DOMAIN Append(s, e) = 1..(Len(s) + 1)
         /\ \A i \in 1..Len(s) : Append(s, e)[i] = s[i]
         /\ Append(s, e)[Len(s) + 1] = e
OBVIOUS

LEMMA Joined ==
  ASSUME NEW S, NEW s \in Seq(S), NEW t \in Seq(S)
  PROVE  /\ s \o t \in Seq(S) /\ Len(s \o t) = Len(s) + Len(t)
         /\ DOMAIN (s \o t) = 1..(Len(s) + Len(t))
         /\ \A i \in 1..Len(s) : (s \o t)[i] = s[i]
         /\ \A i \in 1..Len(t) : (s \o t)[Len(s) + i] = t[i]
         /\ \A k \in DOMAIN (s \o t) :
              \/ k \in DOMAIN s /\ (s \o t)[k] = s[k]
              \/ k - Len(s) \in DOMAIN t /\ (s \o t)[k] = t[k - Len(s)]
OBVIOUS

(* The first pieces, and the rest. *)
LEMMA Split ==
  ASSUME NEW S, NEW s \in Seq(S), NEW k \in 0..Len(s)
  PROVE  /\ SubSeq(s, 1, k) \in Seq(S) /\ Len(SubSeq(s, 1, k)) = k
         /\ DOMAIN SubSeq(s, 1, k) = 1..k
         /\ \A i \in 1..k : SubSeq(s, 1, k)[i] = s[i]
         /\ SubSeq(s, k + 1, Len(s)) \in Seq(S) /\ Len(SubSeq(s, k + 1, Len(s))) = Len(s) - k
         /\ DOMAIN SubSeq(s, k + 1, Len(s)) = 1..(Len(s) - k)
         /\ \A i \in 1..(Len(s) - k) : SubSeq(s, k + 1, Len(s))[i] = s[k + i]
         /\ k = Len(s) => SubSeq(s, k + 1, Len(s)) = <<>>
OBVIOUS

LEMMA Rest ==
  ASSUME NEW S, NEW s \in Seq(S), s # <<>>
  PROVE  /\ Head(s) \in S /\ Head(s) = s[1] /\ Len(s) \in Nat /\ Len(s) >= 1
         /\ Tail(s) \in Seq(S) /\ Len(Tail(s)) = Len(s) - 1
         /\ DOMAIN Tail(s) = 1..(Len(s) - 1)
         /\ \A i \in DOMAIN Tail(s) : i + 1 \in DOMAIN s /\ Tail(s)[i] = s[i + 1]
OBVIOUS

LEMMA Repeated ==
  ASSUME NEW S, NEW e \in S, NEW n \in Nat
  PROVE  [k \in 1..n |-> e] \in Seq(S) /\ Len([k \in 1..n |-> e]) = n
OBVIOUS

(* Every element of a joined sequence satisfies what those of both do. *)
LEMMA JoinedElements ==
  ASSUME NEW S, NEW s \in Seq(S), NEW t \in Seq(S), NEW k \in DOMAIN (s \o t)
  PROVE  \/ k \in DOMAIN s /\ (s \o t)[k] = s[k]
         \/ \E i \in DOMAIN t : k = Len(s) + i /\ (s \o t)[k] = t[i]
<1>1. k - Len(s) \in DOMAIN t \/ k \in DOMAIN s
  BY Joined
<1> QED
  OBVIOUS

LEMMA Replaced ==
  ASSUME NEW S, NEW s \in Seq(S), NEW k \in DOMAIN s, NEW e \in S
  PROVE  /\ [s EXCEPT ![k] = e] \in Seq(S) /\ Len([s EXCEPT ![k] = e]) = Len(s)
         /\ DOMAIN [s EXCEPT ![k] = e] = DOMAIN s
         /\ \A i \in DOMAIN s : [s EXCEPT ![k] = e][i] = IF i = k THEN e ELSE s[i]
OBVIOUS

-----------------------------------------------------------------------------
(* TransitionScore: the frames of a transition. *)

(* The last frame of a run of frames. *)
LEMMA GreatestOfRun ==
  ASSUME NEW lo \in Nat, NEW hi \in Nat, lo <= hi
  PROVE  Greatest(lo..hi) = hi
<1>1. hi \in lo..hi /\ \A m \in lo..hi : hi >= m
  OBVIOUS
<1>2. \A n \in lo..hi : (\A m \in lo..hi : n >= m) => n = hi
  OBVIOUS
<1> QED
  BY <1>1, <1>2 DEF Greatest

(* next() always finds a frame of a transition that is scored: some frame  *)
(* is settled, with two more after it, and every settled frame is a        *)
(* changed one; so the first change is not later than the settling.  For   *)
(* every region, every sum of differences that is a metric, and windows of *)
(* every length the code admits.                                           *)
THEOREM ScoreOrdered ==
  ASSUME NEW frames \in Nat,
         NEW pixels \in [1..frames -> Images],
         NEW before, NEW active, Window(before, active, frames),
         ~Unscored(pixels, before, active)
  PROVE  LET changed == Changed(pixels, pixels[Greatest(before)], active)
             settled == Settled(pixels, pixels[Greatest(active)], active)
         IN /\ settled # {} /\ settled \subseteq changed
            /\ \A n \in settled : n + 2 \in active
            /\ \A first, last \in active :
                 IsLeast(first, changed) /\ IsLeast(last, settled) => first <= last
<1>0. PICK b \in 3..frames : \E a \in (b + 3)..frames : before = 1..b /\ active = (b + 1)..a
  BY DEF Window
<1>1. PICK a \in (b + 3)..frames : before = 1..b /\ active = (b + 1)..a
  BY <1>0
<1> DEFINE baseline == pixels[b]
           target == pixels[a]
           C == Changed(pixels, baseline, active)
           T == Settled(pixels, target, active)
<1>2. /\ b \in Nat /\ a \in Nat /\ 3 <= b /\ b + 3 <= a /\ a <= frames
      /\ baseline \in Images /\ target \in Images
      /\ \A n \in active : pixels[n] \in Images
  BY <1>1
<1>3. Greatest(before) = b /\ Greatest(active) = a
  BY <1>1, <1>2, GreatestOfRun
<1>4. Above(baseline, target, 10) /\ \A n \in LastThree(active) : Below(pixels[n], target, 2)
  BY <1>3 DEF Unscored
<1>5. Size \in Nat /\ Size > 0
  BY SizeAssumption
<1>6. a - 2 \in T
  <2>1. a - 2 \in active /\ a - 2 <= Greatest(active) - 2
    BY <1>1, <1>2, <1>3
  <2>2. \A m \in active : m >= a - 2 => m \in LastThree(active)
    BY <1>1, <1>2, <1>3 DEF LastThree
  <2> QED
    BY <2>1, <2>2, <1>4 DEF Settled
<1>7. T \subseteq active /\ C \subseteq active /\ active \subseteq Nat
  BY <1>1, <1>2 DEF Settled, Changed
<1>8. \A n \in T : n \in C
  <2> SUFFICES ASSUME NEW n \in T PROVE n \in C
    OBVIOUS
  <2>1. n \in active /\ n \in Nat /\ pixels[n] \in Images /\ Below(pixels[n], target, 2)
    BY <1>2, <1>7 DEF Settled
  <2>2. /\ Difference(baseline, target)
             <= Difference(baseline, pixels[n]) + Difference(pixels[n], target)
        /\ Difference(baseline, pixels[n]) = Difference(pixels[n], baseline)
        /\ Difference(baseline, target) \in Nat /\ Difference(baseline, pixels[n]) \in Nat
        /\ Difference(pixels[n], target) \in Nat
    BY <2>1, <1>2, DifferenceAssumption
  <2>3. Difference(pixels[n], baseline) > 5 * Size
    <3>1. Difference(baseline, target) > 10 * Size /\ Difference(pixels[n], target) < 2 * Size
      BY <1>4, <2>1 DEF Above, Below
    <3> QED
      BY <3>1, <2>2, <1>5
  <2> QED
    BY <2>1, <2>3 DEF Changed, Above
<1>9. \A n \in T : n + 2 \in active
  BY <1>1, <1>2, <1>3, <1>7 DEF Settled
<1> QED
  BY <1>3, <1>6, <1>8, <1>9 DEF IsLeast

-----------------------------------------------------------------------------
(* menu-cpu-profile: what lies in an image or an interval. *)

(* No address is in two images that pe_modules() lets pass, for any number *)
(* of images, sorted by base as they are, none of them empty.              *)
THEOREM OneModule ==
  ASSUME NEW modules \in Seq([base : Nat, end : Nat]),
         \A i, j \in DOMAIN modules : i <= j => modules[i].base <= modules[j].base,
         Disjoint(modules),
         NEW address \in Nat,
         NEW i \in ModulesAt(modules, address), NEW j \in ModulesAt(modules, address)
  PROVE  i = j
<1>1. /\ DOMAIN modules = 1..Len(modules) /\ Len(modules) \in Nat
      /\ \A k \in DOMAIN modules : modules[k].base \in Nat /\ modules[k].end \in Nat
  <2>1. \A k \in DOMAIN modules : modules[k] \in [base : Nat, end : Nat]
    BY Elements
  <2> QED
    BY <2>1
<1>2. ASSUME NEW k \in ModulesAt(modules, address), NEW l \in ModulesAt(modules, address), k < l
      PROVE  FALSE
  <2>1. /\ k \in 1..Len(modules) /\ l \in 1..Len(modules)
        /\ address < modules[k].end /\ modules[l].base <= address
    BY <1>1 DEF ModulesAt
  <2>2. k + 1 \in DOMAIN modules /\ k + 1 > 1 /\ k + 1 <= l /\ (k + 1) - 1 = k
    BY <1>1, <1>2, <2>1
  <2>3. modules[k].end <= modules[k + 1].base
    BY <2>2 DEF Disjoint
  <2>4. modules[k + 1].base <= modules[l].base
    BY <1>1, <2>1, <2>2
  <2>5. /\ modules[k].end \in Nat /\ modules[l].base \in Nat
        /\ modules[k + 1].base \in Nat
    BY <1>1, <2>1, <2>2
  <2> DEFINE here == modules[k].end
             next == modules[k + 1].base
             there == modules[l].base
  <2>6. /\ here \in Nat /\ next \in Nat /\ there \in Nat
        /\ address < here /\ here <= next /\ next <= there /\ there <= address
    BY <2>1, <2>3, <2>4, <2>5
  <2> HIDE DEF here, next, there
  <2> QED
    BY <2>6
<1>3. i \in Nat /\ j \in Nat
  BY <1>1 DEF ModulesAt
<1> QED
  BY <1>2, <1>3

-----------------------------------------------------------------------------
(* LoupeProbe: the probe and its X server, over their two pipes. *)

(* A piece that ends the request for a capture. *)
IsRequest(piece) == piece.end /\ piece.of # 0

RequestIn(stream) == \E k \in DOMAIN stream : IsRequest(stream[k])
Requested == RequestIn(out) \/ RequestIn(pending)

(* A request is the last thing the probe wrote, and for its latest check. *)
RequestsLast ==
  /\ \A k \in DOMAIN out : IsRequest(out[k]) => k = Len(out) /\ out[k].of = child.check
  /\ \A k \in DOMAIN pending :
       IsRequest(pending[k]) => k = Len(pending) /\ out = <<>> /\ pending[k].of = child.check

(* The two sides are in step: the runner has a row for every check, or for *)
(* all but the one the probe asks for, which is then in one place only.    *)
InStep ==
  /\ Len(samples) = child.check
       \/ (Len(samples) + 1 = child.check /\ child.pc # "drawing")
  /\ Requested => Len(samples) + 1 = child.check /\ runner \notin {"sample", "write", "rename"}
  /\ runner = "sample" => asked = child.check /\ Len(samples) + 1 = child.check
  /\ runner \in {"write", "rename"} =>
       Len(samples) = child.check /\ child.pc # "drawing" /\ child.check # 0
  /\ runner \in {"write", "rename"} => files["ack"][child.check] = "none"

(* The probe has noted its checks, but for the one it asks for. *)
Noted ==
  /\ child.pc = "drawing" => Len(answers) = child.check
  /\ child.pc = "asking" => Len(answers) + 1 = child.check
  /\ Len(answers) <= Len(samples) /\ child.check <= Len(answers) + 1
  /\ \A i \in DOMAIN answers : answers[i] = samples[i].verdict
  /\ child.failed \/ \A i \in DOMAIN answers : answers[i] = "pass"

(* An answer that is there is the latest row's, and complete. *)
AnswersRight ==
  /\ runner = "rename" => files["tmp"][Len(samples)] = samples[Len(samples)].verdict
  /\ \A i \in Checks : files["ack"][i] # "none" =>
       /\ child.pc # "drawing" /\ runner \notin {"sample", "write", "rename"}
       /\ i = child.check /\ Len(samples) = i /\ files["ack"][i] = samples[i].verdict

(* Rows are about the check of their number, which was on the screen if    *)
(* the probe has noted it, or still waits.                                 *)
RowsRight ==
  \A i \in DOMAIN samples :
    /\ samples[i].name = i
    /\ i <= Len(answers) \/ child.pc = "asking" => samples[i].shown = i

(* Status 0 of either side. *)
StatusRight ==
  /\ child.pc = "exited" /\ child.code = 0 => ~child.failed /\ Len(answers) = N
  /\ runner = "ended" /\ code = 0 =>
       child.pc = "exited" /\ child.code = 0 /\ Len(samples) = N

ProbeInv ==
  /\ ProbeTypeOK /\ RequestsLast /\ InStep /\ Noted /\ AnswersRight /\ RowsRight /\ StatusRight

-----------------------------------------------------------------------------
(* The probe's steps. *)

Verdicts == {"pass", "fail"}
Child == [pc : {"drawing", "asking", "exited"}, check : 0..N, failed : BOOLEAN, code : 0..2]
SampleRow == [name : Checks, shown : 0..N, verdict : Verdicts]

LEMMA ProbeInitial == ProbeInit => ProbeInv
BY ProbeAssumption DEF ProbeInit, ProbeInv, ProbeTypeOK, RequestsLast, InStep, Noted, AnswersRight,
   RowsRight, StatusRight, Requested, RequestIn, Checks, Contents, Piece

LEMMA LineTyped ==
  ASSUME NEW c \in 0..N
  PROVE  /\ Line(c) \in Seq(Piece) /\ Len(Line(c)) = 2 /\ DOMAIN Line(c) = 1..2
         /\ ~Line(c)[1].end /\ Line(c)[2].end /\ Line(c)[2].of = c
<1>1. [of |-> c, end |-> FALSE] \in Piece /\ [of |-> c, end |-> TRUE] \in Piece
  BY DEF Piece
<1> QED
  BY <1>1 DEF Line

LEMMA RowTyped ==
  ASSUME ProbeTypeOK, NEW i \in DOMAIN samples
  PROVE  i \in Nat /\ 1 <= i /\ i <= Len(samples) /\ samples[i] \in SampleRow
<1>1. samples \in Seq(SampleRow)
  BY DEF ProbeTypeOK, SampleRow, Verdicts
<1> HIDE DEF SampleRow
<1> QED
  BY <1>1

(* The latest request, if any, is the last line the probe wrote. *)
LEMMA AskKeeps ==
  ASSUME ProbeInv, Ask
  PROVE  ProbeInv'
<1> USE ProbeAssumption DEF ProbeInv
<1>1. PICK note \in {<<>>, Line(0)} : out' = out \o note \o Line(child.check + 1)
  BY DEF Ask
<1>2. /\ child.pc = "drawing" /\ child.check \in Nat /\ child.check < N
      /\ UNCHANGED <<open, answers, runner, pending, asked, samples, code, files>>
  BY DEF Ask, ProbeTypeOK, script
<1>2a. /\ child'.pc = "asking" /\ child'.check = child.check + 1
       /\ child'.code = child.code /\ (child.failed => child'.failed)
       /\ child' \in Child
  <2>1. PICK failed \in {child.failed, TRUE} :
          child' = [child EXCEPT !.pc = "asking", !.check = @ + 1, !.failed = failed]
    BY DEF Ask
  <2>2. child \in Child /\ failed \in BOOLEAN
    BY DEF ProbeTypeOK, Child
  <2>3. child'.pc = "asking" /\ child'.check = child.check + 1
       /\ child'.code = child.code /\ child'.failed = failed
    BY <2>1, <2>2 DEF Child
  <2>4. child' = [pc |-> "asking", check |-> child.check + 1, failed |-> failed,
                  code |-> child.code]
    BY <2>1, <2>2 DEF Child
  <2>5. child.failed => child'.failed
    BY <2>1, <2>3
  <2>6. child' \in Child
    BY <1>2, <2>2, <2>4 DEF Child
  <2> QED
    BY <2>3, <2>5, <2>6
<1>3. ~Requested /\ Len(samples) = child.check /\ Len(answers) = child.check
      /\ runner \notin {"sample", "write", "rename"}
  BY <1>2 DEF InStep, Noted, ProbeTypeOK
<1>4. /\ out' \in Seq(Piece)
      /\ \A k \in DOMAIN out' : IsRequest(out'[k]) => k = Len(out') /\ out'[k].of = child'.check
  <2> DEFINE c == child.check + 1
  <2>1. out \in Seq(Piece) /\ c \in 1..N /\ \A k \in DOMAIN out : ~IsRequest(out[k])
    BY <1>2, <1>2a, <1>3 DEF ProbeTypeOK, Requested, RequestIn
  <2>2. note \in Seq(Piece) /\ \A k \in DOMAIN note : ~IsRequest(note[k])
    <3>1. CASE note = <<>>
      BY <3>1
    <3>2. CASE note = Line(0)
      BY <3>2, LineTyped DEF IsRequest
    <3> QED
      BY <3>1, <3>2
  <2>3. /\ Line(c) \in Seq(Piece) /\ Len(Line(c)) = 2
        /\ \A k \in DOMAIN Line(c) : IsRequest(Line(c)[k]) => k = 2 /\ Line(c)[k].of = c
    BY <2>1, LineTyped DEF IsRequest
  <2> DEFINE front == out \o note
             line == Line(c)
  <2>5. front \in Seq(Piece) /\ \A k \in DOMAIN front : ~IsRequest(front[k])
    BY <2>1, <2>2, Joined
  <2>6. out' = front \o line
    BY <1>1
  <2> HIDE DEF front, line
  <2>7. line \in Seq(Piece) /\ Len(line) = 2
        /\ \A k \in DOMAIN line : IsRequest(line[k]) => k = 2 /\ line[k].of = c
    BY <2>3 DEF line
  <2>8. /\ front \o line \in Seq(Piece) /\ Len(front \o line) = Len(front) + 2
        /\ \A k \in DOMAIN (front \o line) :
             \/ k \in DOMAIN front /\ (front \o line)[k] = front[k]
             \/ k - Len(front) \in DOMAIN line /\ (front \o line)[k] = line[k - Len(front)]
    <3>1. /\ front \o line \in Seq(Piece) /\ Len(front \o line) = Len(front) + Len(line)
          /\ \A k \in DOMAIN (front \o line) :
               \/ k \in DOMAIN front /\ (front \o line)[k] = front[k]
               \/ k - Len(front) \in DOMAIN line /\ (front \o line)[k] = line[k - Len(front)]
      <4>1. front \in Seq(Piece) /\ line \in Seq(Piece)
        BY <2>5, <2>7
      <4> HIDE DEF Piece
      <4> QED
        BY <4>1, Joined
    <3> QED
      BY <2>7, <3>1
  <2>9. ASSUME NEW k \in DOMAIN (front \o line), IsRequest((front \o line)[k])
        PROVE  k = Len(front) + 2 /\ (front \o line)[k].of = c
    <3>1. k - Len(front) = 2 /\ (front \o line)[k].of = c
      BY <2>5, <2>7, <2>8, <2>9
    <3> QED
      BY <3>1, <2>5, <2>8, <2>9
  <2> QED
    BY <2>6, <2>8, <2>9, <1>2a
<1>5. ProbeTypeOK'
  BY <1>2, <1>2a, <1>3, <1>4 DEF ProbeTypeOK, Child
<1>6. RequestsLast'
  BY <1>2, <1>2a, <1>3, <1>4 DEF RequestsLast, Requested, RequestIn
<1>7. InStep'
  BY <1>2, <1>2a, <1>3 DEF InStep, ProbeTypeOK
<1>8. Noted'
  BY <1>2, <1>2a, <1>3 DEF Noted, ProbeTypeOK
<1>9. AnswersRight'
  BY <1>2, <1>2a, <1>3 DEF AnswersRight, Checks
<1>10. RowsRight'
  BY <1>2, <1>2a, <1>3 DEF RowsRight, ProbeTypeOK
<1>11. StatusRight'
  BY <1>2, <1>2a DEF StatusRight
<1> QED
  BY <1>5, <1>6, <1>7, <1>8, <1>9, <1>10, <1>11

LEMMA ReadAckKeeps ==
  ASSUME ProbeInv, ReadAck
  PROVE  ProbeInv' /\ answers' = Append(answers, samples[child.check].verdict)
<1> USE ProbeAssumption DEF ProbeInv
<1> DEFINE c == child.check
           verdict == IF files["ack"][c] = "pass" THEN "pass" ELSE "fail"
<1>0. /\ child.pc = "asking" /\ files["ack"][c] # "none"
      /\ c \in Nat /\ c <= N /\ c = Len(answers) + 1
      /\ child \in Child /\ answers' = Append(answers, verdict)
      /\ files' = [files EXCEPT !["ack"][c] = "none"]
      /\ UNCHANGED <<out, open, runner, pending, asked, samples, code>>
  BY DEF ReadAck, ProbeTypeOK, Noted, script, Child
<1>1. /\ child'.pc = "drawing" /\ child'.check = c /\ child'.code = child.code
      /\ child'.failed <=> child.failed \/ verdict = "fail"
      /\ child' \in Child
  <2>1. child' = [child EXCEPT !.pc = "drawing", !.failed = @ \/ verdict = "fail"]
    BY DEF ReadAck
  <2>2. PICK failed \in BOOLEAN : failed <=> child.failed \/ verdict = "fail"
    OBVIOUS
  <2>3. child' = [pc |-> "drawing", check |-> c, failed |-> failed, code |-> child.code]
    BY <2>1, <2>2, <1>0 DEF Child
  <2> QED
    BY <2>2, <2>3, <1>0 DEF Child
<1>2. /\ c \in Checks /\ Len(samples) = c /\ runner \notin {"sample", "write", "rename"}
      /\ files["ack"][c] = samples[c].verdict /\ c \in DOMAIN samples
      /\ \A i \in Checks : files["ack"][i] # "none" => i = c
  BY <1>0 DEF AnswersRight, Checks, ProbeTypeOK
<1>3. verdict = samples[c].verdict /\ verdict \in Verdicts
  <2>1. samples[c].verdict \in Verdicts
    BY <1>2, RowTyped DEF SampleRow
  <2> QED
    BY <1>2, <2>1 DEF Verdicts
<1> HIDE DEF verdict
<1>4. ~Requested
  BY <1>0, <1>1, <1>2 DEF InStep, ProbeTypeOK
<1>5. /\ answers' \in Seq(Verdicts) /\ Len(answers') = c /\ DOMAIN answers' = 1..c
      /\ \A i \in 1..(c - 1) : answers'[i] = answers[i]
      /\ answers'[c] = verdict
  BY <1>0, <1>1, <1>3, Appended DEF ProbeTypeOK, Verdicts
<1>6. /\ files' \in [{"tmp", "ack"} -> [Checks -> Contents]]
      /\ \A i \in Checks : files'["ack"][i] = "none" /\ files'["tmp"][i] = files["tmp"][i]
  BY <1>0, <1>1, <1>2 DEF ProbeTypeOK, Contents
<1>7. ProbeTypeOK'
  BY <1>0, <1>1, <1>2, <1>5, <1>6 DEF ProbeTypeOK, Verdicts, Child
<1>8. RequestsLast'
  BY <1>0, <1>1, <1>4 DEF RequestsLast, Requested, RequestIn
<1>9. InStep'
  BY <1>0, <1>1, <1>2, <1>4 DEF InStep, Requested, RequestIn
<1>10. Noted'
  BY <1>0, <1>1, <1>2, <1>3, <1>5 DEF Noted, ProbeTypeOK, Verdicts
<1>11. AnswersRight'
  BY <1>0, <1>1, <1>2, <1>6 DEF AnswersRight
<1>12. RowsRight'
  BY <1>0, <1>1, <1>2, <1>5 DEF RowsRight
<1>13. StatusRight'
  BY <1>0, <1>1 DEF StatusRight
<1> QED
  BY <1>0, <1>3, <1>7, <1>8, <1>9, <1>10, <1>11, <1>12, <1>13

(* The probe ends, of itself or terminated: nothing is drawn any more. *)
LEMMA EndKeeps ==
  ASSUME ProbeInv, NEW status \in 0..2, child.pc # "exited",
         child' = [child EXCEPT !.pc = "exited", !.code = status],
         status = 0 => ~child.failed /\ Len(answers) = N,
         UNCHANGED <<out, open, answers, pending, asked, samples, files>>,
         \/ UNCHANGED <<runner, code>>
         \/ runner' = "ended" /\ code' = 1
  PROVE  ProbeInv'
<1> USE DEF ProbeInv
<1>1. /\ child'.pc = "exited" /\ child'.code = status /\ child'.check = child.check
      /\ child'.failed = child.failed
      /\ child' \in Child
  BY DEF ProbeTypeOK, Child
<1>2. ProbeTypeOK'
  BY <1>1 DEF ProbeTypeOK, Child
<1>3. RequestsLast'
  BY <1>1 DEF RequestsLast
<1>4. InStep'
  BY <1>1 DEF InStep, Requested, RequestIn
<1>5. Noted'
  BY <1>1 DEF Noted, ProbeTypeOK
<1>6. AnswersRight'
  BY <1>1 DEF AnswersRight
<1>7. RowsRight'
  BY <1>1 DEF RowsRight
<1>8. StatusRight'
  BY <1>1 DEF StatusRight
<1> QED
  BY <1>2, <1>3, <1>4, <1>5, <1>6, <1>7, <1>8

-----------------------------------------------------------------------------
(* The runner's steps. *)

LEMMA ReadChunkKeeps ==
  ASSUME ProbeInv, ReadChunk
  PROVE  ProbeInv'
<1> USE DEF ProbeInv
<1>1. PICK k \in 1..Len(out) : /\ pending' = pending \o SubSeq(out, 1, k)
                               /\ out' = SubSeq(out, k + 1, Len(out))
  BY DEF ReadChunk
<1>2. /\ runner = "read" /\ ~HasLine /\ out \in Seq(Piece) /\ pending \in Seq(Piece)
      /\ UNCHANGED <<child, open, answers, runner, asked, samples, code, files>>
  BY DEF ReadChunk, ProbeTypeOK
<1> DEFINE chunk == SubSeq(out, 1, k)
           rest == SubSeq(out, k + 1, Len(out))
<1>3. /\ chunk \in Seq(Piece) /\ Len(chunk) = k /\ DOMAIN chunk = 1..k
      /\ \A j \in 1..k : chunk[j] = out[j]
      /\ rest \in Seq(Piece) /\ Len(rest) = Len(out) - k /\ DOMAIN rest = 1..(Len(out) - k)
      /\ \A j \in 1..(Len(out) - k) : rest[j] = out[k + j]
      /\ k = Len(out) => rest = <<>>
  <2>1. out \in Seq(Piece) /\ k \in 0..Len(out)
    BY <1>2
  <2> QED
    BY <2>1, Split
<1>4. pending' = pending \o chunk /\ out' = rest
  BY <1>1
<1> HIDE DEF chunk, rest
<1>5. \A j \in DOMAIN pending : ~IsRequest(pending[j])
  BY <1>2 DEF HasLine, IsRequest
<1>6. /\ pending' \in Seq(Piece) /\ Len(pending') = Len(pending) + k
      /\ \A j \in DOMAIN pending' :
           \/ j \in DOMAIN pending /\ pending'[j] = pending[j]
           \/ j - Len(pending) \in DOMAIN chunk /\ pending'[j] = chunk[j - Len(pending)]
  <2>0. pending \in Seq(Piece) /\ chunk \in Seq(Piece) /\ Len(chunk) = k
    BY <1>2, <1>3
  <2>1. /\ pending \o chunk \in Seq(Piece) /\ Len(pending \o chunk) = Len(pending) + k
        /\ \A j \in DOMAIN (pending \o chunk) :
             \/ j \in DOMAIN pending /\ (pending \o chunk)[j] = pending[j]
             \/ j - Len(pending) \in DOMAIN chunk /\ (pending \o chunk)[j] = chunk[j - Len(pending)]
    BY <2>0, Joined
  <2> QED
    BY <1>4, <2>1
<1>7. \A j \in DOMAIN out' : IsRequest(out'[j]) => j = Len(out') /\ out'[j].of = child'.check
  <2> SUFFICES ASSUME NEW j \in DOMAIN rest, IsRequest(rest[j])
               PROVE  j = Len(rest) /\ rest[j].of = child.check
    BY <1>2, <1>4
  <2>1. k + j \in DOMAIN out /\ rest[j] = out[k + j] /\ j \in Nat
    BY <1>2, <1>3
  <2> QED
    BY <1>2, <1>3, <2>1 DEF RequestsLast
<1>8. \A j \in DOMAIN pending' :
        IsRequest(pending'[j]) => j = Len(pending') /\ out' = <<>> /\ pending'[j].of = child'.check
  <2> SUFFICES ASSUME NEW j \in DOMAIN pending', IsRequest(pending'[j])
               PROVE  j = Len(pending') /\ out' = <<>> /\ pending'[j].of = child'.check
    OBVIOUS
  <2>1. j - Len(pending) \in 1..k /\ pending'[j] = out[j - Len(pending)]
    BY <1>3, <1>5, <1>6
  <2>2. j - Len(pending) \in DOMAIN out
    BY <1>2, <2>1
  <2>3. j - Len(pending) = Len(out) /\ pending'[j].of = child.check
    BY <2>1, <2>2 DEF RequestsLast
  <2>4. j \in Nat /\ Len(pending) \in Nat /\ k = Len(out)
    BY <1>2, <1>6, <2>1, <2>3
  <2> QED
    BY <1>2, <1>3, <1>4, <1>6, <2>3, <2>4
<1>9. Requested' => Requested
  <2>1. ASSUME NEW j \in DOMAIN out', IsRequest(out'[j]) PROVE RequestIn(out)
    <3>1. j \in 1..(Len(out) - k) /\ out'[j] = rest[j]
      BY <1>3, <1>4, <2>1
    <3>2. k + j \in DOMAIN out /\ out'[j] = out[k + j]
      BY <1>2, <1>3, <3>1
    <3> QED
      BY <2>1, <3>2 DEF RequestIn
  <2>2. ASSUME NEW j \in DOMAIN pending', IsRequest(pending'[j]) PROVE RequestIn(out)
    <3>1. j - Len(pending) \in 1..k /\ pending'[j] = out[j - Len(pending)]
      BY <1>3, <1>5, <1>6, <2>2
    <3> QED
      BY <1>2, <2>2, <3>1 DEF RequestIn
  <2> QED
    BY <2>1, <2>2 DEF Requested, RequestIn
<1>10. ProbeTypeOK'
  BY <1>2, <1>3, <1>4, <1>6 DEF ProbeTypeOK
<1>11. RequestsLast'
  BY <1>7, <1>8 DEF RequestsLast
<1>12. InStep'
  BY <1>2, <1>9 DEF InStep
<1>13. Noted' /\ AnswersRight' /\ RowsRight' /\ StatusRight'
  BY <1>2 DEF Noted, AnswersRight, RowsRight, StatusRight
<1> QED
  BY <1>10, <1>11, <1>12, <1>13

LEMMA TakeLineKeeps ==
  ASSUME ProbeInv, TakeLine
  PROVE  ProbeInv'
<1> USE DEF ProbeInv
<1>1. PICK k \in DOMAIN pending :
        /\ pending[k].end
        /\ pending' = SubSeq(pending, k + 1, Len(pending))
        /\ IF pending[k].of = 0
             THEN UNCHANGED <<runner, asked>>
             ELSE runner' = "sample" /\ asked' = pending[k].of
  BY DEF TakeLine
<1>2. /\ runner = "read" /\ pending \in Seq(Piece) /\ k \in 1..Len(pending)
      /\ UNCHANGED <<child, out, open, answers, samples, code, files>>
  BY DEF TakeLine, ProbeTypeOK, probe
<1>3. /\ pending' \in Seq(Piece) /\ Len(pending') = Len(pending) - k
      /\ DOMAIN pending' = 1..(Len(pending) - k)
      /\ \A j \in 1..(Len(pending) - k) : pending'[j] = pending[k + j]
      /\ k = Len(pending) => pending' = <<>>
  BY <1>1, <1>2, Split
<1>4. \A j \in DOMAIN pending' :
        IsRequest(pending'[j]) => j = Len(pending') /\ out' = <<>> /\ pending'[j].of = child'.check
  <2> SUFFICES ASSUME NEW j \in DOMAIN pending', IsRequest(pending'[j])
               PROVE  j = Len(pending') /\ out = <<>> /\ pending'[j].of = child.check
    BY <1>2
  <2>1. k + j \in DOMAIN pending /\ pending'[j] = pending[k + j] /\ j \in Nat
    BY <1>2, <1>3
  <2>2. k + j = Len(pending) /\ out = <<>> /\ pending[k + j].of = child.check
    BY <2>1 DEF RequestsLast
  <2> QED
    BY <1>2, <1>3, <2>1, <2>2
<1>5. Requested' => Requested
  <2>1. ASSUME NEW j \in DOMAIN pending', IsRequest(pending'[j]) PROVE RequestIn(pending)
    <3>1. k + j \in DOMAIN pending /\ pending'[j] = pending[k + j]
      BY <1>2, <1>3
    <3> QED
      BY <2>1, <3>1 DEF RequestIn
  <2> QED
    BY <1>2, <2>1 DEF Requested, RequestIn
<1>6. RequestsLast'
  BY <1>2, <1>4 DEF RequestsLast
<1>7. Noted' /\ RowsRight'
  BY <1>2 DEF Noted, RowsRight
<1>8. CASE pending[k].of = 0
  <2>1. UNCHANGED <<runner, asked>>
    BY <1>1, <1>8
  <2>2. ProbeTypeOK'
    BY <1>2, <1>3, <2>1 DEF ProbeTypeOK
  <2>3. InStep'
    BY <1>2, <1>5, <2>1 DEF InStep
  <2>4. AnswersRight' /\ StatusRight'
    BY <1>2, <2>1 DEF AnswersRight, StatusRight
  <2> QED
    BY <1>6, <1>7, <2>2, <2>3, <2>4
<1>9. CASE pending[k].of # 0
  <2>1. runner' = "sample" /\ asked' = pending[k].of
    BY <1>1, <1>9
  <2>2. IsRequest(pending[k])
    BY <1>1, <1>9 DEF IsRequest
  <2>3. k = Len(pending) /\ out = <<>> /\ pending[k].of = child.check
    BY <1>2, <2>2 DEF RequestsLast
  <2>4. Requested
    BY <1>1, <2>2 DEF Requested, RequestIn
  <2>5. pending' = <<>> /\ out' = <<>>
    BY <1>2, <1>3, <2>3
  <2>6. ~Requested'
    BY <2>5 DEF Requested, RequestIn
  <2>7. ProbeTypeOK'
    BY <1>2, <1>3, <2>1, <2>3 DEF ProbeTypeOK
  <2>8. InStep'
    BY <1>2, <2>1, <2>3, <2>4, <2>6 DEF InStep
  <2>9. \A i \in Checks : files["ack"][i] = "none"
    BY <2>4 DEF AnswersRight, InStep, ProbeTypeOK
  <2>10. AnswersRight' /\ StatusRight'
    BY <1>2, <2>1, <2>9 DEF AnswersRight, StatusRight
  <2> QED
    BY <1>6, <1>7, <2>7, <2>8, <2>10
<1> QED
  BY <1>8, <1>9

(* The runner's steps that write no row and no answer, and wait.           *)
LEMMA WaitKeeps ==
  ASSUME ProbeInv,
         \/ EndOfFile \/ Deadline \/ WaitReturns
         \/ PipeCloses
  PROVE  ProbeInv'
<1> USE DEF ProbeInv
<1>1. /\ UNCHANGED <<child, out, pending, answers, asked, samples, files>>
      /\ open' \in BOOLEAN
      /\ \/ UNCHANGED <<runner, code>>
         \/ runner = "read" /\ runner' = "wait" /\ code' = code
         \/ /\ runner = "wait" /\ runner' = "ended" /\ child.pc = "exited"
            /\ code' = IF Len(samples) = N THEN child.code ELSE 2
  BY DEF EndOfFile, Deadline, WaitReturns, PipeCloses, probe, script, ProbeTypeOK
<1>2. ProbeTypeOK'
  BY <1>1 DEF ProbeTypeOK
<1>3. RequestsLast' /\ Noted' /\ RowsRight'
  BY <1>1 DEF RequestsLast, Noted, RowsRight
<1>4. InStep'
  BY <1>1 DEF InStep, Requested, RequestIn
<1>5. AnswersRight' /\ StatusRight'
  BY <1>1 DEF AnswersRight, StatusRight
<1> QED
  BY <1>2, <1>3, <1>4, <1>5

LEMMA SampleKeeps ==
  ASSUME ProbeInv, Sample
  PROVE  /\ ProbeInv' /\ \E verdict \in Verdicts : samples'[child.check].verdict = verdict
         /\ Len(samples') = Len(samples) + 1
<1> USE ProbeAssumption DEF ProbeInv
<1> DEFINE c == child.check
           seen == IF child.pc = "asking" THEN c ELSE 0
<1>1. PICK verdict \in Verdicts :
        samples' = Append(samples, [name |-> asked, verdict |-> verdict, shown |-> seen])
  BY DEF Sample, Verdicts
<1>2. /\ runner = "sample" /\ runner' = "write"
      /\ UNCHANGED <<child, out, open, answers, pending, asked, code, files>>
  BY DEF Sample, probe
<1>3. /\ c \in Nat /\ c <= N /\ asked = c /\ Len(samples) + 1 = c /\ c \in Checks
      /\ child.pc # "drawing" /\ Len(answers) + 1 = c /\ ~Requested
      /\ samples \in Seq(SampleRow) /\ Len(answers) \in Nat
  BY <1>2 DEF InStep, Noted, ProbeTypeOK, Checks, SampleRow, Verdicts
<1> DEFINE row == [name |-> asked, verdict |-> verdict, shown |-> seen]
<1>4. /\ row \in SampleRow /\ row.name = c /\ row.verdict = verdict
      /\ child.pc = "asking" => row.shown = c
  BY <1>3 DEF SampleRow
<1> HIDE DEF row, seen
<1>5. samples' = Append(samples, row)
  BY <1>1 DEF row, seen
<1>6. /\ samples' \in Seq(SampleRow) /\ Len(samples') = c /\ DOMAIN samples' = 1..c
      /\ \A i \in 1..(c - 1) : samples'[i] = samples[i]
      /\ samples'[c] = row
  <2> HIDE DEF SampleRow
  <2> QED
    BY <1>3, <1>4, <1>5, Appended
<1>7. ProbeTypeOK'
  BY <1>2, <1>3, <1>6 DEF ProbeTypeOK, SampleRow, Verdicts
<1>8. RequestsLast'
  BY <1>2 DEF RequestsLast
<1>9. \A i \in Checks : files["ack"][i] = "none"
  BY <1>2 DEF AnswersRight
<1>10. InStep'
  BY <1>2, <1>3, <1>6, <1>9 DEF InStep, Requested, RequestIn
<1>11. Noted'
  <2>1. \A i \in DOMAIN answers : i \in 1..(c - 1)
    BY <1>3 DEF ProbeTypeOK
  <2> QED
    BY <1>2, <1>3, <1>6, <2>1 DEF Noted
<1>12. AnswersRight'
  BY <1>2, <1>9 DEF AnswersRight
<1>13. RowsRight'
  <2> SUFFICES ASSUME NEW i \in 1..c
               PROVE  /\ samples'[i].name = i
                      /\ i <= Len(answers) \/ child.pc = "asking" => samples'[i].shown = i
    BY <1>2, <1>6 DEF RowsRight
  <2>1. CASE i = c
    BY <2>1, <1>3, <1>4, <1>6
  <2>2. CASE i # c
    <3>1. i \in DOMAIN samples /\ samples'[i] = samples[i]
      BY <2>2, <1>3, <1>6
    <3> QED
      BY <3>1 DEF RowsRight
  <2> QED
    BY <2>1, <2>2
<1>14. StatusRight'
  BY <1>2 DEF StatusRight
<1> QED
  BY <1>3, <1>4, <1>6, <1>7, <1>8, <1>10, <1>11, <1>12, <1>13, <1>14

LEMMA WriteAckKeeps ==
  ASSUME ProbeInv, WriteAck
  PROVE  ProbeInv'
<1> USE DEF ProbeInv
<1> DEFINE c == child.check
<1>1. /\ runner = "write" /\ runner' = "rename"
      /\ files' = [files EXCEPT !["tmp"][Len(samples)] = samples[Len(samples)].verdict]
      /\ UNCHANGED <<child, out, open, answers, pending, asked, samples, code>>
  BY DEF WriteAck, probe
<1>2. /\ Len(samples) = c /\ c \in Checks /\ c \in DOMAIN samples /\ ~Requested
      /\ child.pc # "drawing"
  BY <1>1 DEF InStep, ProbeTypeOK, Checks
<1>3. samples[c].verdict \in Contents
  BY <1>2, RowTyped DEF SampleRow, Verdicts, Contents
<1>4. /\ files' \in [{"tmp", "ack"} -> [Checks -> Contents]]
      /\ files'["tmp"][c] = samples[c].verdict
      /\ \A i \in Checks : files'["ack"][i] = files["ack"][i]
  BY <1>1, <1>2, <1>3 DEF ProbeTypeOK
<1>5. ProbeTypeOK'
  BY <1>1, <1>4 DEF ProbeTypeOK
<1>6. RequestsLast' /\ Noted' /\ RowsRight' /\ StatusRight'
  BY <1>1 DEF RequestsLast, Noted, RowsRight, StatusRight
<1>7. InStep'
  BY <1>1, <1>2, <1>4 DEF InStep, Requested, RequestIn
<1>8. AnswersRight'
  BY <1>1, <1>2, <1>4 DEF AnswersRight
<1> QED
  BY <1>5, <1>6, <1>7, <1>8

LEMMA ReplaceAckKeeps ==
  ASSUME ProbeInv, ReplaceAck
  PROVE  ProbeInv'
<1> USE DEF ProbeInv
<1> DEFINE c == child.check
<1>1. /\ runner = "rename" /\ runner' = "read"
      /\ files' = [files EXCEPT !["ack"][Len(samples)] = files["tmp"][Len(samples)],
                                !["tmp"][Len(samples)] = "none"]
      /\ UNCHANGED <<child, out, open, answers, pending, asked, samples, code>>
  BY DEF ReplaceAck, probe
<1>2. /\ Len(samples) = c /\ c \in Checks /\ c \in DOMAIN samples /\ ~Requested
      /\ child.pc # "drawing" /\ files["tmp"][c] = samples[c].verdict
      /\ \A i \in Checks : files["ack"][i] = "none"
  BY <1>1 DEF InStep, AnswersRight, ProbeTypeOK, Checks
<1>3. samples[c].verdict \in Contents
  BY <1>2, RowTyped DEF SampleRow, Verdicts, Contents
<1>4. /\ files' \in [{"tmp", "ack"} -> [Checks -> Contents]]
      /\ files'["ack"][c] = samples[c].verdict
      /\ \A i \in Checks : i # c => files'["ack"][i] = "none"
  BY <1>1, <1>2, <1>3 DEF ProbeTypeOK, Contents
<1>5. ProbeTypeOK'
  BY <1>1, <1>4 DEF ProbeTypeOK
<1>6. RequestsLast' /\ Noted' /\ RowsRight' /\ StatusRight'
  BY <1>1 DEF RequestsLast, Noted, RowsRight, StatusRight
<1>7. InStep'
  BY <1>1, <1>2 DEF InStep, Requested, RequestIn
<1>8. AnswersRight'
  BY <1>1, <1>2, <1>4 DEF AnswersRight
<1> QED
  BY <1>5, <1>6, <1>7, <1>8

-----------------------------------------------------------------------------
(* The invariant holds, and so do the properties. *)

(* The probe's three exits, and the runner's two exceptions. *)
LEMMA ExitsKeep ==
  ASSUME ProbeInv, AskTimesOut \/ DrawFails \/ Finish \/ SampleFails \/ WaitTimesOut
  PROVE  ProbeInv'
<1> USE DEF ProbeInv
<1>1. CASE AskTimesOut \/ DrawFails
  <2>1. /\ child.pc # "exited" /\ child' = [child EXCEPT !.pc = "exited", !.code = 2]
        /\ UNCHANGED <<out, open, answers, pending, asked, samples, files, runner, code>>
    BY <1>1 DEF AskTimesOut, DrawFails, Exit, script
  <2> QED
    BY <2>1, EndKeeps
<1>2. CASE Finish
  <2> DEFINE status == IF child.failed THEN 1 ELSE 0
  <2>1. /\ child.pc # "exited" /\ child' = [child EXCEPT !.pc = "exited", !.code = status]
        /\ UNCHANGED <<out, open, answers, pending, asked, samples, files, runner, code>>
    BY <1>2 DEF Finish, Exit, script
  <2>2. status \in 0..2 /\ (status = 0 => ~child.failed /\ Len(answers) = N)
    BY <1>2 DEF Finish, Noted
  <2> HIDE DEF status
  <2> QED
    BY <2>1, <2>2, EndKeeps
<1>3. CASE SampleFails \/ WaitTimesOut
  <2>1. /\ Raises /\ UNCHANGED <<out, open, answers, pending, asked, samples, files>>
    BY <1>3 DEF SampleFails, WaitTimesOut
  <2>2. CASE child.pc # "exited"
    <3>1. child' = [child EXCEPT !.pc = "exited", !.code = 2] /\ runner' = "ended" /\ code' = 1
      BY <2>1, <2>2 DEF Raises
    <3> QED
      BY <2>1, <2>2, <3>1, EndKeeps
  <2>3. CASE child.pc = "exited"
    <3>1. child' = child /\ runner' = "ended" /\ code' = 1
      BY <2>1, <2>3 DEF Raises
    <3>2. ProbeTypeOK' /\ RequestsLast' /\ Noted' /\ RowsRight' /\ StatusRight'
      BY <2>1, <3>1 DEF ProbeTypeOK, RequestsLast, Noted, RowsRight, StatusRight
    <3>3. InStep' /\ AnswersRight'
      BY <2>1, <3>1 DEF InStep, Requested, RequestIn, AnswersRight
    <3> QED
      BY <3>2, <3>3
  <2> QED
    BY <2>2, <2>3
<1> QED
  BY <1>1, <1>2, <1>3

LEMMA ProbeStep ==
  ASSUME ProbeInv, [ProbeNext]_probeVars
  PROVE  ProbeInv'
<1>1. CASE UNCHANGED probeVars
  BY <1>1 DEF probeVars, probe, script, ProbeInv, ProbeTypeOK, RequestsLast, InStep, Noted,
     AnswersRight, RowsRight, StatusRight, Requested, RequestIn
<1> QED
  BY <1>1, AskKeeps, ReadAckKeeps, ExitsKeep, ReadChunkKeeps, TakeLineKeeps, WaitKeeps, SampleKeeps,
     WriteAckKeeps, ReplaceAckKeeps DEF ProbeNext, ScriptStep

LEMMA ProbeInvariant == ProbeSpec => []ProbeInv
BY ProbeInitial, ProbeStep, PTL DEF ProbeSpec

(* The variables keep their types; neither side notes or samples more      *)
(* checks than the probe has begun.                                        *)
THEOREM ProbeTyped == ProbeSpec => []ProbeTypeOK
<1>1. ProbeInv => ProbeTypeOK
  BY DEF ProbeInv
<1> QED
  BY <1>1, ProbeInvariant, PTL

(* Status 0 of the runner: every check of the probe was sampled under its  *)
(* name while the probe showed it, and passed, for every number of checks. *)
THEOREM ProbeExitSound == ProbeSpec => []ExitSound
<1>1. ProbeInv => ExitSound
  <2> SUFFICES ASSUME ProbeInv, runner = "ended", code = 0
               PROVE  /\ Len(samples) = N /\ ~child.failed
                      /\ \A i \in Checks :
                            samples[i] = [name |-> i, shown |-> i, verdict |-> "pass"]
    BY DEF ExitSound
  <2>1. Len(samples) = N /\ ~child.failed /\ Len(answers) = N /\ ProbeTypeOK
    BY DEF ProbeInv, StatusRight
  <2>2. ASSUME NEW i \in Checks
        PROVE  samples[i] = [name |-> i, shown |-> i, verdict |-> "pass"]
    <3>1. i \in DOMAIN samples /\ i \in DOMAIN answers
      BY <2>1 DEF ProbeTypeOK, Checks
    <3>2. samples[i] \in SampleRow
      BY <2>1, <3>1, RowTyped
    <3>3. samples[i].name = i /\ samples[i].shown = i
      BY <2>1, <3>1 DEF ProbeInv, RowsRight, Checks, ProbeTypeOK
    <3>4. samples[i].verdict = "pass"
      BY <2>1, <3>1 DEF ProbeInv, Noted
    <3> QED
      BY <3>2, <3>3, <3>4 DEF SampleRow
  <2> QED
    BY <2>1, <2>2
<1> QED
  BY <1>1, ProbeInvariant, PTL

(* What the two programs do about a check is what the abstract probe does. *)
LEMMA ProbeStepMapped ==
  ASSUME ProbeInv, ProbeInv', [ProbeNext]_probeVars
  PROVE  \/ Abstract!ShowNext \/ Abstract!Judge \/ Abstract!Note
         \/ UNCHANGED <<child.check, Judged, answers>>
<1> USE DEF ProbeInv
<1> DEFINE c == child.check
<1>0. /\ c \in Nat /\ c <= N /\ Len(answers) \in Nat /\ Len(samples) \in Nat
      /\ Len(samples) <= c /\ Len(answers) <= Len(samples) /\ c <= Len(answers) + 1
  BY ProbeAssumption DEF ProbeTypeOK, Noted
<1>1. CASE Ask
  <2>1. child.pc = "drawing" /\ c < N /\ c' = c + 1 /\ UNCHANGED <<answers, samples>>
    BY <1>0, <1>1 DEF Ask, script, ProbeTypeOK
  <2>2. Len(answers) = c /\ Judged = "none" /\ Judged' = "none"
    BY <1>0, <2>1 DEF Noted, Judged
  <2> QED
    BY <2>1, <2>2 DEF Abstract!ShowNext
<1>2. CASE ReadAck
  <2>1. /\ child.pc = "asking" /\ files["ack"][c] # "none" /\ c' = c /\ samples' = samples
        /\ answers' = Append(answers, samples[c].verdict) /\ Len(answers) + 1 = c
    BY <1>0, <1>2, ReadAckKeeps DEF ReadAck, script, ProbeTypeOK, Noted
  <2>2. Len(samples) = c /\ c \in DOMAIN samples
    BY <1>0, <2>1, ProbeAssumption DEF AnswersRight, Checks
  <2>3. samples[c].verdict \in Verdicts /\ answers \in Seq(Verdicts)
    BY <2>2, RowTyped DEF SampleRow, ProbeTypeOK, Verdicts
  <2>4. Len(answers') = c
    BY <2>1, <2>3
  <2>5. Judged = samples[c].verdict /\ Judged' = "none"
    BY <1>0, <2>1, <2>2, <2>4 DEF Judged
  <2> QED
    BY <2>1, <2>3, <2>5 DEF Abstract!Note, Verdicts
<1>3. CASE Sample
  <2>1. /\ runner = "sample" /\ UNCHANGED <<child, answers>> /\ Len(samples) + 1 = c
        /\ Len(samples') = Len(samples) + 1
        /\ \E verdict \in Verdicts : samples'[c].verdict = verdict
    BY <1>3, SampleKeeps DEF Sample, probe, InStep
  <2>2. Len(answers) + 1 = c
    BY <1>0, <2>1
  <2>3. Judged = "none" /\ Judged' \in {"pass", "fail"}
    BY <1>0, <2>1, <2>2 DEF Judged, Verdicts
  <2> QED
    BY <2>1, <2>2, <2>3 DEF Abstract!Judge
<1>4. CASE \/ AskTimesOut \/ DrawFails \/ Finish \/ SampleFails \/ WaitTimesOut
  <2>1. UNCHANGED <<answers, samples>> /\ c' = c
    BY <1>4 DEF AskTimesOut, DrawFails, Finish, SampleFails, WaitTimesOut, Exit, Raises, script,
       ProbeTypeOK
  <2> QED
    BY <2>1 DEF Judged
<1>5. CASE \/ PipeCloses \/ ReadChunk \/ EndOfFile \/ Deadline \/ TakeLine \/ WriteAck \/ ReplaceAck
           \/ WaitReturns \/ UNCHANGED probeVars
  <2>1. UNCHANGED <<answers, samples, child>>
    BY <1>5 DEF PipeCloses, ReadChunk, EndOfFile, Deadline, TakeLine, WriteAck, ReplaceAck,
       WaitReturns, probeVars, probe, script
  <2> QED
    BY <2>1 DEF Judged
<1> QED
  BY <1>1, <1>2, <1>3, <1>4, <1>5 DEF ProbeNext, ScriptStep

(* The chunks, the numbered files and their renaming, with every timeout   *)
(* of either side, implement a probe that notes of each check the verdict  *)
(* that was reached while the check was shown.                             *)
THEOREM ProbeImplementsAnswers == ProbeSpec => Refines
<1>1. ProbeInit => child.check = 0 /\ Judged = "none" /\ answers = <<>>
  BY DEF ProbeInit, Judged
<1>2. /\ ProbeInv /\ ProbeInv' /\ [ProbeNext]_probeVars
      => [Abstract!ShowNext \/ Abstract!Judge \/ Abstract!Note]_<<child.check, Judged, answers>>
  BY ProbeStepMapped
<1> QED
  BY <1>1, <1>2, ProbeInvariant, PTL DEF ProbeSpec, Refines, Abstract!Spec

-----------------------------------------------------------------------------
(* Menus: the runner, the menu and the observer. *)

(* The runner counts its openings: in the series, and one at a time. *)
Counted ==
  /\ pc \in {"wait", "close", "complete"} => Len(rows) >= 1
  /\ pc = "request" => Len(rows) < Openings
  /\ pc = "complete" => Len(rows) = Openings

(* A measured interval is over before the next request, and only the       *)
(* latest request may be without its map.                                  *)
Measured ==
  /\ \A k \in DOMAIN lines : lines[k].stamp <= now
  /\ \A i \in DOMAIN rows :
       /\ rows[i].start <= now
       /\ rows[i].map = NoMap => i = Len(rows) /\ pc \in {"wait", "incomplete"}
       /\ rows[i].map # NoMap =>
            /\ rows[i].start <= rows[i].map.stamp /\ rows[i].map.stamp <= now
            /\ \A j \in DOMAIN rows : i < j => rows[i].map.stamp < rows[j].start

(* An opening that Lightroom is not done with is the latest request; what  *)
(* is mapped belongs to that request, and so does every line that the      *)
(* runner does not skip.                                                   *)
InOrder ==
  pc # "incomplete" =>
    /\ \A k \in DOMAIN input : input[k] # 0 => input[k] = Len(rows)
    /\ \A k \in DOMAIN mapped : mapped[k] = Len(rows)
    /\ \A k \in DOMAIN lines : lines[k].of <= Len(rows)
    /\ pc = "wait" =>
         \A k \in DOMAIN lines : lines[k].of = Len(rows) \/ lines[k].stamp < This.start

MenusInv == TypeOK /\ Counted /\ Measured

PromptInv == MenusInv /\ InOrder /\ OwnMap

Row == [start : Nat, map : Stamped \cup {NoMap}]

LEMMA MenusInitial == Init => PromptInv
BY MenuAssumption DEF Init, PromptInv, MenusInv, TypeOK, Counted, Measured, InOrder, OwnMap

(* The latest row. *)
LEMMA ThisTyped ==
  ASSUME TypeOK, Len(rows) >= 1
  PROVE  /\ rows \in Seq(Row) /\ Len(rows) \in DOMAIN rows /\ This \in Row
         /\ Len(rows) \in Nat /\ Len(rows) >= 1
         /\ DOMAIN rows = 1..Len(rows)
<1>1. rows \in Seq(Row) /\ rows # <<>>
  BY DEF TypeOK, Row
<1> HIDE DEF Row
<1> QED
  BY <1>1 DEF This

LEMMA LineStamps ==
  ASSUME TypeOK, NEW k \in DOMAIN lines
  PROVE  lines[k] \in Stamped /\ lines[k].stamp \in Nat /\ lines[k].of \in Nat /\ lines[k] # NoMap
<1>1. lines \in Seq(Stamped)
  BY DEF TypeOK
<1>2. lines[k] \in Stamped
  BY <1>1
<1> QED
  BY <1>2 DEF Stamped, NoMap

LEMMA MapWindowKeeps ==
  ASSUME MenusInv, MapWindow
  PROVE  MenusInv' /\ (Prompt /\ InOrder /\ OwnMap => InOrder' /\ OwnMap')
<1> USE MenuAssumption DEF MenusInv
<1>1. /\ input # <<>> /\ Head(input) # 0 /\ shown < Windows
      /\ mapped' = Append(mapped, Head(input)) /\ shown' = shown + 1
      /\ UNCHANGED <<now, input, lines, alive, pc, rows>>
      /\ input \in Seq(0..Openings) /\ mapped \in Seq(1..Openings) /\ shown \in 0..Windows
  BY DEF MapWindow, TypeOK
<1>2. Head(input) \in 1..Openings /\ Head(input) = input[1] /\ 1 \in DOMAIN input
  <2>1. /\ Head(input) \in 0..Openings /\ Head(input) = input[1]
        /\ Len(input) \in Nat /\ Len(input) >= 1
    BY <1>1, Rest
  <2> QED
    BY <1>1, <2>1
<1>3. /\ mapped' \in Seq(1..Openings)
      /\ \A k \in DOMAIN mapped' :
           (k \in DOMAIN mapped /\ mapped'[k] = mapped[k]) \/ mapped'[k] = Head(input)
  BY <1>1, <1>2, Appended
<1>4. TypeOK'
  BY <1>1, <1>3 DEF TypeOK
<1>5. Counted' /\ Measured' /\ (OwnMap => OwnMap')
  BY <1>1 DEF Counted, Measured, OwnMap
<1>6. ASSUME InOrder PROVE InOrder'
  <2> SUFFICES ASSUME pc # "incomplete" PROVE InOrder'
    BY <1>1 DEF InOrder
  <2>1. Head(input) = Len(rows)
    BY <1>1, <1>2, <1>6 DEF InOrder
  <2>2. \A k \in DOMAIN mapped' : mapped'[k] = Len(rows)
    BY <1>3, <1>6, <2>1 DEF InOrder
  <2> QED
    BY <1>1, <1>6, <2>2 DEF InOrder, This
<1> QED
  BY <1>4, <1>5, <1>6

LEMMA HandleInputKeeps ==
  ASSUME MenusInv, HandleInput
  PROVE  MenusInv' /\ (Prompt /\ InOrder /\ OwnMap => InOrder' /\ OwnMap')
<1> USE MenuAssumption DEF MenusInv
<1>1. /\ input # <<>> /\ input' = Tail(input) /\ shown' = 0
      /\ UNCHANGED <<now, mapped, lines, alive, pc, rows>>
      /\ input \in Seq(0..Openings)
  BY DEF HandleInput, TypeOK
<1>2. /\ input' \in Seq(0..Openings)
      /\ \A i \in DOMAIN input' : i + 1 \in DOMAIN input /\ input'[i] = input[i + 1]
  BY <1>1, Rest
<1>3. TypeOK'
  BY <1>1, <1>2 DEF TypeOK
<1>4. Counted' /\ Measured' /\ (OwnMap => OwnMap')
  BY <1>1 DEF Counted, Measured, OwnMap
<1>5. InOrder => InOrder'
  BY <1>1, <1>2 DEF InOrder, This
<1> QED
  BY <1>3, <1>4, <1>5

LEMMA StampKeeps ==
  ASSUME MenusInv, Stamp
  PROVE  MenusInv' /\ (Prompt /\ InOrder /\ OwnMap => InOrder' /\ OwnMap')
<1> USE MenuAssumption DEF MenusInv
<1> DEFINE line == [of |-> Head(mapped), stamp |-> now]
<1>1. /\ mapped # <<>> /\ mapped' = Tail(mapped)
      /\ UNCHANGED <<now, input, shown, alive, pc, rows>>
      /\ lines' = Append(lines, line)
      /\ lines \in Seq(Stamped) /\ mapped \in Seq(1..Openings) /\ now \in Nat
      /\ Len(rows) \in Nat
  BY DEF Stamp, TypeOK
<1>2. /\ Head(mapped) \in 1..Openings /\ Head(mapped) = mapped[1]
      /\ Len(mapped) \in Nat /\ Len(mapped) >= 1
      /\ mapped' \in Seq(1..Openings)
      /\ \A i \in DOMAIN mapped' : i + 1 \in DOMAIN mapped /\ mapped'[i] = mapped[i + 1]
  BY <1>1, Rest
<1>3. line \in Stamped /\ line.of = mapped[1] /\ line.stamp = now
  BY <1>1, <1>2 DEF Stamped
<1> HIDE DEF line
<1>4. /\ lines' \in Seq(Stamped)
      /\ \A k \in DOMAIN lines' : \/ k \in DOMAIN lines /\ lines'[k] = lines[k]
                                  \/ lines'[k] = line
  <2> HIDE DEF Stamped
  <2> QED
    BY <1>1, <1>3, Appended
<1>5. TypeOK'
  BY <1>1, <1>2, <1>4 DEF TypeOK
<1>6. Counted' /\ (OwnMap => OwnMap')
  BY <1>1 DEF Counted, OwnMap
<1>7. \A k \in DOMAIN lines' : lines'[k].stamp <= now
  BY <1>1, <1>3, <1>4 DEF Measured
<1>8. Measured'
  BY <1>1, <1>7 DEF Measured
<1>9. ASSUME InOrder PROVE InOrder'
  <2> SUFFICES ASSUME pc # "incomplete" PROVE InOrder'
    BY <1>1 DEF InOrder
  <2>2. 1 \in DOMAIN mapped
    BY <1>1, <1>2
  <2>3. line.of = Len(rows)
    BY <1>3, <1>9, <2>2 DEF InOrder
  <2>4. \A k \in DOMAIN mapped' : mapped'[k] = Len(rows)
    BY <1>2, <1>9 DEF InOrder
  <2>5. pc = "wait" =>
          \A k \in DOMAIN lines' : lines'[k].of = Len(rows) \/ lines'[k].stamp < This.start
    BY <1>4, <1>9, <2>3 DEF InOrder
  <2>6. \A k \in DOMAIN lines' : lines'[k].of <= Len(rows)
    BY <1>1, <1>4, <1>9, <2>3 DEF InOrder
  <2> QED
    BY <1>1, <1>9, <2>4, <2>5, <2>6 DEF InOrder, This
<1> QED
  BY <1>5, <1>6, <1>8, <1>9

(* All that earlier requests map is mapped and stamped before this one     *)
(* starts; only here promptness matters.                                   *)
LEMMA RequestKeeps ==
  ASSUME MenusInv, Request
  PROVE  MenusInv' /\ (Prompt /\ InOrder /\ OwnMap => InOrder' /\ OwnMap')
<1> USE MenuAssumption DEF MenusInv
<1> DEFINE L == Len(rows)
           row == [start |-> now + 1, map |-> NoMap]
<1>1. /\ pc = "request" /\ pc' = "wait" /\ now' = now + 1
      /\ UNCHANGED <<shown, mapped, lines, alive>>
      /\ input' = Append(input, L + 1) /\ rows' = Append(rows, row)
      /\ input \in Seq(0..Openings) /\ rows \in Seq(Row) /\ now \in Nat
      /\ Prompt => mapped = <<>> /\ \A k \in DOMAIN input : input[k] = 0
  BY DEF Request, TypeOK, Row
<1>2. L \in Nat /\ L < Openings /\ L + 1 \in 0..Openings
  BY <1>1 DEF Counted
<1>3. row \in Row /\ row.start = now + 1 /\ row.map = NoMap
  BY <1>1 DEF Row
<1> HIDE DEF row
<1>4. /\ rows' \in Seq(Row) /\ Len(rows') = L + 1 /\ DOMAIN rows' = 1..(L + 1)
      /\ \A i \in 1..L : rows'[i] = rows[i]
      /\ rows'[L + 1] = row
  <2> HIDE DEF Row
  <2> QED
    BY <1>1, <1>3, Appended
<1>5. /\ input' \in Seq(0..Openings) /\ Len(input') = Len(input) + 1
      /\ DOMAIN input' = 1..(Len(input) + 1)
      /\ \A i \in 1..Len(input) : input'[i] = input[i]
      /\ input'[Len(input) + 1] = L + 1
  BY <1>1, <1>2, Appended
<1>6. TypeOK'
  BY <1>1, <1>2, <1>4, <1>5 DEF TypeOK, Row
<1>7. Counted'
  BY <1>1, <1>2, <1>4 DEF Counted
<1>8. \A i \in 1..L : i \in DOMAIN rows /\ rows[i].map # NoMap
  BY <1>1, <1>2 DEF Measured
<1>9. Measured'
  <2>1. \A k \in DOMAIN lines' : lines'[k].stamp <= now'
    BY <1>1, LineStamps DEF Measured
  <2>2. ASSUME NEW i \in DOMAIN rows'
        PROVE  /\ rows'[i].start <= now'
               /\ rows'[i].map = NoMap => i = Len(rows') /\ pc' \in {"wait", "incomplete"}
               /\ rows'[i].map # NoMap =>
                    /\ rows'[i].start <= rows'[i].map.stamp /\ rows'[i].map.stamp <= now'
                    /\ \A j \in DOMAIN rows' : i < j => rows'[i].map.stamp < rows'[j].start
    <3>1. CASE i = L + 1
      BY <1>1, <1>3, <1>4, <3>1
    <3>2. CASE i \in 1..L
      <4>1. rows'[i] = rows[i] /\ rows[i] \in Row /\ rows[i].map # NoMap
        BY <1>1, <1>4, <1>8, <3>2
      <4>2. rows[i].start \in Nat /\ rows[i].map.stamp \in Nat
        BY <4>1 DEF Row, Stamped, NoMap
      <4>3. /\ rows[i].start <= now /\ rows[i].start <= rows[i].map.stamp
            /\ rows[i].map.stamp <= now
            /\ \A j \in 1..L : i < j => rows[i].map.stamp < rows[j].start
        BY <1>8, <3>2, <4>1 DEF Measured
      <4> QED
        BY <1>1, <1>3, <1>4, <4>1, <4>2, <4>3
    <3> QED
      BY <1>2, <1>4, <3>1, <3>2
  <2> QED
    BY <2>1, <2>2 DEF Measured
<1>10. ASSUME Prompt, InOrder, OwnMap PROVE InOrder' /\ OwnMap'
  <2>1. mapped' = <<>> /\ (\A k \in DOMAIN input : input[k] = 0)
    BY <1>1, <1>10
  <2>2. \A k \in DOMAIN input' : input'[k] # 0 => input'[k] = L + 1
    BY <1>1, <1>5, <2>1
  <2>3. \A n \in DOMAIN lines' :
          lines'[n].stamp < rows'[L + 1].start /\ lines'[n].of # L + 1 /\ lines'[n].of <= L + 1
    BY <1>1, <1>2, <1>3, <1>4, <1>10, LineStamps DEF Measured, InOrder
  <2>4. InOrder'
    BY <1>1, <1>4, <2>1, <2>2, <2>3 DEF InOrder, This
  <2>5. OwnMap'
    BY <1>1, <1>2, <1>3, <1>4, <1>10 DEF OwnMap
  <2> QED
    BY <2>4, <2>5
<1> QED
  BY <1>6, <1>7, <1>9, <1>10

(* Lightroom may still handle the input of a helper that failed.           *)
LEMMA StopKeeps ==
  ASSUME MenusInv, HelperFails \/ TimesOut \/ ObserverEnds
  PROVE  MenusInv' /\ (Prompt /\ InOrder /\ OwnMap => InOrder' /\ OwnMap')
<1> USE MenuAssumption DEF MenusInv
<1>1. UNCHANGED <<now, shown, mapped, lines, rows>> /\ alive' \in BOOLEAN
  BY DEF HelperFails, TimesOut, ObserverEnds, TypeOK, fixture
<1>2. \/ pc' = "incomplete" /\ pc \in {"request", "close", "wait"}
      \/ UNCHANGED <<pc, input>>
  BY DEF HelperFails, TimesOut, ObserverEnds
<1>3. input' \in Seq(0..Openings)
  <2>1. input \in Seq(0..Openings) /\ Len(rows) \in Nat
    BY DEF TypeOK
  <2>2. CASE HelperFails
    <3>1. PICK of \in 0..Openings : input' \in {input, Append(input, of)}
      BY <2>1, <2>2 DEF HelperFails, Counted
    <3> QED
      BY <2>1, <3>1
  <2> QED
    BY <2>1, <2>2 DEF TimesOut, ObserverEnds, fixture
<1>4. TypeOK' /\ Counted' /\ (OwnMap => OwnMap')
  BY <1>1, <1>2, <1>3 DEF TypeOK, Counted, OwnMap
<1>5. Measured'
  BY <1>1, <1>2 DEF Measured
<1>6. InOrder => InOrder'
  BY <1>1, <1>2 DEF InOrder, This
<1> QED
  BY <1>4, <1>5, <1>6

LEMMA SkipEarlierKeeps ==
  ASSUME MenusInv, SkipEarlier
  PROVE  MenusInv' /\ (Prompt /\ InOrder /\ OwnMap => InOrder' /\ OwnMap')
<1> USE DEF MenusInv
<1>1. /\ lines # <<>> /\ lines' = Tail(lines)
      /\ UNCHANGED <<now, input, shown, mapped, alive, pc, rows>>
      /\ lines \in Seq(Stamped)
  BY DEF SkipEarlier, TypeOK
<1>2. /\ lines' \in Seq(Stamped)
      /\ \A k \in DOMAIN lines' : k + 1 \in DOMAIN lines /\ lines'[k] = lines[k + 1]
  BY <1>1, Rest
<1>3. TypeOK' /\ Counted' /\ (OwnMap => OwnMap')
  BY <1>1, <1>2 DEF TypeOK, Counted, OwnMap
<1>4. Measured'
  BY <1>1, <1>2 DEF Measured
<1>5. InOrder => InOrder'
  BY <1>1, <1>2 DEF InOrder, This
<1> QED
  BY <1>3, <1>4, <1>5

(* The line is the present request's: an earlier one has an earlier stamp. *)
LEMMA TakeMapKeeps ==
  ASSUME MenusInv, TakeMap
  PROVE  MenusInv' /\ (Prompt /\ InOrder /\ OwnMap => InOrder' /\ OwnMap')
<1> USE MenuAssumption DEF MenusInv
<1> DEFINE L == Len(rows)
           line == Head(lines)
<1>1. /\ pc = "wait" /\ pc' = "close" /\ lines # <<>> /\ lines' = Tail(lines)
      /\ rows' = [rows EXCEPT ![L].map = line] /\ line.stamp >= This.start
      /\ UNCHANGED <<now, input, shown, mapped, alive>> /\ lines \in Seq(Stamped)
  BY DEF TakeMap, TypeOK
<1>2. /\ line \in Stamped /\ line = lines[1] /\ 1 \in DOMAIN lines
      /\ lines' \in Seq(Stamped)
      /\ \A k \in DOMAIN lines' : k + 1 \in DOMAIN lines /\ lines'[k] = lines[k + 1]
  <2> HIDE DEF Stamped
  <2> QED
    BY <1>1, Rest
<1>3. line # NoMap /\ line.stamp \in Nat /\ line.of \in Nat /\ line.stamp <= now
  BY <1>2, LineStamps DEF Measured
<1>4. /\ rows \in Seq(Row) /\ L \in DOMAIN rows /\ This \in Row /\ L \in Nat /\ L >= 1
      /\ DOMAIN rows = 1..L
  BY <1>1, ThisTyped DEF Counted
<1> HIDE DEF line
<1>5. /\ rows' \in Seq(Row) /\ Len(rows') = L /\ DOMAIN rows' = 1..L
      /\ \A i \in 1..L : i # L => rows'[i] = rows[i]
      /\ rows'[L].start = rows[L].start /\ rows'[L].map = line
  <2> DEFINE row == [rows[L] EXCEPT !.map = line]
  <2>1. rows[L] \in Row /\ rows' = [rows EXCEPT ![L] = row]
    BY <1>1, <1>4 DEF This
  <2>2. row = [start |-> rows[L].start, map |-> line]
    BY <2>1 DEF Row
  <2>3. row \in Row /\ row.start = rows[L].start /\ row.map = line
    BY <1>2, <2>1, <2>2 DEF Row
  <2> HIDE DEF row, Row
  <2> QED
    BY <1>4, <2>1, <2>3, Replaced
<1>6. TypeOK'
  BY <1>1, <1>2, <1>5 DEF TypeOK, Row
<1>7. Counted'
  BY <1>1, <1>4, <1>5 DEF Counted
<1>8. Measured'
  <2>1. \A k \in DOMAIN lines' : lines'[k].stamp <= now'
    BY <1>1, <1>2 DEF Measured
  <2>2. ASSUME NEW i \in 1..L
        PROVE  /\ rows'[i].start <= now
               /\ rows'[i].map # NoMap
               /\ rows'[i].start <= rows'[i].map.stamp /\ rows'[i].map.stamp <= now
               /\ \A j \in 1..L : i < j => rows'[i].map.stamp < rows'[j].start
    <3>1. CASE i = L
      <4>1. rows[L].start <= now
        BY <1>4 DEF Measured
      <4>2. rows[L].start \in Nat /\ This = rows[L]
        BY <1>4 DEF Row, This
      <4> QED
        BY <1>1, <1>3, <1>4, <1>5, <3>1, <4>1, <4>2
    <3>2. CASE i # L
      <4>1. rows[i].map # NoMap
        BY <1>4, <3>2 DEF Measured
      <4>2. /\ rows[i].start <= now /\ rows[i].start <= rows[i].map.stamp
            /\ rows[i].map.stamp <= now
            /\ \A j \in 1..L : i < j => rows[i].map.stamp < rows[j].start
        BY <1>4, <4>1 DEF Measured
      <4>3. \A j \in 1..L : rows'[j].start = rows[j].start
        BY <1>5
      <4> QED
        BY <1>4, <1>5, <3>2, <4>1, <4>2, <4>3
    <3> QED
      BY <3>1, <3>2
  <2> QED
    BY <1>1, <1>5, <2>1, <2>2 DEF Measured
<1>9. ASSUME InOrder, OwnMap PROVE InOrder' /\ OwnMap'
  <2>1. line.of = L
    <3>1. line.of = L \/ line.stamp < This.start
      BY <1>1, <1>2, <1>9 DEF InOrder
    <3>2. This.start \in Nat
      BY <1>4 DEF Row
    <3> QED
      BY <1>1, <1>3, <3>1, <3>2
  <2>3. InOrder'
    BY <1>1, <1>2, <1>5, <1>9 DEF InOrder
  <2>4. OwnMap'
    BY <1>4, <1>5, <1>9, <2>1 DEF OwnMap
  <2> QED
    BY <2>3, <2>4
<1> QED
  BY <1>6, <1>7, <1>8, <1>9

LEMMA CloseKeeps ==
  ASSUME MenusInv, Close
  PROVE  MenusInv' /\ (Prompt /\ InOrder /\ OwnMap => InOrder' /\ OwnMap')
<1> USE MenuAssumption DEF MenusInv
<1>1. /\ pc = "close" /\ pc' = (IF Len(rows) = Openings THEN "complete" ELSE "request")
      /\ now' = now + 1 /\ input' = input \o <<0, 0>>
      /\ UNCHANGED <<shown, mapped, lines, alive, rows>>
      /\ input \in Seq(0..Openings) /\ now \in Nat /\ Len(rows) \in Nat /\ Len(rows) <= Openings
  BY DEF Close, TypeOK
<1>2. <<0, 0>> \in Seq(0..Openings) /\ \A i \in DOMAIN <<0, 0>> : <<0, 0>>[i] = 0
  OBVIOUS
<1> DEFINE escapes == <<0, 0>>
<1> HIDE DEF escapes
<1>3. /\ input' \in Seq(0..Openings)
      /\ \A k \in DOMAIN input' : (k \in DOMAIN input /\ input'[k] = input[k]) \/ input'[k] = 0
  <2>1. escapes \in Seq(0..Openings) /\ \A i \in DOMAIN escapes : escapes[i] = 0
    BY <1>2 DEF escapes
  <2>2. /\ input \o escapes \in Seq(0..Openings)
        /\ \A k \in DOMAIN (input \o escapes) :
             \/ k \in DOMAIN input /\ (input \o escapes)[k] = input[k]
             \/ \E i \in DOMAIN escapes :
                  k = Len(input) + i /\ (input \o escapes)[k] = escapes[i]
    BY <1>1, <2>1, Joined, JoinedElements
  <2>3. input' = input \o escapes
    BY <1>1 DEF escapes
  <2> QED
    BY <2>1, <2>2, <2>3
<1>4. TypeOK' /\ Counted' /\ (OwnMap => OwnMap')
  BY <1>1, <1>3 DEF TypeOK, Counted, OwnMap
<1>5. Measured'
  <2>1. \A k \in DOMAIN lines' : lines'[k].stamp <= now'
    BY <1>1, LineStamps DEF Measured
  <2>2. \A i \in DOMAIN rows : rows[i] \in Row
    <3>1. rows \in Seq(Row)
      BY DEF TypeOK, Row
    <3> HIDE DEF Row
    <3> QED
      BY <3>1
  <2>3. ASSUME NEW i \in DOMAIN rows
        PROVE  /\ rows[i].start <= now + 1 /\ rows[i].map # NoMap
               /\ rows[i].map # NoMap =>
                    /\ rows[i].start <= rows[i].map.stamp /\ rows[i].map.stamp <= now + 1
                    /\ \A j \in DOMAIN rows : i < j => rows[i].map.stamp < rows[j].start
    <3>1. rows[i].start \in Nat /\ rows[i].map.stamp \in Nat
      BY <2>2 DEF Row, Stamped, NoMap
    <3> QED
      BY <1>1, <3>1 DEF Measured
  <2> QED
    BY <1>1, <2>1, <2>3 DEF Measured
<1>6. InOrder => InOrder'
  BY <1>1, <1>3 DEF InOrder
<1> QED
  BY <1>4, <1>5, <1>6

LEMMA MenusStep ==
  ASSUME MenusInv, [Next]_vars
  PROVE  MenusInv' /\ (Prompt /\ InOrder /\ OwnMap => InOrder' /\ OwnMap')
<1>1. CASE UNCHANGED vars
  BY <1>1 DEF vars, fixture, MenusInv, TypeOK, Counted, Measured, InOrder, OwnMap, This
<1> QED
  BY <1>1, MapWindowKeeps, HandleInputKeeps, StampKeeps, RequestKeeps, StopKeeps,
     SkipEarlierKeeps, TakeMapKeeps, CloseKeeps DEF Next, RunnerStep

LEMMA MenusInvariant == Spec => []MenusInv
<1>1. Init => MenusInv
  BY MenusInitial DEF PromptInv
<1> QED
  BY <1>1, MenusStep, PTL DEF Spec

(* The variables keep their types; the series never has an opening more    *)
(* than it was asked for.                                                  *)
THEOREM MenusTyped == Spec => []TypeOK
<1>1. MenusInv => TypeOK
  BY DEF MenusInv
<1> QED
  BY <1>1, MenusInvariant, PTL

(* Every map is put down to the request that caused it, provided that the  *)
(* windows of one request are mapped and stamped before the next: for any  *)
(* number of openings and of windows, and however late Lightroom is.       *)
THEOREM MapsOwned ==
  ASSUME Prompt
  PROVE  Spec => []OwnMap
<1>1. PromptInv /\ [Next]_vars => PromptInv'
  BY MenusStep DEF PromptInv
<1>2. PromptInv => OwnMap
  BY DEF PromptInv
<1> QED
  BY <1>1, <1>2, MenusInitial, PTL DEF Spec

(* A complete result passes the check of menu-cpu-profile, and no sample   *)
(* is in two of its intervals: this needs no promptness of the observer.   *)
THEOREM CompleteProfiled == Spec => []CompleteProfiles
<1>1. MenusInv => CompleteProfiles
  <2> SUFFICES ASSUME MenusInv, pc = "complete"
               PROVE  /\ Len(rows) = Openings /\ \A i \in DOMAIN rows : rows[i].map # NoMap
                      /\ Orderly(Intervals)
                      /\ \A time \in 0..now : \A i, j \in Holding(Intervals, time) : i = j
    BY DEF CompleteProfiles
  <2> DEFINE start(i) == rows[i].start
             stamp(i) == rows[i].map.stamp
  <2>1. /\ rows \in Seq(Row) /\ DOMAIN rows = 1..Len(rows) /\ Len(rows) = Openings /\ Openings >= 1
        /\ Openings \in Nat
    BY MenuAssumption, ThisTyped DEF MenusInv, Counted
  <2>2. ASSUME NEW i \in DOMAIN rows
        PROVE  /\ start(i) \in Nat /\ stamp(i) \in Nat /\ rows[i].map # NoMap
               /\ start(i) <= stamp(i)
               /\ \A j \in DOMAIN rows : i < j => stamp(i) < start(j)
    <3>1. rows[i] \in Row
      <4> HIDE DEF Row
      <4> QED
        BY <2>1
    <3>2. rows[i].map # NoMap
      BY DEF MenusInv, Measured
    <3> QED
      BY <3>1, <3>2 DEF MenusInv, Measured, Row, Stamped, NoMap
  <2>3. /\ DOMAIN Intervals = DOMAIN rows
        /\ \A i \in DOMAIN rows : Intervals[i][1] = start(i) /\ Intervals[i][2] = stamp(i)
    BY DEF Intervals
  <2> HIDE DEF start, stamp
  <2>4. Orderly(Intervals)
    <3>1. Intervals # <<>>
      BY <2>1, <2>3
    <3>2. \A i \in DOMAIN Intervals : Intervals[i][1] <= Intervals[i][2]
      BY <2>2, <2>3
    <3>3. ASSUME NEW i \in DOMAIN Intervals, i > 1
          PROVE  Intervals[i - 1][2] <= Intervals[i][1]
      <4>1. i - 1 \in DOMAIN rows /\ i \in DOMAIN rows /\ i - 1 < i
        BY <2>1, <2>3, <3>3
      <4>2. stamp(i - 1) < start(i) /\ stamp(i - 1) \in Nat /\ start(i) \in Nat
        BY <2>2, <4>1
      <4> QED
        BY <2>3, <4>1, <4>2
    <3> QED
      BY <3>1, <3>2, <3>3 DEF Orderly
  <2>5. ASSUME NEW time \in 0..now, NEW i \in Holding(Intervals, time),
               NEW j \in Holding(Intervals, time)
        PROVE  i = j
    <3>1. /\ i \in DOMAIN rows /\ start(i) <= time /\ time <= stamp(i)
          /\ j \in DOMAIN rows /\ start(j) <= time /\ time <= stamp(j)
      BY <2>3 DEF Holding
    <3>2. i \in Nat /\ j \in Nat /\ time \in Nat
      BY <2>1, <3>1 DEF MenusInv, TypeOK
    <3>3. ~(i < j) /\ ~(j < i)
      BY <2>2, <3>1, <3>2
    <3> QED
      BY <3>2, <3>3
  <2> QED
    BY <2>1, <2>2, <2>4, <2>5
<1> QED
  BY <1>1, MenusInvariant, PTL
=============================================================================
