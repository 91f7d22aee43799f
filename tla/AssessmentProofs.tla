-------------------------- MODULE AssessmentProofs --------------------------
(***************************************************************************)
(* Proofs about Assessment, Calibration and Narration for any events,      *)
(* windows, limits and thresholds, any answers and failures of a model,    *)
(* any reviews and any number of attempts.                                 *)
(***************************************************************************)
EXTENDS Narration, FiniteSetTheorems, SequenceTheorems, WellFoundedInduction, TLAPS

-----------------------------------------------------------------------------
(* Where a score is from.                                                  *)

\* What a result says of its source is true of the candidate c.
Sourced(r, said, c) ==
    /\ r.source = "llm" => r.score = Clamp(said.score)
    /\ r.source = "local" => /\ r.score = LocalScore(c)
                             /\ use = "evaluation" => engine = "local"

\* While a model is asked the local result stands by; what is decided is sourced.
SourceInv ==
    /\ use \in {"pipeline", "evaluation"} /\ engine \in Engines
    /\ phase = "asked" => fallback = LocalResult(Candidate) /\ engine = "llm"
    /\ phase = "decided" => Sourced(result, answer, Candidate)
    /\ items \in Seq(ToSet(items)) /\ notices \in Seq(ToSet(notices))
    /\ \A n \in DOMAIN items :
          Sourced(items[n].result, items[n].answer, items[n].candidate)
    /\ use = "pipeline" =>
          /\ Len(notices) = Len(items)
          /\ \A n \in DOMAIN items : notices[n].source = items[n].result.source

\* An element that is appended comes last, and the others stay.
LEMMA AppendKeeps ==
  ASSUME NEW s, s \in Seq(ToSet(s)), NEW x
  PROVE  /\ Append(s, x) \in Seq(ToSet(Append(s, x)))
         /\ Len(s) \in Nat /\ Len(Append(s, x)) = Len(s) + 1
         /\ DOMAIN s = 1 .. Len(s) /\ DOMAIN Append(s, x) = 1 .. Len(s) + 1
         /\ \A n \in DOMAIN s : Append(s, x)[n] = s[n]
         /\ Append(s, x)[Len(s) + 1] = x
         /\ ToSet(Append(s, x)) = ToSet(s) \cup {x}
<1>. DEFINE S == ToSet(s) \cup {x}
<1>1. s \in Seq(S) /\ x \in S
  BY SeqMonotonic
<1>. HIDE DEF S
<1>2. /\ Append(s, x) \in Seq(S) /\ Len(s) \in Nat
      /\ Len(Append(s, x)) = Len(s) + 1
      /\ \A n \in 1 .. Len(s) : Append(s, x)[n] = s[n]
      /\ Append(s, x)[Len(s) + 1] = x
  BY <1>1, AppendProperties, LenProperties
<1>3. DOMAIN s = 1 .. Len(s) /\ DOMAIN Append(s, x) = 1 .. Len(s) + 1
  BY <1>1, <1>2, LenProperties
<1>4. \A n \in DOMAIN Append(s, x) : Append(s, x)[n] \in ToSet(Append(s, x))
  BY DEF ToSet
<1>5. Append(s, x) \in Seq(ToSet(Append(s, x)))
  <2>1. PICK t \in Seq(S) : t = Append(s, x)
    BY <1>2
  <2>2. t \in [1 .. Len(t) -> S] /\ Len(t) \in Nat
    BY LenProperties
  <2>3. t \in [1 .. Len(t) -> ToSet(t)]
    BY <2>2 DEF ToSet
  <2>4. t \in Seq(ToSet(t))
    BY <2>2, <2>3, SeqDef
  <2>5. QED
    BY <2>1, <2>4
<1>6. ToSet(Append(s, x)) = ToSet(s) \cup {x}
  BY <1>2, <1>3 DEF ToSet
<1>7. QED
  BY <1>2, <1>3, <1>5, <1>6

LEMMA SourceKept ==
  ASSUME UNCHANGED run, NEW r, NEW said, NEW c, Sourced(r, said, c)
  PROVE  Sourced(r, said, c)'
BY DEF run, Sourced, LocalScore, EnrichmentsOf, IndicatorsOf, IntelOf, Alone

LEMMA LocalResultKept ==
  ASSUME UNCHANGED run, NEW c
  PROVE  LocalResult(c)' = LocalResult(c)
BY DEF run, LocalResult, LocalScore, EnrichmentsOf, IndicatorsOf, IntelOf, Alone

\* What has been decided stays sourced while a run goes on.
LEMMA DecidedKept ==
  ASSUME SourceInv, UNCHANGED <<run, items, notices>>
  PROVE  /\ use' \in {"pipeline", "evaluation"} /\ engine' \in Engines
         /\ items' \in Seq(ToSet(items')) /\ notices' \in Seq(ToSet(notices'))
         /\ \A n \in DOMAIN items' :
               Sourced(items[n].result, items[n].answer, items[n].candidate)'
         /\ use' = "pipeline" =>
               /\ Len(notices') = Len(items')
               /\ \A n \in DOMAIN items' : notices'[n].source = items'[n].result.source
<1>1. ASSUME NEW n \in DOMAIN items
      PROVE  Sourced(items[n].result, items[n].answer, items[n].candidate)'
  <2>1. PICK r, said, c : r = items[n].result /\ said = items[n].answer
                          /\ c = items[n].candidate
    OBVIOUS
  <2>2. Sourced(r, said, c)
    BY <2>1 DEF SourceInv
  <2>3. Sourced(r, said, c)'
    BY <2>2, SourceKept
  <2>4. QED
    BY <2>1, <2>3 DEF Sourced
<1>2. QED
  BY <1>1 DEF SourceInv, run

LEMMA SourceInitial ==
  ASSUME NarrationInit PROVE SourceInv
<1>1. <<>> \in Seq(ToSet(<<>>)) /\ DOMAIN <<>> = {}
  BY EmptySeq
<1>2. QED
  BY <1>1 DEF NarrationInit, CalibrationInit, Init, SourceInv

\* The steps that decide nothing: nobody is asked after them, or nothing changes.
LEMMA SourceUndecided ==
  ASSUME SourceInv, UNCHANGED <<run, items, notices>>,
         \/ phase' \notin {"asked", "decided"}
         \/ UNCHANGED <<phase, candidates, current, fallback, result, answer>>
  PROVE  SourceInv'
<1>1. ASSUME UNCHANGED <<phase, candidates, current, fallback, result, answer>>
      PROVE  /\ phase' = "asked" => fallback' = LocalResult(Candidate)' /\ engine' = "llm"
             /\ phase' = "decided" => Sourced(result, answer, Candidate)'
  <2>1. PICK c : c = Candidate /\ c = Candidate'
    BY <1>1 DEF Candidate
  <2>2. LocalResult(c)' = LocalResult(c)
    BY LocalResultKept
  <2>3. phase = "asked" => fallback' = LocalResult(Candidate)' /\ engine' = "llm"
    BY <1>1, <2>1, <2>2 DEF SourceInv, run
  <2>4. PICK r, said : r = result /\ said = answer
    OBVIOUS
  <2>5. phase = "decided" => Sourced(r, said, c)'
    BY <2>1, <2>4, SourceKept DEF SourceInv
  <2>6. phase = "decided" => Sourced(result, answer, Candidate)'
    BY <1>1, <2>1, <2>4, <2>5 DEF Sourced
  <2>7. QED
    BY <1>1, <2>3, <2>6
<1>2. /\ phase' = "asked" => fallback' = LocalResult(Candidate)' /\ engine' = "llm"
      /\ phase' = "decided" => Sourced(result, answer, Candidate)'
  BY <1>1
<1>3. QED
  BY <1>2, DecidedKept DEF SourceInv

LEMMA SourceStartTriage ==
  ASSUME SourceInv, StartTriage PROVE SourceInv'
<1>1. UNCHANGED <<run, items, notices>> /\ Candidate' = Candidate
  BY DEF StartTriage, outcome, Candidate
<1>2. CASE phase' = "failed"
  BY <1>1, <1>2, SourceUndecided
<1>3. CASE phase' # "failed"
  <2>1. PICK c : c = Candidate /\ c = Candidate'
    BY <1>1
  <2>2. LocalResult(c)' = LocalResult(c)
    BY <1>1, LocalResultKept
  <2>3. fallback' = LocalResult(c)'
    BY <1>3, <2>1, <2>2 DEF StartTriage
  <2>4. engine' = engine /\ engine \in {"local", "llm"}
    BY <1>1 DEF run, SourceInv, Engines
  <2>5. phase' = "asked" => fallback' = LocalResult(Candidate)' /\ engine' = "llm"
    BY <1>3, <2>1, <2>3, <2>4 DEF StartTriage
  <2>6. ASSUME phase' = "decided"
        PROVE  Sourced(result, answer, Candidate)'
    <3>1. result' = LocalResult(c)' /\ engine' = "local"
      BY <1>3, <2>1, <2>2, <2>4, <2>6 DEF StartTriage
    <3>2. result'.source = "local" /\ result'.score = LocalScore(c)'
      BY <3>1 DEF LocalResult
    <3>3. QED
      BY <2>1, <3>1, <3>2 DEF Sourced
  <2>7. QED
    BY <1>1, <2>5, <2>6, DecidedKept DEF SourceInv
<1>4. QED
  BY <1>2, <1>3

LEMMA SourceFallback ==
  ASSUME SourceInv, phase = "asked", FallbackOrRaise PROVE SourceInv'
<1>1. UNCHANGED <<run, items, notices>> /\ Candidate' = Candidate
  BY DEF FallbackOrRaise, outcome, Candidate
<1>2. CASE phase' = "failed"
  BY <1>1, <1>2, SourceUndecided
<1>3. CASE phase' # "failed"
  <2>1. PICK c : c = Candidate /\ c = Candidate'
    BY <1>1
  <2>2. LocalResult(c)' = LocalResult(c)
    BY <1>1, LocalResultKept
  <2>3. phase' = "decided" /\ result' = LocalResult(c)' /\ use' = "pipeline"
    BY <1>1, <1>3, <2>1, <2>2 DEF FallbackOrRaise, AllowsFallback, SourceInv, run
  <2>4. result'.source = "local" /\ result'.score = LocalScore(c)'
    BY <2>3 DEF LocalResult
  <2>5. Sourced(result, answer, Candidate)'
    BY <2>1, <2>3, <2>4 DEF Sourced
  <2>6. QED
    BY <1>1, <2>3, <2>5, DecidedKept DEF SourceInv
<1>4. QED
  BY <1>2, <1>3

LEMMA SourceAnswerUsable ==
  ASSUME SourceInv, NEW a, AnswerUsable(a) PROVE SourceInv'
<1>1. UNCHANGED <<run, items, notices>>
  BY DEF AnswerUsable, outcome
<1>2. phase' = "decided" /\ result'.source = "llm" /\ result'.score = Clamp(a.score)
      /\ answer' = a
  BY DEF AnswerUsable, ResultOf, ParseScore
<1>3. Sourced(result, answer, Candidate)'
  BY <1>2 DEF Sourced
<1>4. QED
  BY <1>1, <1>2, <1>3, DecidedKept DEF SourceInv

LEMMA SourceDecide ==
  ASSUME SourceInv, Decide PROVE SourceInv'
<1>1. UNCHANGED run /\ phase' \in {"finish", "triage"}
      /\ use' = use /\ use \in {"pipeline", "evaluation"} /\ engine' \in Engines
  BY DEF Decide, NextCandidate, run, SourceInv
<1>2. PICK x : /\ items' = Append(items, x) /\ x.candidate = Candidate
               /\ x.result = result /\ x.answer = answer
  BY DEF Decide
<1>3. PICK k : /\ notices' = IF use = "pipeline" THEN Append(notices, k) ELSE notices
               /\ k.source = result.source
  BY DEF Decide, NoticeOf
<1>4. /\ items \in Seq(ToSet(items)) /\ notices \in Seq(ToSet(notices))
  BY DEF SourceInv
<1>5. /\ Append(items, x) \in Seq(ToSet(Append(items, x)))
      /\ Len(items) \in Nat /\ Len(Append(items, x)) = Len(items) + 1
      /\ DOMAIN items = 1 .. Len(items) /\ DOMAIN Append(items, x) = 1 .. Len(items) + 1
      /\ \A n \in DOMAIN items : Append(items, x)[n] = items[n]
      /\ Append(items, x)[Len(items) + 1] = x
  BY <1>4, AppendKeeps
<1>6. /\ Append(notices, k) \in Seq(ToSet(Append(notices, k)))
      /\ Len(notices) \in Nat /\ Len(Append(notices, k)) = Len(notices) + 1
      /\ DOMAIN notices = 1 .. Len(notices)
      /\ \A n \in DOMAIN notices : Append(notices, k)[n] = notices[n]
      /\ Append(notices, k)[Len(notices) + 1] = k
  BY <1>4, AppendKeeps
<1>7. ASSUME NEW n \in DOMAIN items'
      PROVE  Sourced(items[n].result, items[n].answer, items[n].candidate)'
  <2>1. PICK r, said, c : r = items'[n].result /\ said = items'[n].answer
                          /\ c = items'[n].candidate
    OBVIOUS
  <2>2. n \in DOMAIN items \/ n = Len(items) + 1
    BY <1>2, <1>5
  <2>3. Sourced(r, said, c)
    <3>1. CASE n \in DOMAIN items
      BY <1>2, <1>5, <2>1, <3>1 DEF SourceInv
    <3>2. CASE n = Len(items) + 1
      BY <1>2, <1>5, <2>1, <3>2 DEF SourceInv, Decide
    <3>3. QED
      BY <2>2, <3>1, <3>2
  <2>4. Sourced(r, said, c)'
    BY <1>1, <2>3, SourceKept
  <2>5. QED
    BY <2>1, <2>4 DEF Sourced
<1>8. ASSUME use = "pipeline"
      PROVE  /\ Len(notices') = Len(items')
             /\ \A n \in DOMAIN items' : notices'[n].source = items'[n].result.source
  <2>1. notices' = Append(notices, k) /\ Len(notices) = Len(items)
        /\ \A n \in DOMAIN items : notices[n].source = items[n].result.source
    BY <1>3, <1>8 DEF SourceInv
  <2>2. ASSUME NEW n \in DOMAIN items'
        PROVE  notices'[n].source = items'[n].result.source
    <3>1. CASE n \in DOMAIN items
      BY <1>2, <1>5, <1>6, <2>1, <3>1
    <3>2. CASE n = Len(items) + 1
      BY <1>2, <1>3, <1>5, <1>6, <2>1, <3>2
    <3>3. QED
      BY <1>2, <1>5, <3>1, <3>2
  <2>3. QED
    BY <1>2, <1>5, <1>6, <2>1, <2>2
<1>9. items' \in Seq(ToSet(items')) /\ notices' \in Seq(ToSet(notices'))
  BY <1>2, <1>3, <1>4, <1>5, <1>6
<1>10. QED
  BY <1>1, <1>7, <1>8, <1>9 DEF SourceInv

LEMMA SourceNext ==
  ASSUME SourceInv, Next PROVE SourceInv'
<1>1. ASSUME ClusterAlerts PROVE SourceInv'
  BY <1>1, SourceUndecided DEF ClusterAlerts, outcome
<1>2. ASSUME NEW e \in ModelErrors, AskAgain(e) PROVE SourceInv'
  BY <1>2, SourceUndecided DEF AskAgain, outcome
<1>3. ASSUME NEW e \in ModelErrors, ModelFails(e) PROVE SourceInv'
  BY <1>3, SourceFallback DEF ModelFails
<1>4. ASSUME CompletionEmpty PROVE SourceInv'
  BY <1>4, SourceFallback DEF CompletionEmpty
<1>5. ASSUME AnswerUnusable PROVE SourceInv'
  <2>1. CASE FallbackOrRaise
    BY <1>5, <2>1, SourceFallback DEF AnswerUnusable
  <2>2. CASE ~FallbackOrRaise
    BY <1>5, <2>2, SourceUndecided DEF AnswerUnusable, outcome
  <2>3. QED
    BY <2>1, <2>2
<1>6. ASSUME ModelBreaks PROVE SourceInv'
  BY <1>6, SourceUndecided DEF ModelBreaks, NextCandidate, outcome
<1>7. ASSUME Promote \/ Measure PROVE SourceInv'
  BY <1>7, SourceUndecided DEF Promote, Measure
<1>8. ASSUME Terminated PROVE SourceInv'
  BY <1>8, SourceUndecided DEF Terminated, vars, call, outcome
<1>9. QED
  BY <1>1, <1>2, <1>3, <1>4, <1>5, <1>6, <1>7, <1>8,
     SourceStartTriage, SourceAnswerUsable, SourceDecide DEF Next

LEMMA SourceStep ==
  ASSUME SourceInv, [NarrationNext]_everything PROVE SourceInv'
<1>1. ASSUME UNCHANGED allVars PROVE SourceInv'
  BY <1>1, SourceUndecided DEF allVars, vars, call, outcome
<1>2. ASSUME CalibrationNext PROVE SourceInv'
  <2>1. ASSUME NEW item, NEW v, NEW s, Record(item, v, s) PROVE SourceInv'
    BY <2>1, SourceUndecided DEF Record, vars, call, outcome
  <2>2. ASSUME NEW item, PromoteReview(item) PROVE SourceInv'
    <3>1. /\ use' = "evaluation" /\ engine' \in Engines /\ phase' = "start"
          /\ items' = <<>> /\ notices' = <<>>
      BY <2>2 DEF PromoteReview
    <3>2. <<>> \in Seq(ToSet(<<>>)) /\ DOMAIN <<>> = {}
      BY EmptySeq
    <3>3. QED
      BY <3>1, <3>2 DEF SourceInv
  <2>3. QED
    BY <1>2, <2>1, <2>2, SourceNext DEF CalibrationNext
<1>3. ASSUME NEW w, NEW i, NEW asks, Begin(w, i, asks) PROVE UNCHANGED allVars
  BY <1>3 DEF Begin
<1>4. ASSUME Writing PROVE UNCHANGED allVars
  BY <1>4 DEF Writing, RequestAgain, RequestFails, NoContent, WritingBreaks,
     DraftUsable, DraftUnusable, AnswerText, Conclude
<1>5. ASSUME Delivery PROVE UNCHANGED allVars
  BY <1>5 DEF Delivery, PrintAnswer, WriteReportFile, PushIncident, PushUnconfigured,
     EmailReport, Tell
<1>6. QED
  BY <1>1, <1>2, <1>3, <1>4, <1>5 DEF NarrationNext, Generate, Question, everything

\* A result names where its score is from: a model's score is the one it gave, a
\* local one the one there would have been without a model, an evaluation of a
\* model has no local score, and what is notified names the same source.
THEOREM SourcesAreTrue == NarrationSpec => []SourceTrue
<1>1. SourceInv => SourceTrue
  BY DEF SourceInv, SourceTrue, Sourced
<1>2. QED
  BY <1>1, SourceInitial, SourceStep, PTL DEF NarrationSpec

-----------------------------------------------------------------------------
(* Who wrote.                                                              *)

\* A narrative is a model's in every section or in none, and nobody is told of
\* it before it has been written.
AuthorInv ==
    /\ desk = [writing |-> desk.writing, incident |-> desk.incident, at |-> desk.at]
    /\ narrative.drafted \in {{}, NarrativeSections}
    /\ narrative.drafted = {} => narrative.model = NoText
    /\ desk.at \in {"idle", "asked", "written"} => told = {}
    /\ AuthorTrue

LEMMA AuthorInitial ==
  ASSUME NarrationInit PROVE AuthorInv
BY DEF NarrationInit, AuthorInv, AuthorTrue, Templated

\* Whatever is written, in all sections or in none, is written before it is told.
LEMMA AuthorConclude ==
  ASSUME AuthorInv, Asking, NEW written, Conclude(written),
         written.drafted \in {{}, NarrativeSections},
         written.drafted = {} => written.model = NoText
  PROVE  AuthorInv'
<1>1. told' = {} /\ narrative' = written
  BY DEF AuthorInv, Asking, Conclude
<1>2. PICK w, i : desk = [writing |-> w, incident |-> i, at |-> "asked"]
  BY DEF AuthorInv, Asking
<1>3. desk' = [writing |-> w, incident |-> i, at |-> "written"]
  BY <1>2 DEF Conclude
<1>4. QED
  BY <1>1, <1>3 DEF AuthorInv, AuthorTrue

LEMMA AuthorTell ==
  ASSUME AuthorInv, NEW statements, NEW at,
         statements \subseteq {InBody, InSummary("console"), InSummary("email")},
         at \in {"done", "filed", "pushed", "stopped"}, Tell(statements, at)
  PROVE  AuthorInv'
<1>1. told' = told \cup statements /\ UNCHANGED narrative
  BY DEF Tell
<1>2. PICK w, i, was : desk = [writing |-> w, incident |-> i, at |-> was]
  BY DEF AuthorInv
<1>3. desk' = [writing |-> w, incident |-> i, at |-> at]
  BY <1>2 DEF Tell
<1>4. NarrativeSections # {}
  BY DEF NarrativeSections
<1>5. ASSUME NEW s \in statements
      PROVE  /\ s.model => /\ narrative.drafted = NarrativeSections
                           /\ s.name = narrative.model
             /\ ~s.model => \/ narrative.drafted = {}
                            \/ narrative.model = NoText /\ s.at # "body"
  <2>1. CASE s = InBody
    BY <1>4, <2>1 DEF AuthorInv, InBody
  <2>2. ASSUME NEW place \in {"console", "email"}, s = InSummary(place)
        PROVE  /\ s.model => /\ narrative.drafted = NarrativeSections
                             /\ s.name = narrative.model
               /\ ~s.model => \/ narrative.drafted = {}
                              \/ narrative.model = NoText /\ s.at # "body"
    BY <1>4, <2>2 DEF AuthorInv, InSummary, GeneratedByModel
  <2>3. QED
    BY <2>1, <2>2
<1>6. AuthorTrue'
  BY <1>1, <1>5 DEF AuthorInv, AuthorTrue
<1>7. QED
  BY <1>1, <1>3, <1>6 DEF AuthorInv

LEMMA AuthorStep ==
  ASSUME AuthorInv, [NarrationNext]_everything PROVE AuthorInv'
<1>1. ASSUME UNCHANGED <<desk, narrative, told>> PROVE AuthorInv'
  BY <1>1 DEF AuthorInv, AuthorTrue
<1>2. ASSUME NEW w, NEW i, NEW asks, Begin(w, i, asks) PROVE AuthorInv'
  <2>1. /\ told' = {} /\ narrative' = Templated
        /\ desk' = [writing |-> w, incident |-> i,
                    at |-> IF asks THEN "asked" ELSE "written"]
    BY <1>2 DEF Begin, AuthorInv
  <2>2. QED
    BY <2>1 DEF AuthorInv, AuthorTrue, Templated
<1>3. ASSUME Writing PROVE AuthorInv'
  <2>1. ASSUME NEW e, RequestAgain(e) PROVE AuthorInv'
    BY <1>1, <2>1 DEF RequestAgain
  <2>2. ASSUME Asking, Conclude(WithFallbackReason) PROVE AuthorInv'
    BY <2>2, AuthorConclude DEF WithFallbackReason, Templated
  <2>3. ASSUME WritingBreaks PROVE AuthorInv'
    <3>1. PICK w, i, was : desk = [writing |-> w, incident |-> i, at |-> was]
      BY DEF AuthorInv
    <3>2. desk' = [writing |-> w, incident |-> i, at |-> "stopped"]
      BY <2>3, <3>1 DEF WritingBreaks
    <3>3. QED
      BY <2>3, <3>2 DEF WritingBreaks, AuthorInv, AuthorTrue
  <2>4. ASSUME NEW sections, NEW name, DraftUsable(sections, name) PROVE AuthorInv'
    <3>1. PICK d : /\ d = [DraftedBy(name) EXCEPT !.drafted = sections]
                   /\ Asking /\ Conclude(d) /\ sections = NarrativeSections
      BY <2>4 DEF DraftUsable, Usable
    <3>2. d.drafted = NarrativeSections /\ NarrativeSections # {}
      BY <3>1 DEF DraftedBy, Templated, NarrativeSections
    <3>3. QED
      BY <3>1, <3>2, AuthorConclude
  <2>5. ASSUME NEW sections, DraftUnusable(sections) PROVE AuthorInv'
    BY <1>1, <2>2, <2>5 DEF DraftUnusable
  <2>6. ASSUME NEW hasText, NEW name, AnswerText(hasText, name) PROVE AuthorInv'
    <3>1. PICK d : d = DraftedBy(AnswerModel(name)) /\ d.drafted = NarrativeSections
      <4>1. DraftedBy(AnswerModel(name)).drafted = NarrativeSections
        BY DEF DraftedBy
      <4>2. QED
        BY <4>1
    <3>2. NarrativeSections # {}
      BY DEF NarrativeSections
    <3>3. ASSUME Asking, Conclude(d) PROVE AuthorInv'
      BY <3>1, <3>2, <3>3, AuthorConclude
    <3>4. QED
      BY <2>2, <2>6, <3>1, <3>3 DEF AnswerText
  <2>7. QED
    BY <1>3, <2>1, <2>2, <2>3, <2>4, <2>5, <2>6 DEF Writing, RequestFails, NoContent
<1>4. ASSUME Delivery PROVE AuthorInv'
  BY <1>4, AuthorTell DEF Delivery, PrintAnswer, WriteReportFile, PushIncident,
     PushUnconfigured, EmailReport
<1>5. QED
  BY <1>1, <1>2, <1>3, <1>4 DEF NarrationNext, Generate, Question, everything, narration

\* Whoever is told who wrote a report or an answer is told the truth: what is
\* called a model's is that model's in every section, and what is called
\* templated has no word of a model, however often it was asked and failed, but
\* for the summaries of a draft whose model gave no name (report.py:898).
THEOREM AuthorsAreTrue == NarrationSpec => []AuthorTrue
<1>1. AuthorInv => AuthorTrue
  BY DEF AuthorInv
<1>2. QED
  BY <1>1, AuthorInitial, AuthorStep, PTL DEF NarrationSpec

-----------------------------------------------------------------------------
(* Sorting.                                                                *)

\* A nonempty set of natural numbers has a least one.
LEMMA LeastExists ==
  ASSUME NEW S, S \subseteq Nat, S # {}
  PROVE  \E n \in S : \A m \in S : n <= m
<1>1. PICK n \in S : \A m \in S : <<m, n>> \notin OpToRel(<, Nat)
  BY NatLessThanWellFounded, WFMin
<1>2. \A m \in S : ~(m < n)
  BY <1>1 DEF OpToRel
<1>3. QED
  BY <1>2

\* Keys of one length are ordered totally.
LEMMA LexicographicOrders ==
  ASSUME NEW k \in Nat, NEW x \in [1 .. k -> Int], NEW y \in [1 .. k -> Int],
         NEW z \in [1 .. k -> Int]
  PROVE  /\ ~Lexicographic(x, x)
         /\ ~(Lexicographic(x, y) /\ Lexicographic(y, x))
         /\ Lexicographic(x, y) /\ Lexicographic(y, z) => Lexicographic(x, z)
         /\ Lexicographic(x, y) \/ Lexicographic(y, x) \/ x = y
<1>1. ~Lexicographic(x, x)
  BY DEF Lexicographic
<1>2. ASSUME Lexicographic(x, y), Lexicographic(y, z) PROVE Lexicographic(x, z)
  <2>1. PICK i \in 1 .. k : x[i] < y[i] /\ \A m \in 1 .. i - 1 : x[m] = y[m]
    BY <1>2 DEF Lexicographic
  <2>2. PICK j \in 1 .. k : y[j] < z[j] /\ \A m \in 1 .. j - 1 : y[m] = z[m]
    BY <1>2 DEF Lexicographic
  <2>3. CASE i <= j
    <3>1. x[i] < z[i]
      BY <2>1, <2>2, <2>3
    <3>2. \A m \in 1 .. i - 1 : x[m] = z[m]
      BY <2>1, <2>2, <2>3
    <3>3. QED
      BY <3>1, <3>2 DEF Lexicographic
  <2>4. CASE j < i
    <3>1. x[j] < z[j]
      BY <2>1, <2>2, <2>4
    <3>2. \A m \in 1 .. j - 1 : x[m] = z[m]
      BY <2>1, <2>2, <2>4
    <3>3. QED
      BY <3>1, <3>2 DEF Lexicographic
  <2>5. QED
    BY <2>3, <2>4
<1>3. ~(Lexicographic(x, y) /\ Lexicographic(y, x))
  <2>1. SUFFICES ASSUME Lexicographic(x, y), Lexicographic(y, x) PROVE FALSE
    OBVIOUS
  <2>2. PICK i \in 1 .. k : x[i] < y[i] /\ \A m \in 1 .. i - 1 : x[m] = y[m]
    BY <2>1 DEF Lexicographic
  <2>3. PICK j \in 1 .. k : y[j] < x[j] /\ \A m \in 1 .. j - 1 : y[m] = x[m]
    BY <2>1 DEF Lexicographic
  <2>4. QED
    BY <2>2, <2>3
<1>4. ASSUME x # y PROVE Lexicographic(x, y) \/ Lexicographic(y, x)
  <2>. DEFINE apart == {m \in 1 .. k : x[m] # y[m]}
  <2>1. apart \subseteq Nat
    OBVIOUS
  <2>2. apart # {}
    <3>1. SUFFICES ASSUME \A m \in 1 .. k : x[m] = y[m] PROVE FALSE
      OBVIOUS
    <3>2. x = y
      BY <3>1
    <3>3. QED
      BY <1>4, <3>2
  <2>3. PICK i \in apart : \A m \in apart : i <= m
    BY <2>1, <2>2, LeastExists
  <2>4. i \in 1 .. k /\ x[i] # y[i] /\ \A m \in 1 .. i - 1 : x[m] = y[m]
    BY <2>3
  <2>5. x[i] < y[i] \/ y[i] < x[i]
    BY <2>4
  <2>6. QED
    BY <2>4, <2>5 DEF Lexicographic
<1>5. QED
  BY <1>1, <1>2, <1>3, <1>4

\* Keys of one length for each of these places.
Keyed(places, keys) ==
    \E k \in Nat : \A i \in places : keys[i] \in [1 .. k -> Int]

LEMMA PrecedesOrders ==
  ASSUME NEW places, places \subseteq Nat, NEW keys, Keyed(places, keys)
  PROVE  /\ \A i \in places : ~Precedes(keys, i, i)
         /\ \A i, j \in places : ~(Precedes(keys, i, j) /\ Precedes(keys, j, i))
         /\ \A i, j, m \in places :
               Precedes(keys, i, j) /\ Precedes(keys, j, m) => Precedes(keys, i, m)
         /\ \A i, j \in places : i # j => Precedes(keys, i, j) \/ Precedes(keys, j, i)
<1>1. PICK k \in Nat : \A i \in places : keys[i] \in [1 .. k -> Int]
  BY DEF Keyed
<1>2. ASSUME NEW i \in places, NEW j \in places, NEW m \in places
      PROVE  /\ ~Precedes(keys, i, i)
             /\ ~(Precedes(keys, i, j) /\ Precedes(keys, j, i))
             /\ Precedes(keys, i, j) /\ Precedes(keys, j, m) => Precedes(keys, i, m)
             /\ i # j => Precedes(keys, i, j) \/ Precedes(keys, j, i)
  <2>1. PICK x, y, z \in [1 .. k -> Int] : x = keys[i] /\ y = keys[j] /\ z = keys[m]
    BY <1>1
  <2>2. /\ ~Lexicographic(x, x)
        /\ ~(Lexicographic(x, y) /\ Lexicographic(y, x))
        /\ Lexicographic(x, y) /\ Lexicographic(y, z) => Lexicographic(x, z)
        /\ Lexicographic(x, y) \/ Lexicographic(y, x) \/ x = y
    BY LexicographicOrders
  <2>3. /\ ~(Lexicographic(y, z) /\ Lexicographic(z, y))
        /\ Lexicographic(y, z) \/ Lexicographic(z, y) \/ y = z
    BY LexicographicOrders
  <2>4. /\ ~(Lexicographic(x, z) /\ Lexicographic(z, x))
        /\ Lexicographic(x, z) \/ Lexicographic(z, x) \/ x = z
    BY LexicographicOrders
  <2>5. Precedes(keys, i, j) <=> Lexicographic(x, y) \/ (x = y /\ i < j)
    BY <2>1, <2>2 DEF Precedes
  <2>6. Precedes(keys, j, m) <=> Lexicographic(y, z) \/ (y = z /\ j < m)
    BY <2>1, <2>2, <2>3 DEF Precedes
  <2>7. Precedes(keys, i, m) <=> Lexicographic(x, z) \/ (x = z /\ i < m)
    BY <2>1, <2>2, <2>4 DEF Precedes
  <2>8. Precedes(keys, j, i) <=> Lexicographic(y, x) \/ (x = y /\ j < i)
    BY <2>1, <2>2 DEF Precedes
  <2>9. Precedes(keys, i, i) <=> Lexicographic(x, x) \/ i < i
    BY <2>1, <2>2 DEF Precedes
  <2>10. i \in Nat /\ j \in Nat /\ m \in Nat
    OBVIOUS
  <2>11. QED
    BY <2>2, <2>3, <2>4, <2>5, <2>6, <2>7, <2>8, <2>9, <2>10
<1>3. QED
  BY <1>2

\* Ranks number the places in their order.
LEMMA RanksNumber ==
  ASSUME NEW places, places \subseteq Nat, IsFiniteSet(places),
         NEW keys, Keyed(places, keys)
  PROVE  /\ \A i \in places : Rank(places, keys, i) \in 1 .. Cardinality(places)
         /\ \A i, j \in places : Precedes(keys, i, j) =>
               Rank(places, keys, i) < Rank(places, keys, j)
         /\ \A n \in 1 .. Cardinality(places) :
               \E i \in places : Rank(places, keys, i) = n
<1>. DEFINE below(i) == {j \in places : Precedes(keys, j, i)}
            rank == [i \in places |-> Rank(places, keys, i)]
            N == Cardinality(places)
<1>1. N \in Nat
  BY FS_CardinalityType
<1>2. ASSUME NEW i \in places
      PROVE  IsFiniteSet(below(i)) /\ Cardinality(below(i)) \in Nat
             /\ Rank(places, keys, i) = 1 + Cardinality(below(i))
  <2>1. below(i) \in SUBSET places
    OBVIOUS
  <2>2. IsFiniteSet(below(i))
    BY <2>1, FS_Subset
  <2>3. QED
    BY <2>2, FS_CardinalityType DEF Rank
<1>3. ASSUME NEW i \in places PROVE Cardinality(below(i)) < N
  <2>1. i \notin below(i)
    BY PrecedesOrders
  <2>2. below(i) \in SUBSET places /\ below(i) # places
    BY <2>1
  <2>3. QED
    BY <1>1, <1>2, <2>2, FS_Subset
<1>4. ASSUME NEW i \in places, NEW j \in places, Precedes(keys, i, j)
      PROVE  Cardinality(below(i)) < Cardinality(below(j))
  <2>1. below(i) \subseteq below(j)
    BY <1>4, PrecedesOrders
  <2>2. i \in below(j) /\ i \notin below(i)
    BY <1>4, PrecedesOrders
  <2>3. below(i) \in SUBSET below(j) /\ below(i) # below(j)
    BY <2>1, <2>2
  <2>4. QED
    BY <1>2, <2>3, FS_Subset
<1>. HIDE DEF below
<1>5. \A i \in places : Rank(places, keys, i) \in 1 .. N
  BY <1>1, <1>2, <1>3
<1>6. \A i, j \in places : Precedes(keys, i, j) =>
         Rank(places, keys, i) < Rank(places, keys, j)
  BY <1>2, <1>4
<1>7. rank \in Injection(places, 1 .. N)
  <2>1. rank \in [places -> 1 .. N] /\ \A i \in places : rank[i] = Rank(places, keys, i)
    BY <1>5
  <2>. HIDE DEF rank
  <2>2. \A i, j \in places : i # j => Precedes(keys, i, j) \/ Precedes(keys, j, i)
    BY PrecedesOrders
  <2>3. \A i, j \in places : i # j => rank[i] < rank[j] \/ rank[j] < rank[i]
    BY <1>6, <2>1, <2>2
  <2>4. \A i \in places : rank[i] \in Int
    BY <2>1
  <2>5. \A i, j \in places : rank[i] = rank[j] => i = j
    BY <2>3, <2>4
  <2>6. QED
    BY <2>1, <2>5 DEF Injection, IsInjective
<1>8. rank \in Surjection(places, 1 .. N)
  <2>1. IsFiniteSet(1 .. N) /\ Cardinality(1 .. N) = N
    BY <1>1, FS_Interval
  <2>2. QED
    BY <1>7, <2>1, FS_Injection
<1>9. \A n \in 1 .. N : \E i \in places : Rank(places, keys, i) = n
  BY <1>8 DEF Surjection
<1>10. QED
  BY <1>5, <1>6, <1>9

\* Sorting takes each place once, in the order of the keys.
Arranges(order, list, places, keys) ==
    LET N == Cardinality(places)
    IN  /\ order \in [1 .. N -> places]
        /\ \A n \in 1 .. N : /\ Sorted(list, places, keys)[n] = list[order[n]]
                             /\ Rank(places, keys, order[n]) = n
        /\ \A i \in places : \E n \in 1 .. N : order[n] = i
        /\ \A m, n \in 1 .. N : m < n => Precedes(keys, order[m], order[n])

LEMMA SortingFollows ==
  ASSUME NEW places, places \subseteq Nat, IsFiniteSet(places),
         NEW keys, Keyed(places, keys), NEW list
  PROVE  /\ Cardinality(places) \in Nat
         /\ DOMAIN Sorted(list, places, keys) = 1 .. Cardinality(places)
         /\ \E order : Arranges(order, list, places, keys)
<1>. DEFINE N == Cardinality(places)
            order == [n \in 1 .. N |-> CHOOSE i \in places : Rank(places, keys, i) = n]
<1>1. N \in Nat
  BY FS_CardinalityType
<1>2. /\ \A i \in places : Rank(places, keys, i) \in 1 .. N
      /\ \A i, j \in places : Precedes(keys, i, j) =>
            Rank(places, keys, i) < Rank(places, keys, j)
      /\ \A n \in 1 .. N : \E i \in places : Rank(places, keys, i) = n
  BY RanksNumber
<1>3. DOMAIN Sorted(list, places, keys) = 1 .. N
      /\ \A n \in 1 .. N : Sorted(list, places, keys)[n] = list[order[n]]
  BY DEF Sorted
<1>4. ASSUME NEW n \in 1 .. N
      PROVE  order[n] \in places /\ Rank(places, keys, order[n]) = n
  BY <1>2
<1>5. DOMAIN order = 1 .. N
  OBVIOUS
<1>. HIDE DEF order
<1>6. ASSUME NEW i \in places, NEW j \in places,
             Rank(places, keys, i) = Rank(places, keys, j)
      PROVE  i = j
  <2>1. i # j => Precedes(keys, i, j) \/ Precedes(keys, j, i)
    BY PrecedesOrders
  <2>2. Rank(places, keys, i) \in 1 .. N /\ Rank(places, keys, j) \in 1 .. N
    BY <1>2
  <2>3. i # j => \/ Rank(places, keys, i) < Rank(places, keys, j)
                 \/ Rank(places, keys, j) < Rank(places, keys, i)
    BY <1>2, <2>1
  <2>4. QED
    BY <1>6, <2>2, <2>3
<1>7. \A i \in places : \E n \in 1 .. N : order[n] = i
  BY <1>2, <1>4, <1>6
<1>8. ASSUME NEW m \in 1 .. N, NEW n \in 1 .. N, m < n
      PROVE  Precedes(keys, order[m], order[n])
  <2>1. /\ order[m] \in places /\ Rank(places, keys, order[m]) = m
        /\ order[n] \in places /\ Rank(places, keys, order[n]) = n
    BY <1>4
  <2>2. order[m] # order[n]
    BY <1>8, <2>1
  <2>3. Precedes(keys, order[m], order[n]) \/ Precedes(keys, order[n], order[m])
    BY <2>1, <2>2, PrecedesOrders
  <2>4. ~(n < m)
    BY <1>8
  <2>5. QED
    BY <1>2, <2>1, <2>3, <2>4
<1>9. order \in [1 .. N -> places]
  <2>1. order = [n \in 1 .. N |-> order[n]]
    BY DEF order
  <2>2. QED
    BY <1>4, <2>1
<1>10. Arranges(order, list, places, keys)
  BY <1>3, <1>4, <1>7, <1>8, <1>9 DEF Arranges
<1>11. QED
  BY <1>1, <1>3, <1>10

\* What sorting needs of an alert, and of a list of them.
Timed(a) ==
    /\ a.time \in Int /\ a.time >= NoNumber
    /\ a.id[1] \in Int /\ a.id[2] \in Int /\ a.id[3] \in Int
Alerted(s) == s \in Seq(ToSet(s)) /\ \A i \in DOMAIN s : Timed(s[i])
InOrder(s) ==
    \A m, n \in DOMAIN s : m < n => ~Lexicographic(SortKey(s[n]), SortKey(s[m]))

LEMMA KeyType ==
  ASSUME NEW a, Timed(a) PROVE SortKey(a) \in [1 .. 4 -> Int]
BY DEF Timed, SortKey

LEMMA IsList ==
  ASSUME NEW s, s \in Seq(ToSet(s))
  PROVE  Len(s) \in Nat /\ DOMAIN s = 1 .. Len(s) /\ \A i \in DOMAIN s : s[i] \in ToSet(s)
BY LenProperties DEF ToSet

LEMMA ListOf ==
  ASSUME NEW s, NEW n \in Nat, s = [i \in 1 .. n |-> s[i]]
  PROVE  s \in Seq(ToSet(s)) /\ Len(s) = n
<1>1. \A i \in 1 .. n : s[i] \in ToSet(s)
  BY DEF ToSet
<1>2. s \in [1 .. n -> ToSet(s)]
  BY <1>1
<1>3. s \in Seq(ToSet(s))
  BY <1>2, SeqDef
<1>4. QED
  BY <1>2, <1>3, LenProperties

LEMMA SortingAlerts ==
  ASSUME NEW s, Alerted(s)
  PROVE  /\ Alerted(SortedAlerts(s)) /\ InOrder(SortedAlerts(s))
         /\ Len(SortedAlerts(s)) = Len(s) /\ ToSet(SortedAlerts(s)) = ToSet(s)
         /\ IsInjective(s) => IsInjective(SortedAlerts(s))
         /\ InOrder(s) => SortedAlerts(s) = s
<1>. DEFINE t == SortedAlerts(s)
            N == Len(s)
            keys == [i \in DOMAIN s |-> SortKey(s[i])]
<1>1. N \in Nat /\ DOMAIN s = 1 .. N /\ \A i \in 1 .. N : s[i] \in ToSet(s)
  BY IsList DEF Alerted
<1>2. 1 .. N \subseteq Nat /\ IsFiniteSet(1 .. N) /\ Cardinality(1 .. N) = N
  <2>. HIDE DEF N
  <2>1. IsFiniteSet(1 .. N) /\ Cardinality(1 .. N) = IF 1 > N THEN 0 ELSE N - 1 + 1
    BY <1>1, FS_Interval
  <2>2. QED
    BY <1>1, <2>1
<1>3. \A i \in 1 .. N : keys[i] = SortKey(s[i]) /\ keys[i] \in [1 .. 4 -> Int]
  BY <1>1, KeyType DEF Alerted
<1>4. Keyed(1 .. N, keys)
  BY <1>3 DEF Keyed
<1>5. t = Sorted(s, 1 .. N, keys)
  BY <1>1 DEF SortedAlerts
<1>. HIDE DEF keys
<1>6. DOMAIN t = 1 .. N
  BY <1>2, <1>4, <1>5, SortingFollows
<1>7. PICK order \in [1 .. N -> 1 .. N] :
        /\ \A n \in 1 .. N : t[n] = s[order[n]] /\ Rank(1 .. N, keys, order[n]) = n
        /\ \A i \in 1 .. N : \E n \in 1 .. N : order[n] = i
        /\ \A m, n \in 1 .. N : m < n => Precedes(keys, order[m], order[n])
  <2>1. \E f : Arranges(f, s, 1 .. N, keys)
    BY <1>2, <1>4, SortingFollows
  <2>2. QED
    BY <1>2, <1>5, <2>1 DEF Arranges
<1>8. t = [n \in 1 .. N |-> t[n]]
  BY <1>5, <1>2 DEF Sorted
<1>. HIDE DEF t, N
<1>9. t \in Seq(ToSet(t)) /\ Len(t) = N
  BY <1>1, <1>8, ListOf
<1>10. \A n \in 1 .. N : order[n] \in 1 .. N
  BY <1>7
<1>11. Alerted(t)
  BY <1>1, <1>6, <1>7, <1>9, <1>10 DEF Alerted
<1>12. ToSet(t) = ToSet(s)
  <2>1. \A n \in 1 .. N : t[n] \in ToSet(s)
    BY <1>1, <1>7, <1>10
  <2>2. \A i \in 1 .. N : s[i] \in ToSet(t)
    BY <1>6, <1>7 DEF ToSet
  <2>3. QED
    BY <1>1, <1>6, <2>1, <2>2 DEF ToSet
<1>13. ASSUME NEW m \in 1 .. N, NEW n \in 1 .. N, m < n
       PROVE  ~Lexicographic(SortKey(t[n]), SortKey(t[m]))
  <2>1. Precedes(keys, order[m], order[n])
    BY <1>7, <1>13
  <2>2. PICK x \in [1 .. 4 -> Int], y \in [1 .. 4 -> Int] :
          /\ x = keys[order[m]] /\ x = SortKey(t[m])
          /\ y = keys[order[n]] /\ y = SortKey(t[n])
    <3>1. \A i \in 1 .. N : keys[order[i]] \in [1 .. 4 -> Int]
                            /\ keys[order[i]] = SortKey(t[i])
      BY <1>3, <1>7, <1>10
    <3>2. QED
      BY <3>1
  <2>3. Lexicographic(x, y) \/ ~Lexicographic(y, x)
    BY <2>1, <2>2 DEF Precedes
  <2>4. ~(Lexicographic(x, y) /\ Lexicographic(y, x))
    BY LexicographicOrders
  <2>5. QED
    BY <2>2, <2>3, <2>4
<1>14. InOrder(t)
  BY <1>6, <1>13 DEF InOrder
<1>15. ASSUME IsInjective(s) PROVE IsInjective(t)
  <2>1. ASSUME NEW m \in 1 .. N, NEW n \in 1 .. N, t[m] = t[n] PROVE m = n
    <3>1. s[order[m]] = s[order[n]]
      BY <1>7, <2>1
    <3>2. order[m] \in DOMAIN s /\ order[n] \in DOMAIN s
      BY <1>1, <1>10
    <3>3. order[m] = order[n]
      BY <1>15, <3>1, <3>2 DEF IsInjective
    <3>4. ~(m < n) /\ ~(n < m)
      BY <1>7, <3>3 DEF Precedes
    <3>5. QED
      BY <2>1, <3>4
  <2>2. QED
    BY <1>6, <2>1 DEF IsInjective
<1>16. ASSUME InOrder(s) PROVE t = s
  <2>1. ASSUME NEW i \in 1 .. N, NEW j \in 1 .. N
        PROVE  Precedes(keys, j, i) <=> j < i
    <3>1. PICK x \in [1 .. 4 -> Int], y \in [1 .. 4 -> Int] :
            x = keys[i] /\ x = SortKey(s[i]) /\ y = keys[j] /\ y = SortKey(s[j])
      BY <1>3
    <3>2. /\ ~Lexicographic(x, x) /\ ~(Lexicographic(x, y) /\ Lexicographic(y, x))
          /\ Lexicographic(x, y) \/ Lexicographic(y, x) \/ x = y
      BY LexicographicOrders
    <3>3. /\ j < i => ~Lexicographic(x, y)
          /\ i < j => ~Lexicographic(y, x)
      BY <1>1, <1>16, <3>1 DEF InOrder
    <3>4. Precedes(keys, j, i) <=> Lexicographic(y, x) \/ (~Lexicographic(x, y) /\ j < i)
      BY <3>1 DEF Precedes
    <3>5. i = j => x = y
      BY <3>1
    <3>6. j < i \/ i < j \/ i = j
      BY <1>1
    <3>7. QED
      BY <1>1, <3>2, <3>3, <3>4, <3>5, <3>6
  <2>2. ASSUME NEW i \in 1 .. N PROVE Rank(1 .. N, keys, i) = i
    <3>1. {j \in 1 .. N : Precedes(keys, j, i)} = 1 .. i - 1
      BY <1>1, <2>1
    <3>2. Cardinality(1 .. i - 1) = i - 1
      <4>1. Cardinality(1 .. i - 1) = IF 1 > i - 1 THEN 0 ELSE i - 1 - 1 + 1
        BY <1>1, FS_Interval
      <4>2. QED
        BY <1>1, <4>1
    <3>3. QED
      <4>1. Rank(1 .. N, keys, i) = 1 + Cardinality(1 .. i - 1)
        BY <3>1 DEF Rank
      <4>2. QED
        BY <1>1, <3>2, <4>1
  <2>3. \A n \in 1 .. N : order[n] = n
    BY <1>7, <1>10, <2>2
  <2>4. \A n \in 1 .. N : t[n] = s[n]
    BY <1>7, <2>3
  <2>5. s = [n \in 1 .. N |-> s[n]]
    <3>1. \E S : s \in [1 .. N -> S]
      BY <1>1, LenProperties DEF Alerted, N
    <3>2. QED
      BY <3>1
  <2>6. QED
    BY <1>8, <2>4, <2>5
<1>17. Len(t) = Len(s)
  BY <1>9 DEF N
<1>18. QED
  BY <1>11, <1>12, <1>14, <1>15, <1>16, <1>17 DEF t

-----------------------------------------------------------------------------
(* What a set's greatest member is.                                        *)

LEMMA MaxIsIn ==
  ASSUME NEW n \in Nat, NEW S, S \subseteq 1 .. n, S # {}
  PROVE  Max(S) \in S /\ \A x \in S : x <= Max(S)
<1>. DEFINE T == {n - x : x \in S}
<1>1. T \subseteq Nat /\ T # {}
  OBVIOUS
<1>2. PICK y \in T : \A z \in T : y <= z
  BY <1>1, LeastExists
<1>3. PICK x \in S : y = n - x
  BY <1>2
<1>4. \A w \in S : w <= x
  <2>1. ASSUME NEW w \in S PROVE w <= x
    <3>1. n - w \in T
      OBVIOUS
    <3>2. n - x <= n - w /\ w \in Int /\ x \in Int
      BY <1>2, <1>3, <3>1
    <3>3. QED
      BY <3>2
  <2>2. QED
    BY <2>1
<1>5. \E m \in S : \A w \in S : m >= w
  BY <1>4
<1>6. QED
  BY <1>5 DEF Max

LEMMA MaxOfTwo ==
  ASSUME NEW x \in Int, NEW y \in Int
  PROVE  Max({x, y}) = IF x <= y THEN y ELSE x
<1>1. \E m \in {x, y} : \A w \in {x, y} : m >= w
  OBVIOUS
<1>2. Max({x, y}) \in {x, y} /\ \A w \in {x, y} : Max({x, y}) >= w
  BY <1>1 DEF Max
<1>3. QED
  BY <1>2

LEMMA MinOfTwo ==
  ASSUME NEW x \in Int, NEW y \in Int
  PROVE  Min({x, y}) = IF x <= y THEN x ELSE y
<1>1. \E m \in {x, y} : \A w \in {x, y} : m <= w
  OBVIOUS
<1>2. Min({x, y}) \in {x, y} /\ \A w \in {x, y} : Min({x, y}) <= w
  BY <1>1 DEF Min
<1>3. QED
  BY <1>2

-----------------------------------------------------------------------------
(* Clusters.                                                               *)

\* What every cluster is, which has alerts of the first n of a list.
Linked(list) ==
    SharedEntity => \A k \in 2 .. Len(list) : \E m \in 1 .. k - 1 :
                        ~Disjoint(AlertEntities(list[m]), AlertEntities(list[k]))
Near(list) ==
    \A k \in 2 .. Len(list) : list[k - 1].time # NoNumber =>
        list[k].time - list[k - 1].time <= AlertWindow
WellMade(c, s, n) ==
    /\ Alerted(c.alerts) /\ InOrder(c.alerts) /\ Linked(c.alerts) /\ Near(c.alerts)
    /\ Len(c.alerts) \in 1 .. MaxAlerts
    /\ \A k \in DOMAIN c.alerts : \E m \in 1 .. n : c.alerts[k] = s[m]
    /\ c.entities = UNION {AlertEntities(a) : a \in ToSet(c.alerts)}
    /\ c.last = c.alerts[Len(c.alerts)].time /\ c.first \in Int

\* The clusters have each of these alerts once.
Parted(cs, s, n) ==
    /\ \A m \in 1 .. n : \E i \in DOMAIN cs : s[m] \in ToSet(cs[i].alerts)
    /\ \A i, j \in DOMAIN cs : i # j => ToSet(cs[i].alerts) \cap ToSet(cs[j].alerts) = {}
PlacedWell(cs, s, n) ==
    /\ cs \in Seq(ToSet(cs)) /\ Parted(cs, s, n)
    /\ \A i \in DOMAIN cs : WellMade(cs[i], s, n)

LEMMA FirstOfCluster ==
  ASSUME NEW s, NEW n \in Nat \ {0}, Timed(s[n])
  PROVE  WellMade(NewCluster(s[n]), s, n)
<1>. DEFINE a == s[n]  c == NewCluster(a)
<1>1. /\ c.alerts = <<a>> /\ c.entities = AlertEntities(a) /\ c.last = a.time
      /\ c.first \in Int
  BY DEF NewCluster, Timed
<1>2. /\ <<a>> \in Seq(ToSet(<<a>>)) /\ Len(<<a>>) = 1 /\ DOMAIN <<a>> = 1 .. 1
      /\ <<a>>[1] = a /\ ToSet(<<a>>) = {a}
  <2>1. Len(<<a>>) = 1 /\ DOMAIN <<a>> = 1 .. 1 /\ <<a>>[1] = a
    OBVIOUS
  <2>2. ToSet(<<a>>) = {a}
    BY <2>1 DEF ToSet
  <2>3. QED
    BY <2>1, <2>2
<1>. HIDE DEF c
<1>3. Alerted(<<a>>) /\ InOrder(<<a>>) /\ Linked(<<a>>) /\ Near(<<a>>)
  BY <1>2 DEF Alerted, InOrder, Linked, Near
<1>4. 1 \in 1 .. MaxAlerts
  BY GroupingConstants
<1>5. c.entities = UNION {AlertEntities(b) : b \in ToSet(<<a>>)}
  BY <1>1, <1>2
<1>6. \A k \in 1 .. 1 : \E m \in 1 .. n : <<a>>[k] = s[m]
  OBVIOUS
<1>7. WellMade(c, s, n)
  BY <1>1, <1>2, <1>3, <1>4, <1>5, <1>6 DEF WellMade
<1>8. QED
  BY <1>7 DEF c

\* An alert that comes after those of a cluster, and that the cluster takes.
LEMMA NextOfCluster ==
  ASSUME NEW s, Alerted(s), InOrder(s), NEW n \in DOMAIN s, NEW c,
         WellMade(c, s, n - 1), TakesAlert(s[n], c)
  PROVE  /\ WellMade(AddedTo(c, s[n]), s, n)
         /\ ToSet(AddedTo(c, s[n]).alerts) = ToSet(c.alerts) \cup {s[n]}
<1>. DEFINE a == s[n]  d == AddedTo(c, a)  old == c.alerts  L == Len(old)
            new == Append(old, a)
<1>1. /\ d.alerts = new /\ d.entities = c.entities \cup AlertEntities(a)
      /\ d.last = Latest(c.last, a.time) /\ d.first = Earliest(c.first, a.time)
  BY DEF AddedTo
<1>2. n \in Nat \ {0} /\ Timed(a)
  BY IsList DEF Alerted
<1>3. /\ Alerted(old) /\ InOrder(old) /\ Linked(old) /\ Near(old) /\ L \in 1 .. MaxAlerts
      /\ \A k \in DOMAIN old : \E m \in 1 .. n - 1 : old[k] = s[m]
      /\ c.entities = UNION {AlertEntities(b) : b \in ToSet(old)}
      /\ c.last = old[L].time
  BY DEF WellMade
<1>4. old \in Seq(ToSet(old)) /\ \A k \in DOMAIN old : Timed(old[k])
  BY <1>3 DEF Alerted
<1>5. /\ new \in Seq(ToSet(new)) /\ L \in Nat /\ Len(new) = L + 1
      /\ DOMAIN old = 1 .. L /\ DOMAIN new = 1 .. L + 1
      /\ \A k \in 1 .. L : new[k] = old[k]
      /\ new[L + 1] = a /\ ToSet(new) = ToSet(old) \cup {a}
  BY <1>4, AppendKeeps
<1>6. L < MaxAlerts /\ WithinTimeWindow(a, c)
      /\ (SharedEntity => ~Disjoint(AlertEntities(a), c.entities))
  BY DEF TakesAlert
<1>. HIDE DEF d, new, L, old
<1>7. \A k \in DOMAIN new : \E m \in 1 .. n : new[k] = s[m]
  <2>1. \A k \in 1 .. L : \E m \in 1 .. n : new[k] = s[m]
    BY <1>2, <1>3, <1>5
  <2>2. new[L + 1] = s[n] /\ n \in 1 .. n
    BY <1>2, <1>5
  <2>3. QED
    BY <1>5, <2>1, <2>2
<1>8. ASSUME NEW k \in 1 .. L
      PROVE  /\ ~Lexicographic(SortKey(a), SortKey(old[k]))
             /\ Timed(old[k]) /\ old[k].time <= a.time
  <2>1. PICK m \in 1 .. n - 1 : old[k] = s[m]
    BY <1>3, <1>5
  <2>2. m \in DOMAIN s /\ m < n
    <3>1. DOMAIN s = 1 .. Len(s) /\ Len(s) \in Nat
      BY IsList DEF Alerted
    <3>2. QED
      BY <3>1
  <2>3. ~Lexicographic(SortKey(a), SortKey(old[k]))
    BY <2>1, <2>2 DEF InOrder
  <2>4. Timed(old[k])
    BY <1>4, <1>5
  <2>5. ASSUME a.time < old[k].time PROVE FALSE
    <3>1. SortKey(a)[1] = a.time /\ SortKey(old[k])[1] = old[k].time
          /\ DOMAIN SortKey(a) = 1 .. 4
      BY DEF SortKey
    <3>2. Lexicographic(SortKey(a), SortKey(old[k]))
      BY <2>5, <3>1 DEF Lexicographic
    <3>3. QED
      BY <2>3, <3>2
  <2>6. QED
    BY <1>2, <2>3, <2>4, <2>5 DEF Timed
<1>9. Alerted(new)
  BY <1>2, <1>4, <1>5 DEF Alerted
<1>10. InOrder(new)
  <2>1. ASSUME NEW j \in 1 .. L + 1, NEW k \in 1 .. L + 1, j < k
        PROVE  ~Lexicographic(SortKey(new[k]), SortKey(new[j]))
    <3>1. CASE k = L + 1
      BY <1>5, <1>8, <2>1, <3>1
    <3>2. CASE k \in 1 .. L
      BY <1>3, <1>5, <2>1, <3>2 DEF InOrder
    <3>3. QED
      BY <1>5, <3>1, <3>2
  <2>2. QED
    BY <1>5, <2>1 DEF InOrder
<1>11. Linked(new)
  <2>1. ASSUME SharedEntity, NEW k \in 2 .. L + 1
        PROVE  \E m \in 1 .. k - 1 : ~Disjoint(AlertEntities(new[m]), AlertEntities(new[k]))
    <3>1. CASE k = L + 1
      <4>1. PICK x : x \in AlertEntities(a) /\ x \in c.entities
        BY <1>6, <2>1 DEF Disjoint
      <4>2. PICK m \in 1 .. L : x \in AlertEntities(old[m])
        BY <1>3, <1>5, <4>1 DEF ToSet
      <4>3. m \in 1 .. k - 1 /\ ~Disjoint(AlertEntities(new[m]), AlertEntities(new[k]))
        <5>1. new[m] = old[m] /\ new[k] = a /\ m \in 1 .. k - 1
          BY <1>5, <3>1
        <5>2. x \in AlertEntities(new[m]) /\ x \in AlertEntities(new[k])
          BY <4>1, <4>2, <5>1
        <5>3. QED
          BY <5>1, <5>2 DEF Disjoint
      <4>4. QED
        BY <4>3
    <3>2. CASE k \in 2 .. L
      <4>1. PICK m \in 1 .. k - 1 : ~Disjoint(AlertEntities(old[m]), AlertEntities(old[k]))
        BY <1>3, <2>1, <3>2 DEF Linked, L
      <4>2. new[m] = old[m] /\ new[k] = old[k]
        BY <1>5, <3>2
      <4>3. QED
        BY <4>1, <4>2
    <3>3. QED
      BY <1>5, <3>1, <3>2
  <2>2. QED
    BY <1>5, <2>1 DEF Linked
<1>12. L \in 1 .. L /\ L >= 1
  BY <1>3, <1>5
<1>13. Near(new)
  <2>1. ASSUME NEW k \in 2 .. L + 1, new[k - 1].time # NoNumber
        PROVE  new[k].time - new[k - 1].time <= AlertWindow
    <3>1. CASE k = L + 1
      <4>1. new[k] = a /\ new[k - 1] = old[L]
        BY <1>5, <1>12, <3>1
      <4>2. a.time \in Int /\ old[L].time \in Int /\ old[L].time <= a.time
            /\ old[L].time >= NoNumber
        BY <1>2, <1>8, <1>12 DEF Timed
      <4>3. a.time # NoNumber /\ c.last # NoNumber
        BY <1>3, <2>1, <4>1, <4>2 DEF NoNumber
      <4>4. a.time - c.last \in -AlertWindow .. AlertWindow
        BY <1>6, <4>3 DEF WithinTimeWindow
      <4>5. QED
        BY <1>3, <4>1, <4>2, <4>4, GroupingConstants
    <3>2. CASE k \in 2 .. L
      <4>1. new[k] = old[k] /\ new[k - 1] = old[k - 1]
        BY <1>5, <3>2
      <4>2. QED
        BY <1>3, <2>1, <3>2, <4>1 DEF Near, L
    <3>3. QED
      BY <1>5, <3>1, <3>2
  <2>2. QED
    BY <1>5, <2>1 DEF Near
<1>14. Len(new) \in 1 .. MaxAlerts
  BY <1>3, <1>5, <1>6, GroupingConstants
<1>15. d.entities = UNION {AlertEntities(b) : b \in ToSet(new)}
  BY <1>1, <1>3, <1>5
<1>16. d.last = new[Len(new)].time
  <2>1. a.time \in Int /\ c.last \in Int /\ c.last <= a.time
    BY <1>2, <1>3, <1>8, <1>12 DEF Timed
  <2>2. Latest(c.last, a.time) = a.time
    BY <2>1, MaxOfTwo DEF Latest
  <2>3. QED
    BY <1>1, <1>5, <2>2
<1>17. d.first \in Int
  <2>1. c.first \in Int /\ a.time \in Int
    BY <1>2 DEF WellMade, Timed
  <2>2. QED
    BY <1>1, <2>1, MaxOfTwo, MinOfTwo DEF Earliest
<1>18. WellMade(d, s, n)
  BY <1>1, <1>7, <1>9, <1>10, <1>11, <1>13, <1>14, <1>15, <1>16, <1>17 DEF WellMade
<1>19. QED
  BY <1>1, <1>5, <1>18 DEF d, old

\* One more alert may have been placed.
LEMMA MorePlaced ==
  ASSUME NEW c, NEW s, NEW n \in Nat, WellMade(c, s, n - 1)
  PROVE  WellMade(c, s, n)
<1>1. 1 .. n - 1 \subseteq 1 .. n
  OBVIOUS
<1>2. QED
  BY <1>1 DEF WellMade

LEMMA PlacingAlert ==
  ASSUME NEW s, Alerted(s), InOrder(s), IsInjective(s), NEW n \in DOMAIN s,
         NEW cs, PlacedWell(cs, s, n - 1)
  PROVE  PlacedWell(PlaceAlert(cs, s[n]), s, n)
<1>. DEFINE a == s[n]  new == PlaceAlert(cs, a)
            fitting == {i \in DOMAIN cs : TakesAlert(a, cs[i])}
<1>1. DOMAIN s = 1 .. Len(s) /\ Len(s) \in Nat /\ n \in Nat \ {0} /\ Timed(a)
  BY IsList DEF Alerted
<1>2. /\ cs \in Seq(ToSet(cs))
      /\ \A m \in 1 .. n - 1 : \E i \in DOMAIN cs : s[m] \in ToSet(cs[i].alerts)
      /\ \A i, j \in DOMAIN cs : i # j => ToSet(cs[i].alerts) \cap ToSet(cs[j].alerts) = {}
      /\ \A i \in DOMAIN cs : WellMade(cs[i], s, n - 1)
  BY DEF PlacedWell, Parted
<1>3. Len(cs) \in Nat /\ DOMAIN cs = 1 .. Len(cs)
  BY <1>2, IsList
<1>4. \A i \in DOMAIN cs : a \notin ToSet(cs[i].alerts)
  <2>1. ASSUME NEW i \in DOMAIN cs, a \in ToSet(cs[i].alerts) PROVE FALSE
    <3>1. PICK k \in DOMAIN cs[i].alerts : a = cs[i].alerts[k]
      BY <2>1 DEF ToSet
    <3>2. PICK m \in 1 .. n - 1 : a = s[m]
      BY <1>2, <3>1 DEF WellMade
    <3>3. m \in DOMAIN s /\ m # n
      BY <1>1
    <3>4. QED
      BY <3>2, <3>3 DEF IsInjective
  <2>2. QED
    BY <2>1
<1>5. CASE fitting = {}
  <2>. DEFINE c == NewCluster(a)
  <2>1. new = Append(cs, c)
    BY <1>5 DEF PlaceAlert
  <2>2. WellMade(c, s, n) /\ ToSet(c.alerts) = {a}
    <3>1. c.alerts = <<a>>
      BY DEF NewCluster
    <3>2. ToSet(<<a>>) = {a}
      BY DEF ToSet
    <3>3. QED
      BY <1>1, <3>1, <3>2, FirstOfCluster
  <2>. HIDE DEF c, new, a
  <2>3. /\ new \in Seq(ToSet(new)) /\ DOMAIN new = 1 .. Len(cs) + 1
        /\ \A i \in DOMAIN cs : new[i] = cs[i]
        /\ new[Len(cs) + 1] = c
    BY <1>2, <2>1, AppendKeeps
  <2>4. \A i \in DOMAIN new : i \in DOMAIN cs \/ i = Len(cs) + 1
    BY <1>3, <2>3
  <2>5. \A i \in DOMAIN new : WellMade(new[i], s, n)
    BY <1>1, <1>2, <2>2, <2>3, <2>4, MorePlaced
  <2>6. \A m \in 1 .. n : \E i \in DOMAIN new : s[m] \in ToSet(new[i].alerts)
    <3>1. DOMAIN cs \subseteq DOMAIN new /\ Len(cs) + 1 \in DOMAIN new
      BY <1>3, <2>3
    <3>2. \A m \in 1 .. n - 1 : \E i \in DOMAIN new : s[m] \in ToSet(new[i].alerts)
      BY <1>2, <2>3, <3>1
    <3>3. s[n] \in ToSet(new[Len(cs) + 1].alerts)
      BY <2>2, <2>3 DEF a
    <3>4. \A m \in 1 .. n : m \in 1 .. n - 1 \/ m = n
      BY <1>1
    <3>5. QED
      BY <3>1, <3>2, <3>3, <3>4
  <2>7. \A i, j \in DOMAIN new :
           i # j => ToSet(new[i].alerts) \cap ToSet(new[j].alerts) = {}
    <3>1. \A i \in DOMAIN cs : ToSet(new[i].alerts) = ToSet(cs[i].alerts)
                               /\ a \notin ToSet(new[i].alerts)
      BY <1>4, <2>3
    <3>2. ToSet(new[Len(cs) + 1].alerts) = {a}
      BY <2>2, <2>3
    <3>3. ASSUME NEW i \in DOMAIN new, NEW j \in DOMAIN new, i # j
          PROVE  ToSet(new[i].alerts) \cap ToSet(new[j].alerts) = {}
      <4>1. CASE i \in DOMAIN cs /\ j \in DOMAIN cs
        BY <1>2, <3>1, <3>3, <4>1
      <4>2. CASE i = Len(cs) + 1 /\ j \in DOMAIN cs
        BY <3>1, <3>2, <4>2
      <4>3. CASE i \in DOMAIN cs /\ j = Len(cs) + 1
        BY <3>1, <3>2, <4>3
      <4>4. QED
        BY <2>4, <3>3, <4>1, <4>2, <4>3
    <3>4. QED
      BY <3>3
  <2>8. QED
    BY <2>3, <2>5, <2>6, <2>7 DEF PlacedWell, Parted, new, a
<1>6. CASE fitting # {}
  <2>. DEFINE f == Max(fitting)  d == AddedTo(cs[f], a)
  <2>1. f \in fitting
    BY <1>3, <1>6, MaxIsIn
  <2>2. f \in DOMAIN cs /\ TakesAlert(a, cs[f])
    BY <2>1
  <2>3. WellMade(d, s, n) /\ ToSet(d.alerts) = ToSet(cs[f].alerts) \cup {a}
    BY <1>2, <2>2, NextOfCluster
  <2>4. new = [cs EXCEPT ![f] = d]
    BY <1>6 DEF PlaceAlert
  <2>. HIDE DEF f, d, new, a
  <2>5. /\ DOMAIN new = DOMAIN cs /\ new[f] = d
        /\ \A i \in DOMAIN cs : i # f => new[i] = cs[i]
    BY <2>2, <2>4
  <2>6. new \in Seq(ToSet(new))
    <3>1. new = [i \in 1 .. Len(cs) |-> new[i]]
      BY <1>3, <2>4
    <3>2. QED
      BY <1>3, <3>1, ListOf
  <2>7. \A i \in DOMAIN new : WellMade(new[i], s, n)
    BY <1>1, <1>2, <2>3, <2>5, MorePlaced
  <2>8. \A m \in 1 .. n : \E i \in DOMAIN new : s[m] \in ToSet(new[i].alerts)
    <3>1. \A i \in DOMAIN cs : ToSet(cs[i].alerts) \subseteq ToSet(new[i].alerts)
      BY <2>3, <2>5
    <3>2. \A m \in 1 .. n - 1 : \E i \in DOMAIN new : s[m] \in ToSet(new[i].alerts)
      BY <1>2, <2>5, <3>1
    <3>3. s[n] \in ToSet(new[f].alerts) /\ f \in DOMAIN new
      BY <2>2, <2>3, <2>5 DEF a
    <3>4. \A m \in 1 .. n : m \in 1 .. n - 1 \/ m = n
      BY <1>1
    <3>5. QED
      BY <3>2, <3>3, <3>4
  <2>9. \A i, j \in DOMAIN new :
           i # j => ToSet(new[i].alerts) \cap ToSet(new[j].alerts) = {}
    BY <1>2, <1>4, <2>2, <2>3, <2>5
  <2>10. QED
    BY <2>6, <2>7, <2>8, <2>9 DEF PlacedWell, Parted, new, a
<1>7. QED
  BY <1>5, <1>6

\* Placing one after the other is defined for every list.
LEMMA PlacingAlerts ==
  ASSUME NEW s, Len(s) \in Nat
  PROVE  \E after :
            /\ after[0] = <<>>
            /\ \A n \in 1 .. Len(s) : after[n] = PlaceAlert(after[n - 1], s[n])
            /\ Clusters(s) = after[Len(s)]
<1>. DEFINE Solves(f, m) ==
              f = [n \in 0 .. m |-> IF n = 0 THEN <<>> ELSE PlaceAlert(f[n - 1], s[n])]
            bad == {m \in 0 .. Len(s) : ~\E f : Solves(f, m)}
<1>1. bad = {}
  <2>1. SUFFICES ASSUME bad # {} PROVE FALSE
    OBVIOUS
  <2>2. PICK m \in bad : \A k \in bad : m <= k
    <3>1. bad \subseteq Nat
      OBVIOUS
    <3>. HIDE DEF bad
    <3>2. QED
      BY <2>1, <3>1, LeastExists
  <2>3. m # 0
    <3>1. Solves([n \in 0 .. 0 |-> <<>>], 0)
      OBVIOUS
    <3>2. QED
      BY <3>1
  <2>4. m - 1 \in 0 .. Len(s) /\ m - 1 \notin bad
    BY <2>2, <2>3
  <2>5. PICK f : Solves(f, m - 1)
    BY <2>4
  <2>. DEFINE g == [n \in 0 .. m |-> IF n = m THEN PlaceAlert(f[m - 1], s[m]) ELSE f[n]]
  <2>6. \A n \in 0 .. m - 1 : f[n] = IF n = 0 THEN <<>> ELSE PlaceAlert(f[n - 1], s[n])
    BY <2>5
  <2>7. \A n \in 0 .. m : g[n] = IF n = 0 THEN <<>> ELSE PlaceAlert(g[n - 1], s[n])
    BY <2>2, <2>3, <2>6
  <2>8. Solves(g, m)
    <3>1. g = [n \in 0 .. m |-> g[n]]
      OBVIOUS
    <3>. HIDE DEF g
    <3>2. QED
      BY <2>7, <3>1
  <2>9. QED
    BY <2>2, <2>8
<1>2. \E f : Solves(f, Len(s))
  BY <1>1
<1>. DEFINE after == CHOOSE f : Solves(f, Len(s))
<1>3. Solves(after, Len(s))
  BY <1>2
<1>4. Clusters(s) = after[Len(s)]
  BY DEF Clusters
<1>. HIDE DEF after
<1>5. \A n \in 0 .. Len(s) : after[n] = IF n = 0 THEN <<>> ELSE PlaceAlert(after[n - 1], s[n])
  BY <1>3
<1>6. after[0] = <<>>
  BY <1>5
<1>7. \A n \in 1 .. Len(s) : after[n] = PlaceAlert(after[n - 1], s[n])
  BY <1>5
<1>8. QED
  BY <1>4, <1>6, <1>7

LEMMA ClustersAreWell ==
  ASSUME NEW s, Alerted(s), InOrder(s), IsInjective(s)
  PROVE  PlacedWell(Clusters(s), s, Len(s))
<1>1. Len(s) \in Nat /\ DOMAIN s = 1 .. Len(s)
  BY IsList DEF Alerted
<1>2. PICK after : /\ after[0] = <<>>
                   /\ \A n \in 1 .. Len(s) : after[n] = PlaceAlert(after[n - 1], s[n])
                   /\ Clusters(s) = after[Len(s)]
  BY <1>1, PlacingAlerts
<1>. DEFINE bad == {n \in 0 .. Len(s) : ~PlacedWell(after[n], s, n)}
<1>3. PlacedWell(<<>>, s, 0)
  <2>1. <<>> \in Seq(ToSet(<<>>)) /\ DOMAIN <<>> = {}
    BY EmptySeq
  <2>2. QED
    BY <2>1 DEF PlacedWell, Parted
<1>4. bad = {}
  <2>1. SUFFICES ASSUME bad # {} PROVE FALSE
    OBVIOUS
  <2>2. PICK n \in bad : \A k \in bad : n <= k
    <3>1. bad \subseteq Nat
      OBVIOUS
    <3>. HIDE DEF bad
    <3>2. QED
      BY <2>1, <3>1, LeastExists
  <2>3. n # 0
    BY <1>2, <1>3, <2>2
  <2>4. n - 1 \in 0 .. Len(s) /\ n - 1 \notin bad /\ n \in DOMAIN s
    BY <1>1, <2>2, <2>3
  <2>5. PlacedWell(after[n - 1], s, n - 1)
    BY <2>4
  <2>6. PlacedWell(after[n], s, n)
    BY <1>1, <1>2, <2>4, <2>5, PlacingAlert
  <2>7. QED
    BY <2>2, <2>6
<1>5. QED
  BY <1>1, <1>2, <1>4

\* What clustering makes of alerts: each is in one candidate.
Candidated(cs, given) ==
    /\ cs \in Seq(ToSet(cs))
    /\ \A a \in given : \E i \in DOMAIN cs :
          \A j \in DOMAIN cs : a \in ToSet(cs[j].alerts) <=> j = i
    /\ \A i \in DOMAIN cs :
          LET list == cs[i].alerts
          IN  /\ Alerted(list) /\ Linked(list) /\ Near(list) /\ Len(list) \in 1 .. MaxAlerts
              /\ ToSet(list) \subseteq given
              /\ cs[i].first \in Int /\ cs[i].last \in Int
              /\ cs[i].host = FirstOf(list, "host", NoHost)
              /\ cs[i].user = FirstOf(list, "user", NoText)
              /\ cs[i].srcs = {a.src : a \in ToSet(list)} \ {NoText}
              /\ cs[i].dsts = {a.dst : a \in ToSet(list)} \ {NoText}

LEMMA CandidateOfCluster ==
  ASSUME NEW c, NEW s, NEW n, NEW index, WellMade(c, s, n)
  PROVE  LET k == ToCandidate(c, index)
         IN  /\ k.alerts = c.alerts /\ k.first \in Int /\ k.last \in Int
             /\ k.host = FirstOf(k.alerts, "host", NoHost)
             /\ k.user = FirstOf(k.alerts, "user", NoText)
             /\ k.srcs = {a.src : a \in ToSet(k.alerts)} \ {NoText}
             /\ k.dsts = {a.dst : a \in ToSet(k.alerts)} \ {NoText}
<1>. DEFINE k == ToCandidate(c, index)
<1>0. /\ k.alerts = SortedAlerts(c.alerts) /\ k.first = c.first /\ k.last = c.last
      /\ k.host = FirstOf(k.alerts, "host", NoHost)
      /\ k.user = FirstOf(k.alerts, "user", NoText)
      /\ k.srcs = {a.src : a \in ToSet(k.alerts)} \ {NoText}
      /\ k.dsts = {a.dst : a \in ToSet(k.alerts)} \ {NoText}
  BY DEF ToCandidate
<1>1. SortedAlerts(c.alerts) = c.alerts
  BY SortingAlerts DEF WellMade
<1>2. c.first \in Int /\ Timed(c.alerts[Len(c.alerts)])
      /\ c.last = c.alerts[Len(c.alerts)].time
  <2>1. Alerted(c.alerts) /\ Len(c.alerts) \in 1 .. MaxAlerts
    BY DEF WellMade
  <2>2. Len(c.alerts) \in DOMAIN c.alerts
    BY <2>1, IsList DEF Alerted
  <2>3. QED
    BY <2>1, <2>2 DEF WellMade, Alerted
<1>. HIDE DEF k
<1>3. QED
  BY <1>0, <1>1, <1>2 DEF Timed, k

LEMMA ClusteringParts ==
  ASSUME NEW alerts, Alerted(alerts), IsInjective(alerts)
  PROVE  /\ Candidated(Cluster(alerts), ToSet(alerts))
         /\ \A i \in DOMAIN Cluster(alerts) : Cluster(alerts)[i].id.index = i
<1>. DEFINE s == SortedAlerts(alerts)  made == Clusters(s)  cs == Cluster(alerts)
<1>1. /\ Alerted(s) /\ InOrder(s) /\ IsInjective(s) /\ ToSet(s) = ToSet(alerts)
      /\ Len(s) \in Nat /\ DOMAIN s = 1 .. Len(s)
  BY SortingAlerts, IsList DEF Alerted
<1>2. PlacedWell(made, s, Len(s))
  BY <1>1, ClustersAreWell
<1>3. /\ cs = [i \in DOMAIN made |-> ToCandidate(made[i], i)]
      /\ \A i \in DOMAIN made : cs[i].id.index = i
  BY DEF Cluster, ToCandidate
<1>. HIDE DEF cs, made, s
<1>4. /\ made \in Seq(ToSet(made))
      /\ \A m \in 1 .. Len(s) : \E i \in DOMAIN made : s[m] \in ToSet(made[i].alerts)
      /\ \A i, j \in DOMAIN made :
            i # j => ToSet(made[i].alerts) \cap ToSet(made[j].alerts) = {}
      /\ \A i \in DOMAIN made : WellMade(made[i], s, Len(s))
  BY <1>2 DEF PlacedWell, Parted
<1>5. DOMAIN made = 1 .. Len(made) /\ Len(made) \in Nat
  BY <1>4, IsList
<1>6. /\ DOMAIN cs = DOMAIN made
      /\ \A i \in DOMAIN cs : /\ cs[i].alerts = made[i].alerts
                             /\ cs[i].first \in Int /\ cs[i].last \in Int
                             /\ cs[i].host = FirstOf(cs[i].alerts, "host", NoHost)
                             /\ cs[i].user = FirstOf(cs[i].alerts, "user", NoText)
                             /\ cs[i].srcs = {a.src : a \in ToSet(cs[i].alerts)} \ {NoText}
                             /\ cs[i].dsts = {a.dst : a \in ToSet(cs[i].alerts)} \ {NoText}
  <2>1. \A i \in DOMAIN made : LET k == ToCandidate(made[i], i)
                              IN  /\ k.alerts = made[i].alerts
                                  /\ k.first \in Int /\ k.last \in Int
                                  /\ k.host = FirstOf(k.alerts, "host", NoHost)
                                  /\ k.user = FirstOf(k.alerts, "user", NoText)
                                  /\ k.srcs = {a.src : a \in ToSet(k.alerts)} \ {NoText}
                                  /\ k.dsts = {a.dst : a \in ToSet(k.alerts)} \ {NoText}
    BY <1>4, CandidateOfCluster
  <2>2. QED
    BY <1>3, <2>1
<1>7. cs \in Seq(ToSet(cs))
  <2>1. cs = [i \in 1 .. Len(made) |-> cs[i]]
    BY <1>3, <1>5
  <2>2. QED
    BY <1>5, <2>1, ListOf
<1>8. ASSUME NEW a \in ToSet(alerts)
      PROVE  \E i \in DOMAIN cs : \A j \in DOMAIN cs : a \in ToSet(cs[j].alerts) <=> j = i
  <2>1. PICK m \in 1 .. Len(s) : a = s[m]
    BY <1>1 DEF ToSet
  <2>2. PICK i \in DOMAIN made : a \in ToSet(made[i].alerts)
    BY <1>4, <2>1
  <2>3. \A j \in DOMAIN made : a \in ToSet(made[j].alerts) <=> j = i
    BY <1>4, <2>2
  <2>4. QED
    BY <1>6, <2>3
<1>9. ASSUME NEW i \in DOMAIN cs
      PROVE  LET list == cs[i].alerts
             IN  /\ Alerted(list) /\ Linked(list) /\ Near(list)
                 /\ Len(list) \in 1 .. MaxAlerts /\ ToSet(list) \subseteq ToSet(alerts)
                 /\ cs[i].first \in Int /\ cs[i].last \in Int
                 /\ cs[i].host = FirstOf(list, "host", NoHost)
                 /\ cs[i].user = FirstOf(list, "user", NoText)
                 /\ cs[i].srcs = {a.src : a \in ToSet(list)} \ {NoText}
                 /\ cs[i].dsts = {a.dst : a \in ToSet(list)} \ {NoText}
  <2>1. ToSet(made[i].alerts) \subseteq ToSet(s)
    <3>1. ASSUME NEW k \in DOMAIN made[i].alerts PROVE made[i].alerts[k] \in ToSet(s)
      <4>1. PICK m \in 1 .. Len(s) : made[i].alerts[k] = s[m]
        <5>1. WellMade(made[i], s, Len(s))
          BY <1>4, <1>6
        <5>2. QED
          BY <5>1 DEF WellMade
      <4>2. QED
        BY <1>1, <4>1 DEF ToSet
    <3>2. QED
      BY <3>1 DEF ToSet
  <2>2. QED
    BY <1>1, <1>4, <1>6, <2>1 DEF WellMade
<1>10. Candidated(cs, ToSet(alerts))
  BY <1>7, <1>8, <1>9 DEF Candidated
<1>11. QED
  BY <1>3, <1>6, <1>10 DEF cs

-----------------------------------------------------------------------------
(* The alerts of a run.                                                    *)

LEMMA NormalizedFields ==
  ASSUME NEW e PROVE /\ Normalize(e).id = AlertId(e) /\ Normalize(e).time = Timestamp(e)
                     /\ Normalize(e).found = e.found
BY DEF Normalize, NormalizeWazuh, NormalizeSecurityOnion, NormalizePf, NormalizeGeneric,
   NormalizeFields

LEMMA NormalizedTimed ==
  ASSUME NEW e \in Events PROVE Timed(Normalize(e))
<1>1. EventTyped(e)
  BY EventConstants
<1>2. Timestamp(e) \in Int /\ Timestamp(e) >= NoNumber
  BY <1>1 DEF EventTyped, Timestamp, NoNumber
<1>3. SourceRank[e.source] \in Int
  BY <1>1 DEF EventTyped, SourceRank
<1>4. AlertId(e)[1] \in Int /\ AlertId(e)[2] \in Int /\ AlertId(e)[3] \in Int
  BY <1>1, <1>3 DEF EventTyped, AlertId
<1>5. QED
  BY <1>2, <1>4, NormalizedFields DEF Timed

\* A batch is a list of events, each once.
Batched(b) == b \in Seq(Events) /\ IsInjective(b)

LEMMA AlertsOfBatch ==
  ASSUME Batched(batch)
  PROVE  /\ Alerted(Alerts) /\ IsInjective(Alerts)
         /\ DOMAIN Alerts = DOMAIN batch /\ Len(Alerts) = Len(batch)
<1>1. /\ Len(batch) \in Nat /\ DOMAIN batch = 1 .. Len(batch)
      /\ \A i \in DOMAIN batch : batch[i] \in Events
  BY LenProperties DEF Batched
<1>2. Alerts = [i \in 1 .. Len(batch) |-> Alerts[i]]
  BY <1>1 DEF Alerts
<1>3. Alerts \in Seq(ToSet(Alerts)) /\ Len(Alerts) = Len(batch)
  BY <1>1, <1>2, ListOf
<1>4. DOMAIN Alerts = DOMAIN batch /\ \A i \in DOMAIN batch : Alerts[i] = Normalize(batch[i])
  BY DEF Alerts
<1>5. Alerted(Alerts)
  BY <1>1, <1>3, <1>4, NormalizedTimed DEF Alerted
<1>6. ASSUME NEW i \in DOMAIN batch, NEW j \in DOMAIN batch, Alerts[i] = Alerts[j]
      PROVE  i = j
  <2>1. AlertId(batch[i]) = AlertId(batch[j])
    BY <1>4, <1>6, NormalizedFields
  <2>2. batch[i] = batch[j]
    BY <1>1, <2>1, EventConstants
  <2>3. QED
    BY <2>2 DEF Batched, IsInjective
<1>7. IsInjective(Alerts)
  BY <1>4, <1>6 DEF IsInjective
<1>8. QED
  BY <1>3, <1>4, <1>5, <1>7

\* Sorting events of a list makes a list of events.
LEMMA SortedEvents ==
  ASSUME NEW b, Batched(b), NEW of, of \subseteq DOMAIN b, NEW keys, Keyed(of, keys)
  PROVE  Batched(Sorted(b, of, keys))
<1>. DEFINE f == Sorted(b, of, keys)  N == Cardinality(of)
<1>1. /\ Len(b) \in Nat /\ DOMAIN b = 1 .. Len(b)
      /\ \A i \in DOMAIN b : b[i] \in Events
  BY LenProperties DEF Batched
<1>2. of \subseteq Nat /\ IsFiniteSet(of)
  <2>1. of \in SUBSET (1 .. Len(b)) /\ IsFiniteSet(1 .. Len(b))
    BY <1>1, FS_Interval
  <2>2. QED
    BY <2>1, FS_Subset
<1>3. \A i \in of : b[i] \in Events /\ i \in DOMAIN b
  BY <1>1
<1>4. PICK order \in [1 .. N -> of] :
        /\ \A n \in 1 .. N : f[n] = b[order[n]] /\ Rank(of, keys, order[n]) = n
        /\ \A i \in of : \E n \in 1 .. N : order[n] = i
        /\ \A m, n \in 1 .. N : m < n => Precedes(keys, order[m], order[n])
  <2>1. \E order : Arranges(order, b, of, keys)
    BY <1>2, SortingFollows
  <2>2. QED
    BY <2>1 DEF Arranges
<1>5. N \in Nat /\ f = [n \in 1 .. N |-> f[n]]
  BY <1>2, FS_CardinalityType DEF Sorted
<1>. HIDE DEF f, N
<1>6. \A n \in 1 .. N : f[n] \in Events
  BY <1>3, <1>4
<1>7. f \in [1 .. N -> Events]
  BY <1>5, <1>6
<1>8. f \in Seq(Events) /\ DOMAIN f = 1 .. N
  BY <1>5, <1>7, SeqDef
<1>9. ASSUME NEW m \in 1 .. N, NEW n \in 1 .. N, f[m] = f[n] PROVE m = n
  <2>1. order[m] = order[n]
    BY <1>3, <1>4, <1>9 DEF Batched, IsInjective
  <2>2. QED
    BY <1>4, <2>1
<1>10. QED
  BY <1>8, <1>9 DEF Batched, IsInjective, f

\* What the events behind a target are.
LEMMA FixtureBatched ==
  ASSUME Batched(batch), NEW target
  PROVE  Batched(Fixture(target))
<1>. DEFINE of == {i \in DOMAIN batch : Normalize(batch[i]).id \in target.alerts}
            keys == [i \in of |-> <<batch[i].collected, batch[i].id>>]
<1>1. \A i \in DOMAIN batch : batch[i] \in Events
  BY LenProperties DEF Batched
<1>2. Keyed(of, keys)
  <2>1. \A i \in of : batch[i].collected \in Int /\ batch[i].id \in Int
    BY <1>1, EventConstants DEF EventTyped, NoNumber
  <2>2. \A i \in of : keys[i] \in [1 .. 2 -> Int]
    BY <2>1
  <2>3. QED
    BY <2>2 DEF Keyed
<1>3. Fixture(target) = Sorted(batch, of, keys)
  BY DEF Fixture
<1>4. of \subseteq DOMAIN batch
  OBVIOUS
<1>. HIDE DEF of, keys
<1>5. QED
  BY <1>2, <1>3, <1>4, SortedEvents

\* The batch is one, and once it has been clustered the candidates are its.
ClusteredInv ==
    Batched(batch) /\ (phase # "start" => Candidated(candidates, ToSet(Alerts)))

LEMMA AlertsKept ==
  ASSUME UNCHANGED batch PROVE Alerts' = Alerts
BY DEF Alerts

\* Only clustering makes candidates, and only a review makes another batch.
LEMMA RunsGoOn ==
  ASSUME Next, ~ClusterAlerts
  PROVE  \/ UNCHANGED <<run, candidates>> /\ phase # "start"
         \/ UNCHANGED vars
BY DEF Next, StartTriage, AskAgain, ModelFails, CompletionEmpty, AnswerUnusable, ModelBreaks,
   AnswerUsable, Decide, Promote, Measure, Terminated, FallbackOrRaise

LEMMA NarrationStays ==
  ASSUME [NarrationNext]_everything PROVE CalibrationNext \/ UNCHANGED allVars
<1>1. ASSUME NEW w, NEW i, NEW asks, Begin(w, i, asks) PROVE UNCHANGED allVars
  BY <1>1 DEF Begin
<1>2. ASSUME Writing PROVE UNCHANGED allVars
  BY <1>2 DEF Writing, RequestAgain, RequestFails, NoContent, WritingBreaks,
     DraftUsable, DraftUnusable, AnswerText, Conclude
<1>3. ASSUME Delivery PROVE UNCHANGED allVars
  BY <1>3 DEF Delivery, PrintAnswer, WriteReportFile, PushIncident, PushUnconfigured,
     EmailReport, Tell
<1>4. QED
  BY <1>1, <1>2, <1>3 DEF NarrationNext, Generate, Question, everything

\* A case of one event is a candidate of its own.
LEMMA AloneIsCandidate ==
  ASSUME NEW alerts, Alerted(alerts), Len(alerts) = 1
  PROVE  Candidated(<<ToCandidate(NewCluster(alerts[1]), 0)>>, ToSet(alerts))
<1>. DEFINE c == NewCluster(alerts[1])  k == ToCandidate(c, 0)  cs == <<k>>
<1>1. DOMAIN alerts = 1 .. 1 /\ Timed(alerts[1])
  BY IsList DEF Alerted
<1>2. WellMade(c, alerts, 1) /\ c.alerts = <<alerts[1]>>
  BY <1>1, FirstOfCluster DEF NewCluster
<1>3. /\ k.alerts = c.alerts /\ k.first \in Int /\ k.last \in Int
      /\ k.host = FirstOf(k.alerts, "host", NoHost)
      /\ k.user = FirstOf(k.alerts, "user", NoText)
      /\ k.srcs = {a.src : a \in ToSet(k.alerts)} \ {NoText}
      /\ k.dsts = {a.dst : a \in ToSet(k.alerts)} \ {NoText}
  BY <1>2, CandidateOfCluster
<1>4. DOMAIN cs = 1 .. 1 /\ cs[1] = k /\ Len(cs) = 1 /\ cs = [i \in 1 .. 1 |-> cs[i]]
  OBVIOUS
<1>. HIDE DEF c, k, cs
<1>5. cs \in Seq(ToSet(cs))
  BY <1>4, ListOf
<1>6. ToSet(alerts) = {alerts[1]} /\ ToSet(c.alerts) = {alerts[1]}
  BY <1>1, <1>2 DEF ToSet
<1>7. Candidated(cs, ToSet(alerts))
  <2>1. \A i \in DOMAIN cs : /\ i = 1 /\ cs[i].alerts = c.alerts
                             /\ cs[i].first \in Int /\ cs[i].last \in Int
                             /\ cs[i].host = FirstOf(cs[i].alerts, "host", NoHost)
                             /\ cs[i].user = FirstOf(cs[i].alerts, "user", NoText)
                             /\ cs[i].srcs = {a.src : a \in ToSet(cs[i].alerts)} \ {NoText}
                             /\ cs[i].dsts = {a.dst : a \in ToSet(cs[i].alerts)} \ {NoText}
    BY <1>3, <1>4
  <2>2. /\ Alerted(c.alerts) /\ Linked(c.alerts) /\ Near(c.alerts)
        /\ Len(c.alerts) \in 1 .. MaxAlerts
    BY <1>2 DEF WellMade
  <2>3. \A a \in ToSet(alerts) : \E i \in DOMAIN cs :
           \A j \in DOMAIN cs : a \in ToSet(cs[j].alerts) <=> j = i
    BY <1>4, <1>6, <2>1
  <2>4. QED
    BY <1>5, <1>6, <2>1, <2>2, <2>3 DEF Candidated
<1>8. QED
  BY <1>7 DEF cs, k, c

LEMMA ClusteredInitial ==
  ASSUME NarrationInit PROVE ClusteredInv
<1>1. /\ batch \in Batches(MaxBatch[engine]) /\ phase = "start"
      /\ MaxBatch[engine] \in Nat
  BY AssessmentConstants DEF NarrationInit, CalibrationInit, Init
<1>2. PICK n \in Nat : batch \in [1 .. n -> Events]
  BY <1>1 DEF Batches, BoundedSeq, SeqOf
<1>3. batch \in Seq(Events) /\ IsInjective(batch)
  BY <1>1, <1>2, SeqDef DEF Batches
<1>4. QED
  BY <1>1, <1>3 DEF ClusteredInv, Batched

LEMMA ClusteredClusters ==
  ASSUME ClusteredInv, ClusterAlerts PROVE ClusteredInv'
<1>1. Batched(batch') /\ Alerts' = Alerts
  BY AlertsKept DEF ClusterAlerts, ClusteredInv, run
<1>2. Alerted(Alerts) /\ IsInjective(Alerts) /\ Len(Alerts) = Len(batch)
  BY AlertsOfBatch DEF ClusteredInv
<1>3. CASE Alone
  BY <1>1, <1>2, <1>3, AloneIsCandidate DEF ClusterAlerts, ClusteredInv, Alone
<1>4. CASE ~Alone
  BY <1>1, <1>2, <1>4, ClusteringParts DEF ClusterAlerts, ClusteredInv
<1>5. QED
  BY <1>3, <1>4

LEMMA ClusteredStep ==
  ASSUME ClusteredInv, [NarrationNext]_everything PROVE ClusteredInv'
<1>1. ASSUME UNCHANGED <<run, candidates>>, phase # "start" \/ UNCHANGED phase
      PROVE  ClusteredInv'
  BY <1>1, AlertsKept DEF ClusteredInv, run
<1>2. ASSUME Next PROVE ClusteredInv'
  BY <1>1, <1>2, RunsGoOn, ClusteredClusters DEF vars
<1>3. ASSUME NEW item, NEW v, NEW s, Record(item, v, s) PROVE ClusteredInv'
  BY <1>1, <1>3 DEF Record, vars
<1>4. ASSUME NEW item, PromoteReview(item) PROVE ClusteredInv'
  BY <1>4, FixtureBatched DEF PromoteReview, ClusteredInv
<1>5. QED
  BY <1>1, <1>2, <1>3, <1>4, NarrationStays DEF CalibrationNext, allVars, vars

\* Clustering is a partition in time for any window, any limit and any alerts:
\* every alert is in exactly one candidate, no candidate is longer than its limit,
\* and its alerts are linked, and near to the one before.
THEOREM AlertsArePartitioned == NarrationSpec => []PartitionInTime
<1>1. ASSUME ClusteredInv PROVE PartitionInTime
  <2>1. SUFFICES ASSUME phase # "start", Candidated(candidates, ToSet(Alerts))
                 PROVE  PartitionInTime
    BY <1>1 DEF ClusteredInv, PartitionInTime
  <2>2. ASSUME NEW a \in ToSet(Alerts) PROVE Cardinality(Owners(a)) = 1
    <3>1. PICK i \in DOMAIN candidates :
            \A j \in DOMAIN candidates : a \in ToSet(candidates[j].alerts) <=> j = i
      BY <2>1 DEF Candidated
    <3>2. Owners(a) = {i}
      BY <3>1 DEF Owners
    <3>3. QED
      BY <3>2, FS_Singleton
  <2>3. ASSUME NEW c \in ToSet(candidates)
        PROVE  /\ Alerted(c.alerts) /\ Linked(c.alerts) /\ Near(c.alerts)
               /\ Len(c.alerts) \in 1 .. MaxAlerts
    <3>1. PICK i \in DOMAIN candidates : c = candidates[i]
      BY DEF ToSet
    <3>2. QED
      BY <2>1, <3>1 DEF Candidated
  <2>4. ASSUME NEW c \in ToSet(candidates)
        PROVE  /\ Len(c.alerts) <= MaxAlerts
               /\ \A n \in 2 .. Len(c.alerts) : SharedEntity =>
                      \E m \in 1 .. n - 1 : ~Disjoint(AlertEntities(c.alerts[m]),
                                                     AlertEntities(c.alerts[n]))
               /\ \A n \in 2 .. Len(c.alerts) :
                      c.alerts[n - 1].time # NoNumber =>
                          c.alerts[n].time - c.alerts[n - 1].time <= AlertWindow
    BY <2>3, GroupingConstants DEF Linked, Near
  <2>5. QED
    BY <2>2, <2>4 DEF PartitionInTime
<1>2. QED
  BY <1>1, ClusteredInitial, ClusteredStep, PTL DEF NarrationSpec

-----------------------------------------------------------------------------
(* The order of the source.                                                *)

\* No two alerts have the same key.
KeysApart(S) == \A a, b \in S : SortKey(a) = SortKey(b) => a = b

\* A list in the order of its keys comes before any other of the same members
\* at no place.
LEMMA NeverSmaller ==
  ASSUME NEW f, NEW g, NEW n,
         Alerted(f), InOrder(f), IsInjective(f),
         Alerted(g), InOrder(g), ToSet(f) = ToSet(g), KeysApart(ToSet(f)),
         n \in DOMAIN f, n \in DOMAIN g, f[n] # g[n],
         \A m \in 1 .. n - 1 : f[m] = g[m]
  PROVE  Lexicographic(SortKey(g[n]), SortKey(f[n]))
<1>1. /\ Len(f) \in Nat /\ DOMAIN f = 1 .. Len(f) /\ \A i \in DOMAIN f : f[i] \in ToSet(f)
      /\ Len(g) \in Nat /\ DOMAIN g = 1 .. Len(g) /\ \A i \in DOMAIN g : g[i] \in ToSet(g)
  BY IsList DEF Alerted
<1>2. PICK m \in DOMAIN g : f[n] = g[m]
  BY <1>1 DEF ToSet
<1>3. m > n
  <2>1. ASSUME m < n PROVE FALSE
    <3>1. f[m] = g[m] /\ m \in DOMAIN f
      BY <1>1, <2>1
    <3>2. QED
      BY <1>1, <1>2, <2>1, <3>1 DEF IsInjective
  <2>2. QED
    BY <1>1, <1>2, <2>1
<1>4. ~Lexicographic(SortKey(g[m]), SortKey(g[n]))
  BY <1>3 DEF InOrder
<1>5. PICK x \in [1 .. 4 -> Int], y \in [1 .. 4 -> Int] :
        x = SortKey(f[n]) /\ y = SortKey(g[n])
  BY KeyType DEF Alerted
<1>6. x # y
  BY <1>1, <1>5 DEF KeysApart
<1>7. Lexicographic(x, y) \/ Lexicographic(y, x) \/ x = y
  BY LexicographicOrders
<1>8. QED
  BY <1>2, <1>4, <1>5, <1>6, <1>7

LEMMA SameOrder ==
  ASSUME NEW f, NEW g, Alerted(f), InOrder(f), IsInjective(f),
         Alerted(g), InOrder(g), IsInjective(g), Len(f) = Len(g),
         ToSet(f) = ToSet(g), KeysApart(ToSet(f))
  PROVE  f = g
<1>1. /\ Len(f) \in Nat /\ DOMAIN f = 1 .. Len(f) /\ DOMAIN g = 1 .. Len(f)
  BY IsList DEF Alerted
<1>2. \A n \in 1 .. Len(f) : f[n] = g[n]
  <2>. DEFINE apart == {n \in 1 .. Len(f) : f[n] # g[n]}
  <2>1. SUFFICES ASSUME apart # {} PROVE FALSE
    OBVIOUS
  <2>2. apart \subseteq Nat
    BY <1>1
  <2>3. PICK n \in apart : \A m \in apart : n <= m
    <3>. HIDE DEF apart
    <3>1. QED
      BY <2>1, <2>2, LeastExists
  <2>4. n \in 1 .. Len(f) /\ f[n] # g[n] /\ \A m \in 1 .. n - 1 : f[m] = g[m]
    <3>1. ASSUME NEW m \in 1 .. n - 1, f[m] # g[m] PROVE FALSE
      <4>1. m \in apart
        BY <1>1, <2>3, <3>1
      <4>2. n <= m /\ n \in Int
        BY <1>1, <2>3, <4>1
      <4>3. QED
        BY <4>2
    <3>2. QED
      BY <2>3, <3>1
  <2>5. /\ Lexicographic(SortKey(g[n]), SortKey(f[n]))
        /\ Lexicographic(SortKey(f[n]), SortKey(g[n]))
    BY <1>1, <2>4, NeverSmaller
  <2>6. PICK x \in [1 .. 4 -> Int], y \in [1 .. 4 -> Int] :
          x = SortKey(f[n]) /\ y = SortKey(g[n])
    BY <1>1, <2>4, KeyType DEF Alerted
  <2>7. ~(Lexicographic(x, y) /\ Lexicographic(y, x))
    BY LexicographicOrders
  <2>8. QED
    BY <2>5, <2>6, <2>7
<1>3. f \in Seq(ToSet(f)) /\ g \in Seq(ToSet(f))
  BY DEF Alerted
<1>4. QED
  BY <1>1, <1>2, <1>3, SeqEqual

\* Of any two lists of the same alerts the sorted ones are equal.
LEMMA SortingForgets ==
  ASSUME NEW s, Alerted(s), IsInjective(s), NEW t, Alerted(t), IsInjective(t),
         Len(s) = Len(t), ToSet(s) = ToSet(t), KeysApart(ToSet(s))
  PROVE  SortedAlerts(s) = SortedAlerts(t)
<1>1. /\ Alerted(SortedAlerts(s)) /\ InOrder(SortedAlerts(s)) /\ IsInjective(SortedAlerts(s))
      /\ Len(SortedAlerts(s)) = Len(s) /\ ToSet(SortedAlerts(s)) = ToSet(s)
  BY SortingAlerts
<1>2. /\ Alerted(SortedAlerts(t)) /\ InOrder(SortedAlerts(t)) /\ IsInjective(SortedAlerts(t))
      /\ Len(SortedAlerts(t)) = Len(t) /\ ToSet(SortedAlerts(t)) = ToSet(t)
  BY SortingAlerts
<1>3. QED
  BY <1>1, <1>2, SameOrder

\* A list of a list's members is one of the same alerts, in whatever order.
LEMMA AnyOrder ==
  ASSUME NEW s, Alerted(s), IsInjective(s)
  PROVE  LET t == SetToSeq(ToSet(s))
         IN  /\ Alerted(t) /\ IsInjective(t) /\ Len(t) = Len(s) /\ ToSet(t) = ToSet(s)
<1>. DEFINE S == ToSet(s)  N == Len(s)  t == SetToSeq(S)
<1>1. N \in Nat /\ DOMAIN s = 1 .. N /\ s \in [1 .. N -> S]
  BY IsList, LenProperties DEF Alerted
<1>2. \A a \in S : Timed(a) /\ \E i \in 1 .. N : s[i] = a
  BY <1>1 DEF ToSet, Alerted
<1>. HIDE DEF S, N
<1>3. IsFiniteSet(1 .. N) /\ Cardinality(1 .. N) = N
  <2>1. IsFiniteSet(1 .. N) /\ Cardinality(1 .. N) = IF 1 > N THEN 0 ELSE N - 1 + 1
    BY <1>1, FS_Interval
  <2>2. QED
    BY <1>1, <2>1
<1>4. IsFiniteSet(S) /\ Cardinality(S) = N
  <2>1. s \in Injection(1 .. N, S) /\ s \in Surjection(1 .. N, S)
    BY <1>1, <1>2 DEF Injection, Surjection, IsInjective
  <2>2. QED
    BY <1>3, <2>1, FS_Surjection
<1>5. t \in [1 .. N -> S] /\ IsInjective(t)
  <2>1. \E f \in [1 .. Cardinality(S) -> S] : IsInjective(f)
    BY <1>1, <1>4
  <2>2. t \in [1 .. Cardinality(S) -> S] /\ IsInjective(t)
    BY <2>1 DEF SetToSeq
  <2>3. QED
    BY <1>4, <2>2
<1>. HIDE DEF t
<1>6. \A a \in S : \E i \in 1 .. N : t[i] = a
  <2>1. t \in Injection(1 .. N, S)
    BY <1>5 DEF Injection, IsInjective
  <2>2. t \in Surjection(1 .. N, S)
    BY <1>3, <1>4, <2>1, FS_Injection
  <2>3. QED
    BY <2>2 DEF Surjection
<1>7. ToSet(t) = S /\ DOMAIN t = 1 .. N
  BY <1>5, <1>6 DEF ToSet
<1>8. t \in Seq(S) /\ Len(t) = N
  BY <1>1, <1>5, SeqDef, LenProperties
<1>9. Alerted(t)
  BY <1>2, <1>5, <1>7, <1>8 DEF Alerted
<1>10. QED
  BY <1>5, <1>7, <1>8, <1>9 DEF t, S, N

LEMMA AlertsApart ==
  ASSUME Batched(batch) PROVE KeysApart(ToSet(Alerts))
<1>1. \A i \in DOMAIN batch : batch[i] \in Events
  BY LenProperties DEF Batched
<1>2. SUFFICES ASSUME NEW a \in ToSet(Alerts), NEW b \in ToSet(Alerts),
                      SortKey(a) = SortKey(b)
               PROVE  a = b
  BY DEF KeysApart
<1>3. PICK d \in Events, e \in Events : a = Normalize(d) /\ b = Normalize(e)
  <2>1. /\ \E i \in DOMAIN batch : a = Normalize(batch[i])
        /\ \E i \in DOMAIN batch : b = Normalize(batch[i])
    BY DEF Alerts, ToSet
  <2>2. QED
    BY <1>1, <2>1
<1>4. a.id = AlertId(d) /\ b.id = AlertId(e)
  BY <1>3, NormalizedFields
<1>5. a.id[1] = b.id[1] /\ a.id[2] = b.id[2] /\ a.id[3] = b.id[3]
  BY <1>2 DEF SortKey
<1>6. AlertId(d) = AlertId(e)
  BY <1>4, <1>5 DEF AlertId
<1>7. QED
  BY <1>3, <1>6, EventConstants

\* Clustering gives every order of the source the same candidates.
LEMMA ClusteringForgets ==
  ASSUME Batched(batch)
  PROVE  Cluster(Alerts) = Cluster(SetToSeq(ToSet(Alerts)))
<1>. DEFINE t == SetToSeq(ToSet(Alerts))
<1>1. Alerted(Alerts) /\ IsInjective(Alerts) /\ KeysApart(ToSet(Alerts))
  BY AlertsOfBatch, AlertsApart
<1>2. Alerted(t) /\ IsInjective(t) /\ Len(t) = Len(Alerts) /\ ToSet(t) = ToSet(Alerts)
  BY <1>1, AnyOrder
<1>3. SortedAlerts(Alerts) = SortedAlerts(t)
  BY <1>1, <1>2, SortingForgets
<1>4. QED
  BY <1>3 DEF Cluster

\* What clustering makes of the batch, which is all that the candidates are.
Made == IF Alone THEN <<ToCandidate(NewCluster(Alerts[1]), 0)>> ELSE Cluster(Alerts)
OrderInv == Batched(batch) /\ (phase # "start" => candidates = Made)

LEMMA MadeKept ==
  ASSUME UNCHANGED <<use, batch>> PROVE Made' = Made
BY AlertsKept DEF Made, Alone

LEMMA OrderStep ==
  ASSUME OrderInv, [NarrationNext]_everything PROVE OrderInv'
<1>1. ASSUME UNCHANGED <<run, candidates>>, phase # "start" \/ UNCHANGED phase
      PROVE  OrderInv'
  BY <1>1, MadeKept DEF OrderInv, run
<1>2. ASSUME ClusterAlerts PROVE OrderInv'
  BY <1>2, MadeKept DEF ClusterAlerts, OrderInv, Made, run
<1>3. ASSUME Next PROVE OrderInv'
  BY <1>1, <1>2, <1>3, RunsGoOn DEF vars
<1>4. ASSUME NEW item, NEW v, NEW s, Record(item, v, s) PROVE OrderInv'
  BY <1>1, <1>4 DEF Record, vars
<1>5. ASSUME NEW item, PromoteReview(item) PROVE OrderInv'
  BY <1>5, FixtureBatched DEF PromoteReview, OrderInv
<1>6. QED
  BY <1>1, <1>3, <1>4, <1>5, NarrationStays DEF CalibrationNext, allVars, vars

\* The candidates are the same, ids included, in whatever order the source
\* returned the alerts.
THEOREM OrderOfTheSourceIsIrrelevant == NarrationSpec => []OrderIrrelevant
<1>1. NarrationInit => OrderInv
  BY ClusteredInitial DEF ClusteredInv, OrderInv, NarrationInit, CalibrationInit, Init
<1>2. OrderInv => OrderIrrelevant
  BY ClusteringForgets DEF OrderInv, OrderIrrelevant, Made
<1>3. QED
  BY <1>1, <1>2, OrderStep, PTL DEF NarrationSpec

-----------------------------------------------------------------------------
(* Incidents.                                                              *)

\* The groups have the first n items of a list, each once, and no others.
Held(gs, s, n) ==
    /\ gs \in Seq(ToSet(gs))
    /\ \A i \in DOMAIN gs : gs[i].items \in Seq(ToSet(gs[i].items))
    /\ \A i \in DOMAIN gs : \A x \in ToSet(gs[i].items) : \E m \in 1 .. n : x = s[m]
    /\ \A m \in 1 .. n : \E i \in DOMAIN gs : s[m] \in ToSet(gs[i].items)
    /\ \A i, j \in DOMAIN gs : i # j => ToSet(gs[i].items) \cap ToSet(gs[j].items) = {}

LEMMA JoinedHas ==
  ASSUME NEW g, g.items \in Seq(ToSet(g.items)), NEW item
  PROVE  /\ Joined(g, item).items \in Seq(ToSet(Joined(g, item).items))
         /\ ToSet(Joined(g, item).items) = ToSet(g.items) \cup {item}
<1>1. Joined(g, item).items = Append(g.items, item)
  BY DEF Joined
<1>2. QED
  BY <1>1, AppendKeeps

LEMMA PlacingCandidate ==
  ASSUME NEW s, Len(s) \in Nat, DOMAIN s = 1 .. Len(s), IsInjective(s), NEW n \in DOMAIN s,
         NEW gs, Held(gs, s, n - 1)
  PROVE  Held(PlaceCandidate(gs, s[n]), s, n)
<1>. DEFINE a == s[n]  new == PlaceCandidate(gs, a)
            fitting == {i \in DOMAIN gs : TakesCandidate(a.candidate, gs[i])}
<1>1. /\ gs \in Seq(ToSet(gs))
      /\ \A i \in DOMAIN gs : gs[i].items \in Seq(ToSet(gs[i].items))
      /\ \A i \in DOMAIN gs : \A x \in ToSet(gs[i].items) : \E m \in 1 .. n - 1 : x = s[m]
      /\ \A m \in 1 .. n - 1 : \E i \in DOMAIN gs : s[m] \in ToSet(gs[i].items)
      /\ \A i, j \in DOMAIN gs : i # j => ToSet(gs[i].items) \cap ToSet(gs[j].items) = {}
  BY DEF Held
<1>2. Len(gs) \in Nat /\ DOMAIN gs = 1 .. Len(gs)
  BY <1>1, IsList
<1>3. \A i \in DOMAIN gs : a \notin ToSet(gs[i].items)
  <2>1. ASSUME NEW i \in DOMAIN gs, a \in ToSet(gs[i].items) PROVE FALSE
    <3>1. PICK m \in 1 .. n - 1 : a = s[m]
      BY <1>1, <2>1
    <3>2. m \in DOMAIN s /\ m # n
      OBVIOUS
    <3>3. QED
      BY <3>1, <3>2 DEF IsInjective
  <2>2. QED
    BY <2>1
<1>4. PICK f, g :
        /\ g.items \in Seq(ToSet(g.items)) /\ f \in DOMAIN new /\ f \in Nat
        /\ DOMAIN new = DOMAIN gs \cup {f} /\ new \in Seq(ToSet(new))
        /\ new[f] = g /\ \A i \in DOMAIN gs : i # f => new[i] = gs[i]
        /\ ToSet(g.items) = {a} \cup IF f \in DOMAIN gs THEN ToSet(gs[f].items) ELSE {}
  <2>1. CASE fitting = {}
    <3>. DEFINE c == Joined(NewGroup, a)
    <3>1. new = Append(gs, c)
      BY <2>1 DEF PlaceCandidate
    <3>2. c.items \in Seq(ToSet(c.items)) /\ ToSet(c.items) = {a}
      <4>1. NewGroup.items = <<>> /\ <<>> \in Seq(ToSet(<<>>)) /\ ToSet(<<>>) = {}
        BY EmptySeq DEF NewGroup, ToSet
      <4>2. NewGroup.items \in Seq(ToSet(NewGroup.items))
        BY <4>1
      <4>3. /\ c.items \in Seq(ToSet(c.items))
            /\ ToSet(c.items) = ToSet(NewGroup.items) \cup {a}
        BY <4>2, JoinedHas
      <4>4. QED
        BY <4>1, <4>3
    <3>. HIDE DEF c, new, a
    <3>3. /\ new \in Seq(ToSet(new)) /\ DOMAIN new = 1 .. Len(gs) + 1
          /\ \A i \in DOMAIN gs : new[i] = gs[i]
          /\ new[Len(gs) + 1] = c
      BY <1>1, <3>1, AppendKeeps
    <3>4. Len(gs) + 1 \notin DOMAIN gs /\ DOMAIN new = DOMAIN gs \cup {Len(gs) + 1}
      BY <1>2, <3>3
    <3>5. PICK k : k = Len(gs) + 1
      OBVIOUS
    <3>6. /\ c.items \in Seq(ToSet(c.items)) /\ k \in DOMAIN new /\ k \in Nat
          /\ DOMAIN new = DOMAIN gs \cup {k} /\ new \in Seq(ToSet(new))
          /\ new[k] = c /\ \A i \in DOMAIN gs : i # k => new[i] = gs[i]
          /\ ToSet(c.items) = {a} \cup IF k \in DOMAIN gs THEN ToSet(gs[k].items) ELSE {}
      BY <1>2, <3>2, <3>3, <3>4, <3>5
    <3>7. QED
      BY <3>6
  <2>2. CASE fitting # {}
    <3>1. Max(fitting) \in fitting
      BY <1>2, <2>2, MaxIsIn
    <3>2. PICK k \in DOMAIN gs : k = Max(fitting)
      BY <3>1
    <3>3. PICK d : d = Joined(gs[k], a)
      OBVIOUS
    <3>4. gs[k].items \in Seq(ToSet(gs[k].items))
      BY <1>1, <3>2
    <3>5. d.items \in Seq(ToSet(d.items)) /\ ToSet(d.items) = ToSet(gs[k].items) \cup {a}
      BY <3>3, <3>4, JoinedHas
    <3>6. new = [gs EXCEPT ![k] = d]
      BY <2>2, <3>2, <3>3 DEF PlaceCandidate
    <3>. HIDE DEF new, a
    <3>7. /\ DOMAIN new = DOMAIN gs /\ new[k] = d
          /\ \A i \in DOMAIN gs : i # k => new[i] = gs[i]
      BY <3>2, <3>6
    <3>8. new \in Seq(ToSet(new))
      <4>1. new = [i \in 1 .. Len(gs) |-> new[i]]
        BY <1>2, <3>6
      <4>2. QED
        BY <1>2, <4>1, ListOf
    <3>9. /\ d.items \in Seq(ToSet(d.items)) /\ k \in DOMAIN new /\ k \in Nat
          /\ DOMAIN new = DOMAIN gs \cup {k} /\ new \in Seq(ToSet(new))
          /\ new[k] = d /\ \A i \in DOMAIN gs : i # k => new[i] = gs[i]
          /\ ToSet(d.items) = {a} \cup IF k \in DOMAIN gs THEN ToSet(gs[k].items) ELSE {}
      <4>1. DOMAIN new = DOMAIN gs \cup {k} /\ k \in Nat /\ k \in DOMAIN new
        <5>1. DOMAIN new = DOMAIN gs /\ k \in DOMAIN gs
          BY <3>2, <3>7
        <5>2. k \in 1 .. Len(gs)
          BY <1>2, <3>2
        <5>3. QED
          BY <1>2, <5>1, <5>2
      <4>2. ToSet(d.items) = {a} \cup IF k \in DOMAIN gs THEN ToSet(gs[k].items) ELSE {}
        BY <3>2, <3>5
      <4>3. QED
        BY <3>5, <3>7, <3>8, <4>1, <4>2
    <3>10. QED
      BY <3>9
  <2>3. QED
    BY <2>1, <2>2
<1>. HIDE DEF new, fitting
<1>5. \A i \in DOMAIN new : new[i].items \in Seq(ToSet(new[i].items))
  BY <1>1, <1>4
<1>6. ASSUME NEW i \in DOMAIN new, NEW x \in ToSet(new[i].items)
      PROVE  \E m \in 1 .. n : x = s[m]
  <2>1. CASE x = a
    BY <2>1
  <2>2. CASE x # a
    <3>1. i \in DOMAIN gs /\ x \in ToSet(gs[i].items)
      BY <1>4, <1>6, <2>2
    <3>2. PICK m \in 1 .. n - 1 : x = s[m]
      BY <1>1, <3>1
    <3>3. QED
      BY <3>2
  <2>3. QED
    BY <2>1, <2>2
<1>7. ASSUME NEW m \in 1 .. n
      PROVE  \E i \in DOMAIN new : s[m] \in ToSet(new[i].items)
  <2>1. CASE m = n
    BY <1>4, <2>1
  <2>2. CASE m # n
    <3>1. PICK i \in DOMAIN gs : s[m] \in ToSet(gs[i].items)
      BY <1>1, <2>2
    <3>2. i \in DOMAIN new /\ s[m] \in ToSet(new[i].items)
      BY <1>4, <3>1
    <3>3. QED
      BY <3>2
  <2>3. QED
    BY <2>1, <2>2
<1>8. ASSUME NEW i \in DOMAIN new, NEW j \in DOMAIN new, i # j
      PROVE  ToSet(new[i].items) \cap ToSet(new[j].items) = {}
  <2>1. CASE i # f /\ j # f
    <3>1. i \in DOMAIN gs /\ j \in DOMAIN gs /\ new[i] = gs[i] /\ new[j] = gs[j]
      BY <1>4, <2>1
    <3>2. QED
      BY <1>1, <1>8, <3>1
  <2>2. ASSUME NEW k \in DOMAIN new, k # f
        PROVE  ToSet(new[f].items) \cap ToSet(new[k].items) = {}
    <3>1. k \in DOMAIN gs /\ new[k] = gs[k] /\ a \notin ToSet(gs[k].items)
      BY <1>3, <1>4, <2>2
    <3>2. f \in DOMAIN gs => ToSet(gs[f].items) \cap ToSet(gs[k].items) = {}
      BY <1>1, <2>2, <3>1
    <3>3. QED
      BY <1>4, <3>1, <3>2
  <2>3. QED
    BY <1>8, <2>1, <2>2
<1>9. QED
  BY <1>4, <1>5, <1>6, <1>7, <1>8 DEF Held, new

\* As for alerts: placing one after the other is defined.
LEMMA PlacingCandidates ==
  ASSUME NEW s, Len(s) \in Nat
  PROVE  \E after :
            /\ after[0] = <<>>
            /\ \A n \in 1 .. Len(s) : after[n] = PlaceCandidate(after[n - 1], s[n])
            /\ Groups(s) = after[Len(s)]
<1>. DEFINE Solves(f, m) ==
              f = [n \in 0 .. m |-> IF n = 0 THEN <<>> ELSE PlaceCandidate(f[n - 1], s[n])]
            bad == {m \in 0 .. Len(s) : ~\E f : Solves(f, m)}
<1>1. bad = {}
  <2>1. SUFFICES ASSUME bad # {} PROVE FALSE
    OBVIOUS
  <2>2. PICK m \in bad : \A k \in bad : m <= k
    <3>1. bad \subseteq Nat
      OBVIOUS
    <3>. HIDE DEF bad
    <3>2. QED
      BY <2>1, <3>1, LeastExists
  <2>3. m # 0
    <3>1. Solves([n \in 0 .. 0 |-> <<>>], 0)
      OBVIOUS
    <3>2. QED
      BY <3>1
  <2>4. m - 1 \in 0 .. Len(s) /\ m - 1 \notin bad
    BY <2>2, <2>3
  <2>5. PICK f : Solves(f, m - 1)
    BY <2>4
  <2>. DEFINE g == [n \in 0 .. m |-> IF n = m THEN PlaceCandidate(f[m - 1], s[m]) ELSE f[n]]
  <2>6. \A n \in 0 .. m - 1 : f[n] = IF n = 0 THEN <<>> ELSE PlaceCandidate(f[n - 1], s[n])
    BY <2>5
  <2>7. \A n \in 0 .. m : g[n] = IF n = 0 THEN <<>> ELSE PlaceCandidate(g[n - 1], s[n])
    BY <2>2, <2>3, <2>6
  <2>8. Solves(g, m)
    <3>1. g = [n \in 0 .. m |-> g[n]]
      OBVIOUS
    <3>. HIDE DEF g
    <3>2. QED
      BY <2>7, <3>1
  <2>9. QED
    BY <2>2, <2>8
<1>2. \E f : Solves(f, Len(s))
  BY <1>1
<1>. DEFINE after == CHOOSE f : Solves(f, Len(s))
<1>3. Solves(after, Len(s))
  BY <1>2
<1>4. Groups(s) = after[Len(s)]
  BY DEF Groups
<1>. HIDE DEF after
<1>5. \A n \in 0 .. Len(s) :
         after[n] = IF n = 0 THEN <<>> ELSE PlaceCandidate(after[n - 1], s[n])
  BY <1>3
<1>6. after[0] = <<>>
  BY <1>5
<1>7. \A n \in 1 .. Len(s) : after[n] = PlaceCandidate(after[n - 1], s[n])
  BY <1>5
<1>8. QED
  BY <1>4, <1>6, <1>7

LEMMA GroupsHold ==
  ASSUME NEW s, Len(s) \in Nat, DOMAIN s = 1 .. Len(s), IsInjective(s)
  PROVE  Held(Groups(s), s, Len(s))
<1>1. PICK after : /\ after[0] = <<>>
                   /\ \A n \in 1 .. Len(s) : after[n] = PlaceCandidate(after[n - 1], s[n])
                   /\ Groups(s) = after[Len(s)]
  BY PlacingCandidates
<1>. DEFINE bad == {n \in 0 .. Len(s) : ~Held(after[n], s, n)}
<1>2. Held(<<>>, s, 0)
  <2>1. <<>> \in Seq(ToSet(<<>>)) /\ DOMAIN <<>> = {}
    BY EmptySeq
  <2>2. QED
    BY <2>1 DEF Held
<1>3. bad = {}
  <2>1. SUFFICES ASSUME bad # {} PROVE FALSE
    OBVIOUS
  <2>2. PICK n \in bad : \A k \in bad : n <= k
    <3>1. bad \subseteq Nat
      OBVIOUS
    <3>. HIDE DEF bad
    <3>2. QED
      BY <2>1, <3>1, LeastExists
  <2>3. n # 0
    BY <1>1, <1>2, <2>2
  <2>4. n - 1 \in 0 .. Len(s) /\ n - 1 \notin bad /\ n \in DOMAIN s
    BY <2>2, <2>3
  <2>5. Held(after[n - 1], s, n - 1)
    BY <2>4
  <2>6. Held(after[n], s, n)
    BY <1>1, <2>4, <2>5, PlacingCandidate
  <2>7. QED
    BY <2>2, <2>6
<1>4. QED
  BY <1>1, <1>3

\* Each of the items that qualify is in one incident, and no other item is in any.
Grouped(made, list, places) ==
    /\ \A p \in places : \E i \in DOMAIN made : \A j \in DOMAIN made :
          list[p] \in ToSet(made[j].items) <=> j = i
    /\ \A i \in DOMAIN made : \A x \in ToSet(made[i].items) : \E p \in places : x = list[p]
    /\ \A i \in DOMAIN made :
          \E group : made[i] = ToIncident(group, i) /\ group.items \in Seq(ToSet(group.items))

LEMMA GroupParts ==
  ASSUME NEW list, IsInjective(list), NEW places, places \subseteq DOMAIN list,
         IsFiniteSet(places), places \subseteq Nat,
         Keyed(places, [i \in DOMAIN list |-> CandidateKey(list[i].candidate)])
  PROVE  Grouped(Group(list, places), list, places)
<1>. DEFINE keys == [i \in DOMAIN list |-> CandidateKey(list[i].candidate)]
            s == Sorted(list, places, keys)  N == Cardinality(places)
            gs == Groups(s)  made == Group(list, places)
<1>1. /\ DOMAIN made = DOMAIN gs
      /\ \A i \in DOMAIN gs : made[i] = ToIncident(gs[i], i) /\ made[i].items = gs[i].items
  BY DEF Group, ToIncident
<1>. HIDE DEF keys, gs, made
<1>2. N \in Nat /\ DOMAIN s = 1 .. N /\ \E order : Arranges(order, list, places, keys)
  BY SortingFollows DEF keys
<1>3. PICK order \in [1 .. N -> places] :
        /\ \A n \in 1 .. N : s[n] = list[order[n]] /\ Rank(places, keys, order[n]) = n
        /\ \A i \in places : \E n \in 1 .. N : order[n] = i
  BY <1>2 DEF Arranges
<1>4. s = [n \in 1 .. N |-> s[n]]
  BY DEF Sorted
<1>. HIDE DEF s, N
<1>5. Len(s) = N
  BY <1>2, <1>4, ListOf
<1>6. IsInjective(s)
  <2>1. ASSUME NEW m \in 1 .. N, NEW n \in 1 .. N, s[m] = s[n] PROVE m = n
    <3>1. order[m] = order[n]
      BY <1>3, <2>1 DEF IsInjective
    <3>2. QED
      BY <1>3, <3>1
  <2>2. QED
    BY <1>2, <2>1 DEF IsInjective
<1>7. Held(gs, s, N)
  BY <1>2, <1>5, <1>6, GroupsHold DEF gs
<1>8. ASSUME NEW p \in places
      PROVE  \E i \in DOMAIN made : \A j \in DOMAIN made :
                list[p] \in ToSet(made[j].items) <=> j = i
  <2>1. PICK n \in 1 .. N : s[n] = list[p]
    BY <1>3
  <2>2. PICK i \in DOMAIN gs : list[p] \in ToSet(gs[i].items)
    BY <1>7, <2>1 DEF Held
  <2>3. \A j \in DOMAIN gs : list[p] \in ToSet(gs[j].items) <=> j = i
    BY <1>7, <2>2 DEF Held
  <2>4. QED
    BY <1>1, <2>3
<1>9. ASSUME NEW i \in DOMAIN made, NEW x \in ToSet(made[i].items)
      PROVE  \E p \in places : x = list[p]
  <2>1. i \in DOMAIN gs /\ x \in ToSet(gs[i].items)
    BY <1>1, <1>9
  <2>2. PICK n \in 1 .. N : x = s[n]
    BY <1>7, <2>1 DEF Held
  <2>3. QED
    BY <1>3, <2>2
<1>10. ASSUME NEW i \in DOMAIN made
       PROVE  \E group : made[i] = ToIncident(group, i) /\ group.items \in Seq(ToSet(group.items))
  BY <1>1, <1>7 DEF Held
<1>11. QED
  BY <1>8, <1>9, <1>10 DEF Grouped, made

-----------------------------------------------------------------------------
(* Scores.                                                                 *)

LEMMA FiniteImage ==
  ASSUME NEW S, IsFiniteSet(S), NEW f
  PROVE  IsFiniteSet({f[x] : x \in S})
<1>. DEFINE T == {f[x] : x \in S}  g == [x \in S |-> f[x]]
<1>1. g \in Surjection(S, T)
  BY DEF Surjection
<1>2. QED
  BY <1>1, FS_Surjection

LEMMA ClampIs ==
  ASSUME NEW n \in Int
  PROVE  /\ Clamp(n) \in 1 .. 10
         /\ n \in 1 .. 10 => Clamp(n) = n
         /\ n > 10 => Clamp(n) = 10
         /\ n < 1 => Clamp(n) = 1
<1>1. PICK low \in Int : low = Min({10, n}) /\ low = IF 10 <= n THEN 10 ELSE n
  BY MinOfTwo
<1>2. Clamp(n) = Max({1, low})
  BY <1>1 DEF Clamp
<1>3. Max({1, low}) = IF 1 <= low THEN low ELSE 1
  BY MaxOfTwo
<1>4. QED
  BY <1>1, <1>2, <1>3

LEMMA PointsIs ==
  ASSUME NEW n \in Nat, NEW condition
  PROVE  Points(condition, n) \in 0 .. n
BY DEF Points

LEMMA BoostIs ==
  ASSUME NEW es, IsFiniteSet(es)
  PROVE  EnrichmentBoost(es) \in 0 .. 3
<1>. DEFINE S(n) == {e \in es : EnrichmentPoints(e) >= n}
<1>1. Cardinality(S(1)) \in Nat /\ Cardinality(S(2)) \in Nat
  <2>1. S(1) \in SUBSET es /\ S(2) \in SUBSET es
    OBVIOUS
  <2>2. IsFiniteSet(S(1)) /\ IsFiniteSet(S(2))
    BY <2>1, FS_Subset
  <2>3. QED
    BY <2>2, FS_CardinalityType
<1>2. EnrichmentBoost(es) = Min({3, Cardinality(S(1)) + Cardinality(S(2))})
  BY DEF EnrichmentBoost
<1>. HIDE DEF S
<1>3. PICK m \in Nat : m = Cardinality(S(1)) + Cardinality(S(2))
  BY <1>1
<1>4. Min({3, m}) = IF 3 <= m THEN 3 ELSE m
  BY MinOfTwo
<1>5. QED
  BY <1>2, <1>3, <1>4

LEMMA AssetBoostIs ==
  ASSUME NEW asset PROVE AssetBoost(asset) \in 0 .. 3
<1>1. PICK p \in Nat : p = Points(asset.criticality = "critical", 2)
                           + Points(asset.criticality = "high", 1)
  <2>1. /\ Points(asset.criticality = "critical", 2) \in 0 .. 2
        /\ Points(asset.criticality = "high", 1) \in 0 .. 1
    BY PointsIs
  <2>2. QED
    BY <2>1
<1>2. PICK q \in Nat : q = Points(p > 0 /\ asset.facing, 1)
  <2>1. Points(p > 0 /\ asset.facing, 1) \in 0 .. 1
    BY PointsIs
  <2>2. QED
    BY <2>1
<1>3. AssetBoost(asset) = Min({3, p + q})
  BY <1>1, <1>2 DEF AssetBoost
<1>4. Min({3, p + q}) = IF 3 <= p + q THEN 3 ELSE p + q
  BY MinOfTwo
<1>5. QED
  BY <1>3, <1>4

\* An alert's own score, which enrichments only raise.
LEMMA AlertScores ==
  ASSUME NEW a, a.severity \in DOMAIN BaseScore, NEW es, IsFiniteSet(es)
  PROVE  /\ ScoreAlert(a, es) \in 1 .. 10
         /\ a.severity = "critical" => ScoreAlert(a, es) >= 8
<1>1. BaseScore[a.severity] \in 1 .. 8
      /\ (a.severity = "critical" => BaseScore[a.severity] = 8)
  BY DEF BaseScore
<1>2. PICK high, medium, out \in Nat :
        /\ high = Points(~Disjoint(Searchable(a), HighRiskTerms), 2)
        /\ medium = Points(~Disjoint(Searchable(a), MediumRiskTerms), 1)
        /\ out = Points(a.dst \notin PrivateAddresses \cup {NoText}, 1)
  <2>1. /\ Points(~Disjoint(Searchable(a), HighRiskTerms), 2) \in 0 .. 2
        /\ Points(~Disjoint(Searchable(a), MediumRiskTerms), 1) \in 0 .. 1
        /\ Points(a.dst \notin PrivateAddresses \cup {NoText}, 1) \in 0 .. 1
    BY PointsIs
  <2>2. QED
    BY <2>1
<1>3. PICK logon, volume, found \in Nat :
        logon = LogonTypeBoost(a) /\ volume = VolumeBoost(a) /\ found = EnrichmentBoost(es)
  <2>1. /\ Points(a.logon = "10", 2) \in 0 .. 2 /\ Points(a.logon = "2", 1) \in 0 .. 1
        /\ Points(a.bytes >= 1, 1) \in 0 .. 1 /\ Points(a.bytes >= 10, 1) \in 0 .. 1
    BY PointsIs
  <2>2. LogonTypeBoost(a) \in Nat /\ VolumeBoost(a) \in Nat
    BY <2>1 DEF LogonTypeBoost, VolumeBoost
  <2>3. EnrichmentBoost(es) \in Nat
    BY BoostIs
  <2>4. QED
    BY <2>2, <2>3
<1>4. PICK damping \in {-1, 0} :
        /\ damping = FrequencyDamping(a)
        /\ a.severity = "critical" => damping = 0
  <2>. DEFINE rare == a.severity \notin {"high", "critical"} /\ a.fired >= 1000
  <2>1. Points(rare, 1) \in 0 .. 1 /\ (~rare => Points(rare, 1) = 0)
    BY DEF Points
  <2>2. FrequencyDamping(a) = -Points(rare, 1)
    BY DEF FrequencyDamping
  <2>3. a.severity = "critical" => ~rare
    OBVIOUS
  <2>. HIDE DEF rare
  <2>4. FrequencyDamping(a) \in {-1, 0} /\ (a.severity = "critical" => FrequencyDamping(a) = 0)
    BY <2>1, <2>2, <2>3
  <2>5. QED
    BY <2>4
<1>5. PICK sum \in Int :
        sum = BaseScore[a.severity] + high + medium + out + logon + volume + found + damping
  BY <1>1
<1>6. ScoreAlert(a, es) = Clamp(sum)
  BY <1>2, <1>3, <1>4, <1>5 DEF ScoreAlert
<1>7. a.severity = "critical" => sum >= 8
  BY <1>1, <1>4, <1>5
<1>. HIDE DEF BaseScore
<1>8. QED
  BY <1>6, <1>7, ClampIs

\* What scoring needs of an alert.
Scorable(a) == a.severity \in DOMAIN BaseScore /\ IsFiniteSet(a.found)

LEMMA NormalizedScorable ==
  ASSUME NEW e \in Events PROVE Scorable(Normalize(e))
<1>1. e.level.kind \in {"none", "number", "word"} /\ IsFiniteSet(e.found)
  BY EventConstants DEF EventTyped
<1>2. \A w : SeverityFromText(w) \in DOMAIN BaseScore
  BY DEF SeverityFromText, BaseScore
<1>3. \A n, t : SeverityFromNumber(n, t) \in DOMAIN BaseScore
  BY DEF SeverityFromNumber, BaseScore
<1>4. SeverityFromTextOrNumber(e.level) \in DOMAIN BaseScore
  <2>1. "unknown" \in DOMAIN BaseScore
    BY DEF BaseScore
  <2>. HIDE DEF BaseScore
  <2>2. QED
    BY <1>1, <1>2, <1>3, <2>1 DEF SeverityFromTextOrNumber
<1>5. SeverityFromWazuhLevel(e.level) \in DOMAIN BaseScore
  BY <1>3, <1>4 DEF SeverityFromWazuhLevel
<1>6. SeverityFromSecurityOnion(e.level) \in DOMAIN BaseScore
  <2>1. {"high", "medium", "low", "info"} \subseteq DOMAIN BaseScore
    BY DEF BaseScore
  <2>2. QED
    BY <1>4, <2>1 DEF SeverityFromSecurityOnion
<1>7. SeverityFromPfAction(e.level) \in DOMAIN BaseScore
  BY DEF SeverityFromPfAction, BaseScore
<1>8. Normalize(e).severity \in DOMAIN BaseScore
  BY <1>4, <1>5, <1>6, <1>7
  DEF Normalize, NormalizeWazuh, NormalizeSecurityOnion, NormalizePf, NormalizeGeneric,
      NormalizeFields
<1>9. QED
  BY <1>1, <1>8, NormalizedFields DEF Scorable

\* What scoring needs of a candidate.
ScorableCandidate(c) ==
    /\ Alerted(c.alerts) /\ Len(c.alerts) # 0 /\ \A a \in ToSet(c.alerts) : Scorable(a)
    /\ c.srcs = {a.src : a \in ToSet(c.alerts)} \ {NoText}
    /\ c.dsts = {a.dst : a \in ToSet(c.alerts)} \ {NoText}

LEMMA MembersFinite ==
  ASSUME NEW s, Alerted(s) PROVE IsFiniteSet(ToSet(s))
<1>1. Len(s) \in Nat /\ DOMAIN s = 1 .. Len(s)
  BY IsList DEF Alerted
<1>2. IsFiniteSet(1 .. Len(s))
  BY <1>1, FS_Interval
<1>3. IsFiniteSet({s[i] : i \in 1 .. Len(s)})
  BY <1>2, FiniteImage
<1>4. QED
  BY <1>1, <1>3 DEF ToSet

LEMMA TextFinite ==
  ASSUME NEW type, NEW v
  PROVE  IsFiniteSet(AppendIndicator(type, v)) /\ IsFiniteSet(TextIndicator(type, v))
<1>1. /\ AppendIndicator(type, v) = {} \/ \E x : AppendIndicator(type, v) = {x}
      /\ TextIndicator(type, v) = {} \/ \E x : TextIndicator(type, v) = {x}
  BY DEF AppendIndicator, TextIndicator
<1>2. IsFiniteSet({}) /\ \A x : IsFiniteSet({x})
  BY FS_EmptySet, FS_Singleton
<1>. HIDE DEF AppendIndicator, TextIndicator
<1>3. IsFiniteSet(AppendIndicator(type, v))
  BY <1>1, <1>2
<1>4. IsFiniteSet(TextIndicator(type, v))
  BY <1>1, <1>2
<1>5. QED
  BY <1>3, <1>4

LEMMA AlertIndicatorsFinite ==
  ASSUME NEW a, Scorable(a) PROVE IsFiniteSet(AlertIndicators(a))
<1>1. PICK s1, s2, s3, s4, s5, s6, s7 :
        /\ s1 = AppendIndicator("ip", a.src) /\ s2 = AppendIndicator("ip", a.dst)
        /\ s3 = TextIndicator("host", ToSet(a.host)) /\ s4 = AppendIndicator("user", a.user)
        /\ s5 = TextIndicator("command", a.command)
        /\ s6 = TextIndicator("process", a.process) /\ s7 = a.found
  OBVIOUS
<1>2. /\ IsFiniteSet(s1) /\ IsFiniteSet(s2) /\ IsFiniteSet(s3) /\ IsFiniteSet(s4)
      /\ IsFiniteSet(s5) /\ IsFiniteSet(s6) /\ IsFiniteSet(s7)
  BY <1>1, TextFinite DEF Scorable
<1>3. AlertIndicators(a) = ((((((s1 \cup s2) \cup s3) \cup s4) \cup s5) \cup s6) \cup s7)
  BY <1>1 DEF AlertIndicators
<1>4. IsFiniteSet(s1 \cup s2)
  BY <1>2, FS_Union
<1>5. IsFiniteSet((s1 \cup s2) \cup s3)
  BY <1>2, <1>4, FS_Union
<1>6. IsFiniteSet(((s1 \cup s2) \cup s3) \cup s4)
  BY <1>2, <1>5, FS_Union
<1>7. IsFiniteSet((((s1 \cup s2) \cup s3) \cup s4) \cup s5)
  BY <1>2, <1>6, FS_Union
<1>8. IsFiniteSet(((((s1 \cup s2) \cup s3) \cup s4) \cup s5) \cup s6)
  BY <1>2, <1>7, FS_Union
<1>9. QED
  BY <1>2, <1>3, <1>8, FS_Union

LEMMA AddressesFinite ==
  ASSUME NEW c, ScorableCandidate(c)
  PROVE  IsFiniteSet(c.srcs) /\ IsFiniteSet(c.dsts)
<1>. DEFINE S == ToSet(c.alerts)  src == [a \in S |-> a.src]  dst == [a \in S |-> a.dst]
<1>1. IsFiniteSet(S)
  BY MembersFinite DEF ScorableCandidate
<1>2. IsFiniteSet({src[a] : a \in S}) /\ IsFiniteSet({dst[a] : a \in S})
  <2>. HIDE DEF src, dst, S
  <2>1. QED
    BY <1>1, FiniteImage
<1>3. c.srcs \in SUBSET {src[a] : a \in S} /\ c.dsts \in SUBSET {dst[a] : a \in S}
  BY DEF ScorableCandidate
<1>. HIDE DEF src, dst, S
<1>4. QED
  BY <1>2, <1>3, FS_Subset

LEMMA CandidateIndicatorsFinite ==
  ASSUME NEW c, ScorableCandidate(c) PROVE IsFiniteSet(CandidateIndicators(c))
<1>. DEFINE S == ToSet(c.alerts)  X == c.srcs \cup c.dsts
            of == [a \in S |-> AlertIndicators(a)]
            ip == [x \in X |-> Indicator("ip", x, {})]
<1>1. IsFiniteSet(S) /\ IsFiniteSet(X) /\ \A a \in S : Scorable(a)
  BY MembersFinite, AddressesFinite, FS_Union DEF ScorableCandidate
<1>. HIDE DEF S, X
<1>2. IsFiniteSet({of[a] : a \in S}) /\ IsFiniteSet({ip[x] : x \in X})
  <2>. HIDE DEF of, ip
  <2>1. QED
    BY <1>1, FiniteImage
<1>3. IsFiniteSet(UNION {of[a] : a \in S})
  <2>1. \A T \in {of[a] : a \in S} : IsFiniteSet(T)
    BY <1>1, AlertIndicatorsFinite
  <2>. HIDE DEF of
  <2>2. QED
    BY <1>2, <2>1, FS_UNION
<1>4. PICK s1, s2, s3, s4 :
        /\ s1 = {ip[x] : x \in X} /\ s2 = TextIndicator("host", ToSet(c.host))
        /\ s3 = AppendIndicator("user", c.user) /\ s4 = UNION {of[a] : a \in S}
  OBVIOUS
<1>5. IsFiniteSet(s1) /\ IsFiniteSet(s2) /\ IsFiniteSet(s3) /\ IsFiniteSet(s4)
  BY <1>2, <1>3, <1>4, TextFinite
<1>6. /\ {ip[x] : x \in X} = {Indicator("ip", x, {}) : x \in X}
      /\ {of[a] : a \in S} = {AlertIndicators(a) : a \in S}
  OBVIOUS
<1>7. CandidateIndicators(c) = ((s1 \cup s2) \cup s3) \cup s4
  <2>1. CandidateIndicators(c) = UNION {s1, s2, s3, s4}
    BY <1>4, <1>6 DEF CandidateIndicators, S, X
  <2>2. QED
    BY <2>1
<1>8. IsFiniteSet(s1 \cup s2)
  BY <1>5, FS_Union
<1>9. IsFiniteSet((s1 \cup s2) \cup s3)
  BY <1>5, <1>8, FS_Union
<1>10. QED
  BY <1>5, <1>7, <1>9, FS_Union

LEMMA EnrichmentsFinite ==
  ASSUME NEW c, ScorableCandidate(c) PROVE IsFiniteSet(EnrichmentsOf(c))
<1>. DEFINE I == IndicatorsOf(c)
            X == {x \in CandidateIndicators(c) : x.type = "ip" /\ x.value \in PublicAddresses}
            local == [i \in I |-> EnrichIndicator(i)]  intel == [i \in X |-> IntelOf(i.value)]
<1>1. IsFiniteSet(I) /\ IsFiniteSet(X)
  <2>1. IsFiniteSet(CandidateIndicators(c)) /\ X \in SUBSET CandidateIndicators(c)
    BY CandidateIndicatorsFinite
  <2>2. Scorable(c.alerts[1])
    <3>1. Len(c.alerts) \in Nat /\ DOMAIN c.alerts = 1 .. Len(c.alerts) /\ Len(c.alerts) # 0
      BY IsList DEF ScorableCandidate, Alerted
    <3>2. c.alerts[1] \in ToSet(c.alerts)
      BY <3>1 DEF ToSet
    <3>3. QED
      BY <3>2 DEF ScorableCandidate
  <2>3. IsFiniteSet(I)
    BY <2>1, <2>2, AlertIndicatorsFinite DEF IndicatorsOf
  <2>4. QED
    BY <2>1, <2>3, FS_Subset
<1>. HIDE DEF I, X
<1>2. IsFiniteSet({local[i] : i \in I}) /\ IsFiniteSet({intel[i] : i \in X})
  <2>. HIDE DEF local, intel
  <2>1. QED
    BY <1>1, FiniteImage
<1>3. IsFiniteSet(Enrich(I))
  <2>1. {local[i] : i \in I} = {EnrichIndicator(i) : i \in I}
    OBVIOUS
  <2>2. QED
    BY <1>2, <2>1, FS_EmptySet DEF Enrich
<1>4. PICK more : /\ IsFiniteSet(more)
                  /\ more = IF use = "evaluation" THEN {} ELSE {IntelOf(i.value) : i \in X}
  <2>1. {intel[i] : i \in X} = {IntelOf(i.value) : i \in X}
    OBVIOUS
  <2>2. IsFiniteSet({IntelOf(i.value) : i \in X})
    BY <1>2, <2>1
  <2>3. CASE use = "evaluation"
    BY <2>3, FS_EmptySet
  <2>4. CASE use # "evaluation"
    BY <2>2, <2>4
  <2>5. QED
    BY <2>3, <2>4
<1>5. EnrichmentsOf(c) = Enrich(I) \cup more
  BY <1>4 DEF EnrichmentsOf, I, X
<1>6. PICK enriched : enriched = Enrich(I) /\ IsFiniteSet(enriched)
  BY <1>3
<1>7. IsFiniteSet(enriched \cup more)
  BY <1>4, <1>6, FS_Union
<1>8. QED
  BY <1>5, <1>6, <1>7

\* A score is one of ten, and what is critical is worth eight whatever else is
\* said of it.
LEMMA CandidateScores ==
  ASSUME NEW c, ScorableCandidate(c), NEW es, IsFiniteSet(es), NEW asset
  PROVE  /\ ScoreCandidate(c, es, asset) \in 1 .. 10
         /\ (\E a \in ToSet(c.alerts) : a.severity = "critical")
               => ScoreCandidate(c, es, asset) \in 8 .. 10
<1>. DEFINE critical == \E a \in ToSet(c.alerts) : a.severity = "critical"
            S == {ScoreAlert(a, {}) : a \in ToSet(c.alerts)}
<1>1. \A a \in ToSet(c.alerts) : /\ ScoreAlert(a, {}) \in 1 .. 10
                                 /\ a.severity = "critical" => ScoreAlert(a, {}) >= 8
  BY AlertScores, FS_EmptySet DEF ScorableCandidate, Scorable
<1>2. S \subseteq 1 .. 10 /\ S # {} /\ (critical => \E n \in S : n >= 8)
  <2>1. S \subseteq 1 .. 10 /\ (critical => \E n \in S : n >= 8)
    BY <1>1
  <2>2. Len(c.alerts) \in Nat /\ DOMAIN c.alerts = 1 .. Len(c.alerts) /\ Len(c.alerts) # 0
    BY IsList DEF ScorableCandidate, Alerted
  <2>3. c.alerts[1] \in ToSet(c.alerts)
    BY <2>2 DEF ToSet
  <2>4. QED
    BY <2>1, <2>3
<1>. HIDE DEF S, critical
<1>3. PICK m \in 1 .. 10 : m = Max(S) /\ (critical => m >= 8)
  <2>1. Max(S) \in S /\ \A n \in S : n <= Max(S)
    BY <1>2, MaxIsIn
  <2>2. PICK x \in 1 .. 10 : x = Max(S)
    BY <1>2, <2>1
  <2>3. ASSUME critical PROVE x >= 8
    <3>1. PICK n \in 1 .. 10 : n >= 8 /\ n <= x
      BY <1>2, <2>1, <2>2, <2>3
    <3>2. QED
      BY <3>1
  <2>4. QED
    BY <2>2, <2>3
<1>4. PICK kinds, spread, user, found, worth \in Nat :
        /\ kinds = Points(Cardinality(Detections(c)) >= 3, 1)
        /\ spread = Points(Cardinality(c.srcs) >= 2 \/ Cardinality(c.dsts) >= 2, 1)
        /\ user = Points(c.user # NoText, 1)
        /\ found = EnrichmentBoost(es) /\ worth = AssetBoost(asset)
  <2>1. /\ Points(Cardinality(Detections(c)) >= 3, 1) \in 0 .. 1
        /\ Points(Cardinality(c.srcs) >= 2 \/ Cardinality(c.dsts) >= 2, 1) \in 0 .. 1
        /\ Points(c.user # NoText, 1) \in 0 .. 1
    BY PointsIs
  <2>2. EnrichmentBoost(es) \in 0 .. 3 /\ AssetBoost(asset) \in 0 .. 3
    BY BoostIs, AssetBoostIs
  <2>3. QED
    BY <2>1, <2>2
<1>5. PICK sum \in Int : sum = m + kinds + spread + user + found + worth
  OBVIOUS
<1>6. ScoreCandidate(c, es, asset) = Clamp(sum)
  BY <1>3, <1>4, <1>5 DEF ScoreCandidate, S
<1>7. critical => sum >= 8
  BY <1>3, <1>5
<1>8. QED
  BY <1>6, <1>7, ClampIs DEF critical

-----------------------------------------------------------------------------
(* What is decided.                                                        *)

\* A decision is on a candidate before this one, on none twice, and routed.
DecidedWell(list, cs, upto) ==
    /\ list \in Seq(ToSet(list))
    /\ \A n \in DOMAIN list :
          LET k == list[n].candidate.id.index
          IN  /\ k \in DOMAIN cs /\ k < upto /\ list[n].candidate = cs[k]
              /\ list[n].action = RoutedAction(list[n].result.score)
    /\ \A m, n \in DOMAIN list :
          m # n => list[m].candidate.id.index # list[n].candidate.id.index

Qualified(list) == {i \in DOMAIN list : Qualifies(list[i])}

PagedInv ==
    /\ ClusteredInv /\ SourceInv /\ current \in Nat \ {0}
    /\ phase = "start" => items = <<>> /\ current = 1
    /\ phase \in {"triage", "asked", "decided"} => current \in DOMAIN candidates
    /\ incidents # <<>> => phase = "done" /\ use = "pipeline"
    /\ use = "pipeline" =>
          /\ phase # "start" => \A i \in DOMAIN candidates : candidates[i].id.index = i
          /\ DecidedWell(items, candidates, current)
          /\ phase = "done" => incidents = Group(items, Qualified(items))

LEMMA NothingDecided ==
  ASSUME NEW cs, NEW upto PROVE DecidedWell(<<>>, cs, upto)
<1>1. <<>> \in Seq(ToSet(<<>>)) /\ DOMAIN <<>> = {}
  BY EmptySeq
<1>2. QED
  BY <1>1 DEF DecidedWell

LEMMA PagedInitial ==
  ASSUME NarrationInit PROVE PagedInv
<1>1. phase = "start" /\ items = <<>> /\ current = 1 /\ incidents = <<>>
  BY DEF NarrationInit, CalibrationInit, Init
<1>2. DecidedWell(items, candidates, current)
  BY <1>1, NothingDecided
<1>3. QED
  BY <1>1, <1>2, ClusteredInitial, SourceInitial DEF PagedInv

\* A step that decides nothing.
LEMMA PagedQuiet ==
  ASSUME PagedInv, ClusteredInv', SourceInv', UNCHANGED <<run, candidates, items, incidents>>,
         phase \in {"triage", "asked", "decided"}, phase' \notin {"start", "done"},
         \/ UNCHANGED current
         \/ NextCandidate
  PROVE  PagedInv'
<1>1. /\ current \in Nat \ {0} /\ current \in DOMAIN candidates
      /\ use' = use /\ candidates' = candidates /\ items' = items /\ incidents' = <<>>
  BY DEF PagedInv, run
<1>2. /\ current' \in Nat \ {0} /\ current' >= current
      /\ phase' \in {"triage", "asked", "decided"} => current' \in DOMAIN candidates
  <2>1. CASE NextCandidate
    <3>1. candidates \in Seq(ToSet(candidates))
      BY DEF PagedInv, ClusteredInv, Candidated
    <3>2. Len(candidates) \in Nat /\ DOMAIN candidates = 1 .. Len(candidates)
      BY <3>1, IsList
    <3>3. /\ current' = current + 1
          /\ phase' = IF current = Len(candidates) THEN "finish" ELSE "triage"
      BY <2>1 DEF NextCandidate
    <3>4. PICK L \in Nat, c \in Nat : L = Len(candidates) /\ c = current /\ c \in 1 .. L
      BY <1>1, <3>2
    <3>5. c # L => c + 1 \in 1 .. L
      BY <3>4
    <3>6. phase' \in {"triage", "asked", "decided"} => c # L
      BY <3>3, <3>4
    <3>7. c + 1 \in Nat \ {0} /\ c + 1 >= c
      BY <3>4
    <3>8. QED
      BY <3>2, <3>3, <3>4, <3>5, <3>6, <3>7
  <2>2. CASE UNCHANGED current
    BY <1>1, <2>2
  <2>3. QED
    BY <2>1, <2>2
<1>3. ASSUME use = "pipeline"
      PROVE  /\ \A i \in DOMAIN candidates : candidates[i].id.index = i
             /\ DecidedWell(items, candidates, current)
  BY <1>3 DEF PagedInv
<1>4. ASSUME use = "pipeline" PROVE DecidedWell(items, candidates, current')
  <2>1. \A n \in DOMAIN items :
          LET k == items[n].candidate.id.index
          IN  /\ k \in DOMAIN candidates /\ k < current /\ items[n].candidate = candidates[k]
              /\ items[n].action = RoutedAction(items[n].result.score)
    BY <1>3, <1>4 DEF DecidedWell
  <2>2. \A k \in DOMAIN candidates : k \in Nat
    <3>1. candidates \in Seq(ToSet(candidates))
      BY DEF PagedInv, ClusteredInv, Candidated
    <3>2. QED
      BY <3>1, IsList
  <2>3. \A n \in DOMAIN items : items[n].candidate.id.index < current'
    BY <1>1, <1>2, <2>1, <2>2
  <2>4. QED
    BY <1>3, <1>4, <2>1, <2>3 DEF DecidedWell
<1>5. QED
  BY <1>1, <1>2, <1>3, <1>4 DEF PagedInv

LEMMA PagedClusters ==
  ASSUME PagedInv, ClusterAlerts, ClusteredInv', SourceInv' PROVE PagedInv'
<1>1. /\ use' = use /\ batch' = batch /\ current' = 1 /\ items' = <<>> /\ incidents' = <<>>
      /\ phase' \in {"triage", "finish", "failed"}
      /\ phase' = "triage" => batch # <<>>
      /\ use = "pipeline" => candidates' = Cluster(Alerts)
      /\ Batched(batch)
  BY DEF ClusterAlerts, PagedInv, ClusteredInv, run, outcome, Alone
<1>2. ASSUME phase' = "triage" PROVE 1 \in DOMAIN candidates'
  <2>1. Candidated(candidates', ToSet(Alerts)) /\ Alerts' = Alerts
    BY <1>1, <1>2, AlertsKept DEF ClusteredInv
  <2>2. Len(Alerts) = Len(batch) /\ DOMAIN Alerts = DOMAIN batch /\ batch \in Seq(Events)
    BY <1>1, AlertsOfBatch DEF Batched
  <2>3. 1 \in DOMAIN batch
    BY <1>1, <1>2, <2>2, EmptySeq, LenProperties
  <2>4. Alerts[1] \in ToSet(Alerts)
    BY <2>2, <2>3 DEF ToSet
  <2>5. PICK i \in DOMAIN candidates' : TRUE
    BY <2>1, <2>4 DEF Candidated
  <2>6. candidates' \in Seq(ToSet(candidates'))
    BY <2>1 DEF Candidated
  <2>7. PICK cs : cs = candidates' /\ cs \in Seq(ToSet(cs)) /\ i \in DOMAIN cs
    BY <2>5, <2>6
  <2>8. 1 \in DOMAIN cs
    BY <2>7, IsList
  <2>9. QED
    BY <2>7, <2>8
<1>3. ASSUME use = "pipeline"
      PROVE  \A i \in DOMAIN candidates' : candidates'[i].id.index = i
  <2>1. \A i \in DOMAIN Cluster(Alerts) : Cluster(Alerts)[i].id.index = i
    BY <1>1, AlertsOfBatch, ClusteringParts
  <2>2. QED
    BY <1>1, <1>3, <2>1
<1>4. DecidedWell(items', candidates', current')
  BY <1>1, NothingDecided
<1>5. QED
  BY <1>1, <1>2, <1>3, <1>4 DEF PagedInv

LEMMA PagedDecide ==
  ASSUME PagedInv, Decide, ClusteredInv', SourceInv' PROVE PagedInv'
<1>1. /\ use' = use /\ candidates' = candidates /\ current' = current + 1
      /\ incidents' = <<>>
      /\ phase' = IF current = Len(candidates) THEN "finish" ELSE "triage"
      /\ current \in Nat \ {0} /\ current \in DOMAIN candidates
  BY DEF Decide, NextCandidate, PagedInv, run
<1>2. candidates \in Seq(ToSet(candidates))
  BY DEF PagedInv, ClusteredInv, Candidated, Decide
<1>3. Len(candidates) \in Nat /\ DOMAIN candidates = 1 .. Len(candidates)
  BY <1>2, IsList
<1>4. PICK L \in Nat, c \in Nat : L = Len(candidates) /\ c = current /\ c \in 1 .. L
  BY <1>1, <1>3
<1>5. phase' = "triage" => current' \in DOMAIN candidates'
  <2>1. c # L => c + 1 \in 1 .. L
    BY <1>4
  <2>2. phase' = "triage" => c # L
    BY <1>1, <1>4
  <2>3. QED
    BY <1>1, <1>3, <1>4, <2>1, <2>2
<1>6. ASSUME use = "pipeline"
      PROVE  /\ \A i \in DOMAIN candidates : candidates[i].id.index = i
             /\ DecidedWell(items', candidates, current + 1)
  <2>1. PICK x : /\ items' = Append(items, x) /\ x.candidate = candidates[current]
                 /\ x.action = RoutedAction(x.result.score)
    BY <1>6 DEF Decide, Candidate
  <2>2. /\ \A i \in DOMAIN candidates : candidates[i].id.index = i
        /\ DecidedWell(items, candidates, current)
    BY <1>6 DEF PagedInv, Decide
  <2>3. x.candidate.id.index = current
    BY <1>1, <2>1, <2>2
  <2>4. items \in Seq(ToSet(items))
    BY <2>2 DEF DecidedWell
  <2>5. PICK new : /\ new = items' /\ new \in Seq(ToSet(new))
                   /\ DOMAIN items = 1 .. Len(items) /\ DOMAIN new = 1 .. Len(items) + 1
                   /\ Len(items) \in Nat
                   /\ \A n \in DOMAIN items : new[n] = items[n]
                   /\ new[Len(items) + 1] = x
    BY <2>1, <2>4, AppendKeeps
  <2>6. \A n \in DOMAIN items :
          LET k == items[n].candidate.id.index
          IN  /\ k \in DOMAIN candidates /\ k < current /\ items[n].candidate = candidates[k]
              /\ items[n].action = RoutedAction(items[n].result.score)
    BY <2>2 DEF DecidedWell
  <2>7. ASSUME NEW n \in DOMAIN new
        PROVE  LET k == new[n].candidate.id.index
               IN  /\ k \in DOMAIN candidates /\ k < current + 1
                   /\ new[n].candidate = candidates[k]
                   /\ new[n].action = RoutedAction(new[n].result.score)
    <3>1. CASE n \in DOMAIN items
      <4>1. PICK k \in DOMAIN candidates :
               /\ k = new[n].candidate.id.index /\ k < current
               /\ new[n].candidate = candidates[k]
               /\ new[n].action = RoutedAction(new[n].result.score)
        BY <2>5, <2>6, <3>1
      <4>2. k < current + 1
        <5>1. k \in 1 .. L /\ k < c
          BY <1>3, <1>4, <4>1
        <5>2. k < c + 1
          BY <5>1
        <5>3. QED
          BY <1>4, <5>2
      <4>3. QED
        BY <4>1, <4>2
    <3>2. CASE n = Len(items) + 1
      <4>1. new[n] = x
        BY <2>5, <3>2
      <4>2. current < current + 1
        BY <1>1
      <4>3. QED
        BY <1>1, <2>1, <2>3, <4>1, <4>2
    <3>3. QED
      BY <2>5, <3>1, <3>2
  <2>8. ASSUME NEW m \in DOMAIN new, NEW n \in DOMAIN new, m # n
        PROVE  new[m].candidate.id.index # new[n].candidate.id.index
    <3>1. ASSUME NEW k \in DOMAIN items
          PROVE  new[k].candidate.id.index # current /\ new[k] = items[k]
      <4>1. PICK h \in 1 .. L : h = items[k].candidate.id.index /\ h < c
        BY <1>3, <1>4, <2>6
      <4>2. h # c
        BY <4>1
      <4>3. QED
        BY <1>4, <2>5, <4>1, <4>2
    <3>2. new[Len(items) + 1].candidate.id.index = current
      BY <2>3, <2>5
    <3>3. \A k \in DOMAIN new : k \in DOMAIN items \/ k = Len(items) + 1
      BY <2>5
    <3>4. CASE m \in DOMAIN items /\ n \in DOMAIN items
      BY <2>2, <2>8, <3>1, <3>4 DEF DecidedWell
    <3>5. QED
      BY <2>8, <3>1, <3>2, <3>3, <3>4
  <2>9. DecidedWell(new, candidates, current + 1)
    BY <2>5, <2>7, <2>8 DEF DecidedWell
  <2>10. QED
    BY <2>2, <2>5, <2>9
<1>7. phase' \notin {"start", "done", "asked", "decided"} /\ current' \in Nat \ {0}
  BY <1>1
<1>8. QED
  BY <1>1, <1>5, <1>6, <1>7 DEF PagedInv

LEMMA PagedNext ==
  ASSUME PagedInv, Next, ClusteredInv', SourceInv' PROVE PagedInv'
<1>1. ASSUME StartTriage PROVE PagedInv'
  <2>1. phase' \in {"failed", "decided", "asked"}
    BY <1>1 DEF StartTriage
  <2>2. QED
    BY <1>1, <2>1, PagedQuiet DEF StartTriage, outcome
<1>2. ASSUME phase = "asked", FallbackOrRaise PROVE PagedInv'
  <2>1. phase' \in {"decided", "failed"}
    BY <1>2 DEF FallbackOrRaise
  <2>2. QED
    BY <1>2, <2>1, PagedQuiet DEF FallbackOrRaise, outcome
<1>3. ASSUME NEW e, AskAgain(e) PROVE PagedInv'
  BY <1>3, PagedQuiet DEF AskAgain, outcome
<1>4. ASSUME NEW e, ModelFails(e) PROVE PagedInv'
  BY <1>2, <1>4 DEF ModelFails
<1>5. ASSUME CompletionEmpty PROVE PagedInv'
  BY <1>2, <1>5 DEF CompletionEmpty
<1>6. ASSUME AnswerUnusable PROVE PagedInv'
  <2>1. CASE FallbackOrRaise
    BY <1>2, <1>6, <2>1 DEF AnswerUnusable
  <2>2. CASE ~FallbackOrRaise
    BY <1>6, <2>2, PagedQuiet DEF AnswerUnusable, outcome
  <2>3. QED
    BY <2>1, <2>2
<1>7. ASSUME ModelBreaks PROVE PagedInv'
  <2>1. /\ phase = "asked" /\ UNCHANGED <<run, candidates, items, incidents>>
        /\ \/ NextCandidate
           \/ phase' = "failed" /\ UNCHANGED current
    BY <1>7 DEF ModelBreaks, outcome
  <2>2. phase' \in {"finish", "triage", "failed"}
    BY <2>1 DEF NextCandidate
  <2>3. QED
    BY <2>1, <2>2, PagedQuiet
<1>8. ASSUME NEW a, AnswerUsable(a) PROVE PagedInv'
  BY <1>8, PagedQuiet DEF AnswerUsable, outcome
<1>9. ASSUME Promote PROVE PagedInv'
  BY <1>9 DEF Promote, PagedInv, Qualified, run
<1>10. ASSUME Measure PROVE PagedInv'
  BY <1>10 DEF Measure, PagedInv, run
<1>11. ASSUME Terminated PROVE PagedInv'
  BY <1>11 DEF Terminated, PagedInv, vars, run, outcome
<1>12. QED
  BY <1>1, <1>3, <1>4, <1>5, <1>6, <1>7, <1>8, <1>9, <1>10, <1>11,
     PagedClusters, PagedDecide DEF Next

LEMMA PagedStep ==
  ASSUME PagedInv, [NarrationNext]_everything PROVE PagedInv'
<1>1. ClusteredInv' /\ SourceInv'
  BY ClusteredStep, SourceStep DEF PagedInv
<1>2. ASSUME UNCHANGED vars PROVE PagedInv'
  BY <1>1, <1>2 DEF PagedInv, vars, run, outcome
<1>3. ASSUME NEW item, NEW v, NEW s, Record(item, v, s) PROVE PagedInv'
  BY <1>2, <1>3 DEF Record
<1>4. ASSUME NEW item, PromoteReview(item) PROVE PagedInv'
  BY <1>1, <1>4 DEF PromoteReview, PagedInv
<1>5. QED
  BY <1>1, <1>2, <1>3, <1>4, PagedNext, NarrationStays DEF CalibrationNext, allVars

\* A decided item is not decided twice, and is sorted by a number and a place.
LEMMA DecidedKeyed ==
  ASSUME NEW list, NEW cs, NEW upto, NEW given, DecidedWell(list, cs, upto),
         Candidated(cs, given)
  PROVE  /\ IsInjective(list) /\ Qualified(list) \subseteq DOMAIN list
         /\ IsFiniteSet(Qualified(list)) /\ Qualified(list) \subseteq Nat
         /\ Keyed(Qualified(list), [i \in DOMAIN list |-> CandidateKey(list[i].candidate)])
<1>. DEFINE keys == [i \in DOMAIN list |-> CandidateKey(list[i].candidate)]
<1>1. IsInjective(list)
  BY DEF DecidedWell, IsInjective
<1>2. Len(list) \in Nat /\ DOMAIN list = 1 .. Len(list)
  BY IsList DEF DecidedWell
<1>3. Qualified(list) \subseteq DOMAIN list
  BY DEF Qualified
<1>4. IsFiniteSet(Qualified(list)) /\ Qualified(list) \subseteq Nat
  <2>1. Qualified(list) \in SUBSET (1 .. Len(list)) /\ IsFiniteSet(1 .. Len(list))
    BY <1>2, <1>3, FS_Interval
  <2>2. QED
    BY <2>1, FS_Subset
<1>5. \A i \in DOMAIN list : keys[i] \in [1 .. 2 -> Int]
  <2>1. SUFFICES ASSUME NEW i \in DOMAIN list
                 PROVE  CandidateKey(list[i].candidate) \in [1 .. 2 -> Int]
    OBVIOUS
  <2>2. PICK k \in DOMAIN cs : list[i].candidate = cs[k] /\ cs[k].id.index = k
    BY DEF DecidedWell
  <2>3. k \in Nat
    <3>1. cs \in Seq(ToSet(cs))
      BY DEF Candidated
    <3>2. QED
      BY <3>1, IsList
  <2>4. cs[k].first \in Int /\ cs[k].last \in Int
    BY DEF Candidated
  <2>5. PICK t \in Int : t = Moment(cs[k])
    BY <2>4 DEF Moment
  <2>6. Max({t, 0}) \in Int
    BY MaxOfTwo
  <2>7. CandidateKey(cs[k]) = <<Max({t, 0}), k>>
    BY <2>2, <2>5 DEF CandidateKey
  <2>8. QED
    BY <2>2, <2>3, <2>6, <2>7
<1>. HIDE DEF keys
<1>6. Keyed(Qualified(list), keys)
  BY <1>3, <1>5 DEF Keyed
<1>7. QED
  BY <1>1, <1>3, <1>4, <1>6 DEF keys

\* A candidate all of whose fields are of its alerts.
FormedCandidate(c) ==
    /\ ScorableCandidate(c)
    /\ c.host = FirstOf(c.alerts, "host", NoHost) /\ c.user = FirstOf(c.alerts, "user", NoText)

LEMMA CandidatesFormed ==
  ASSUME Batched(batch), NEW cs, Candidated(cs, ToSet(Alerts)), NEW k \in DOMAIN cs
  PROVE  FormedCandidate(cs[k])
<1>1. \A a \in ToSet(Alerts) : Scorable(a)
  <2>1. SUFFICES ASSUME NEW i \in DOMAIN Alerts PROVE Scorable(Alerts[i])
    BY DEF ToSet
  <2>2. i \in DOMAIN batch /\ Alerts[i] = Normalize(batch[i])
    BY DEF Alerts
  <2>3. batch[i] \in Events
    BY <2>2, LenProperties DEF Batched
  <2>4. QED
    BY <2>2, <2>3, NormalizedScorable
<1>2. PICK c : c = cs[k]
  OBVIOUS
<1>3. /\ Alerted(c.alerts) /\ Len(c.alerts) \in 1 .. MaxAlerts
      /\ ToSet(c.alerts) \subseteq ToSet(Alerts)
      /\ c.host = FirstOf(c.alerts, "host", NoHost) /\ c.user = FirstOf(c.alerts, "user", NoText)
      /\ c.srcs = {a.src : a \in ToSet(c.alerts)} \ {NoText}
      /\ c.dsts = {a.dst : a \in ToSet(c.alerts)} \ {NoText}
  BY <1>2 DEF Candidated
<1>4. Len(c.alerts) # 0
  BY <1>3
<1>5. FormedCandidate(c)
  BY <1>1, <1>3, <1>4 DEF FormedCandidate, ScorableCandidate
<1>6. QED
  BY <1>2, <1>5

LEMMA CandidatesScorable ==
  ASSUME ClusteredInv, phase # "start", NEW k \in DOMAIN candidates
  PROVE  ScorableCandidate(candidates[k])
BY CandidatesFormed DEF ClusteredInv, FormedCandidate

\* Where a score of 8 is paged, as the thresholds are by default: what is paged is
\* in exactly one incident, and what is critical is paged if no model says
\* otherwise, whatever else is known of it and however often it fires.
THEOREM CriticalIsPaged ==
  ASSUME PageAt <= 8
  PROVE  NarrationSpec => []CriticalReachesIncident
<1>1. ASSUME PagedInv PROVE CriticalReachesIncident
  <2>1. SUFFICES ASSUME phase = "done", use = "pipeline", NEW item \in ToSet(items)
        PROVE  /\ item.action = "page_now" => Cardinality(IncidentsOf(item)) = 1
               /\ /\ item.result.source = "local"
                  /\ \E a \in ToSet(item.candidate.alerts) : a.severity = "critical"
                  => item.action = "page_now"
    BY DEF CriticalReachesIncident
  <2>2. PICK p \in DOMAIN items : item = items[p]
    BY DEF ToSet
  <2>3. /\ ClusteredInv /\ SourceInv /\ DecidedWell(items, candidates, current)
        /\ incidents = Group(items, Qualified(items))
        /\ Candidated(candidates, ToSet(Alerts))
    BY <1>1, <2>1 DEF PagedInv, ClusteredInv
  <2>4. PICK k \in DOMAIN candidates : item.candidate = candidates[k]
    BY <2>2, <2>3 DEF DecidedWell
  <2>5. item.action = RoutedAction(item.result.score)
    BY <2>2, <2>3 DEF DecidedWell
  <2>6. ASSUME item.action = "page_now" PROVE Cardinality(IncidentsOf(item)) = 1
    <3>1. p \in Qualified(items)
      BY <2>2, <2>6 DEF Qualified, Qualifies
    <3>2. /\ IsInjective(items) /\ Qualified(items) \subseteq DOMAIN items
          /\ IsFiniteSet(Qualified(items)) /\ Qualified(items) \subseteq Nat
          /\ Keyed(Qualified(items), [i \in DOMAIN items |-> CandidateKey(items[i].candidate)])
      BY <2>3, DecidedKeyed
    <3>3. Grouped(incidents, items, Qualified(items))
      BY <2>3, <3>2, GroupParts
    <3>4. PICK i \in DOMAIN incidents : \A j \in DOMAIN incidents :
             item \in ToSet(incidents[j].items) <=> j = i
      BY <2>2, <3>1, <3>3 DEF Grouped
    <3>5. IncidentsOf(item) = {i}
      BY <3>4 DEF IncidentsOf
    <3>6. QED
      BY <3>5, FS_Singleton
  <2>7. ASSUME item.result.source = "local",
               \E a \in ToSet(item.candidate.alerts) : a.severity = "critical"
        PROVE  item.action = "page_now"
    <3>1. ~Alone
      BY <2>1 DEF Alone
    <3>2. PICK c : c = item.candidate /\ ScorableCandidate(c)
      BY <2>1, <2>3, <2>4, CandidatesScorable
    <3>3. item.result.score = LocalScore(c)
      BY <2>2, <2>3, <2>7, <3>2 DEF SourceInv, Sourced
    <3>4. LocalScore(c) = ScoreCandidate(c, EnrichmentsOf(c), AssetOf(c))
      BY <2>1, <3>1 DEF LocalScore
    <3>5. IsFiniteSet(EnrichmentsOf(c))
      BY <3>2, EnrichmentsFinite
    <3>6. PICK n \in 8 .. 10 : n = item.result.score
      BY <2>7, <3>2, <3>3, <3>4, <3>5, CandidateScores
    <3>7. PageAt \in Int /\ n >= PageAt
      BY ScoringConstants
    <3>8. RoutedAction(n) = "page_now"
      BY <3>7 DEF RoutedAction, ActionAt
    <3>9. QED
      BY <2>5, <3>6, <3>8
  <2>8. QED
    BY <2>6, <2>7
<1>2. QED
  BY <1>1, PagedInitial, PagedStep, PTL DEF NarrationSpec

-----------------------------------------------------------------------------
(* What a review means.                                                    *)

\* Scores are of ten, a case is measured by one of them, and a label is of the
\* review of a decision that was queued.
ScoredInv ==
    /\ PagedInv
    /\ phase = "asked" => fallback.score \in 1 .. 10
    /\ phase = "decided" => result.score \in 1 .. 10
    /\ \A n \in DOMAIN items : items[n].result.score \in 1 .. 10
    /\ phase = "finish" /\ use = "evaluation" => items # <<>>
    /\ phase = "done" /\ use = "evaluation" => measured.score \in 1 .. 10
    /\ review # NoReview => /\ review.result.score \in QueueAt .. PageAt - 1
                            /\ review.score \in AnalystScores
    /\ label # NoLabel => /\ use = "evaluation" /\ review # NoReview
                          /\ label = LabelOf(review)

LEMMA LocalScores ==
  ASSUME NEW c, ScorableCandidate(c) PROVE LocalScore(c) \in 1 .. 10
<1>1. IsFiniteSet(EnrichmentsOf(c))
  BY EnrichmentsFinite
<1>2. CASE Alone
  <2>1. Len(c.alerts) \in Nat /\ DOMAIN c.alerts = 1 .. Len(c.alerts) /\ Len(c.alerts) # 0
    BY IsList DEF ScorableCandidate, Alerted
  <2>2. c.alerts[1] \in ToSet(c.alerts)
    BY <2>1 DEF ToSet
  <2>3. c.alerts[1].severity \in DOMAIN BaseScore
    BY <2>2 DEF ScorableCandidate, Scorable
  <2>4. ScoreAlert(c.alerts[1], EnrichmentsOf(c)) \in 1 .. 10
    BY <1>1, <2>3, AlertScores
  <2>5. QED
    BY <1>2, <2>4 DEF LocalScore
<1>3. CASE ~Alone
  BY <1>1, <1>3, CandidateScores DEF LocalScore
<1>4. QED
  BY <1>2, <1>3

LEMMA ScoredInitial ==
  ASSUME NarrationInit PROVE ScoredInv
<1>1. /\ phase = "start" /\ items = <<>> /\ review = NoReview /\ label = NoLabel
  BY DEF NarrationInit, CalibrationInit, Init
<1>2. QED
  BY <1>1, PagedInitial DEF ScoredInv

\* A step of a run without a decision or a measurement.
LEMMA ScoredQuiet ==
  ASSUME ScoredInv, PagedInv', UNCHANGED <<use, items, measured, calibration>>,
         phase' \notin {"finish", "done"} \/ UNCHANGED phase,
         phase' = "asked" => fallback'.score \in 1 .. 10,
         phase' = "decided" => result'.score \in 1 .. 10
  PROVE  ScoredInv'
<1>1. UNCHANGED <<review, label>>
  BY DEF calibration
<1>2. label # NoLabel => label' = LabelOf(review')
  BY <1>1 DEF ScoredInv
<1>3. QED
  BY <1>1, <1>2 DEF ScoredInv, calibration, LabelOf

LEMMA ScoredNext ==
  ASSUME ScoredInv, PagedInv', Next, UNCHANGED calibration PROVE ScoredInv'
<1>1. PagedInv
  BY DEF ScoredInv
<1>2. ASSUME ClusterAlerts PROVE ScoredInv'
  <2>1. CASE phase' # "finish"
    <3>1. phase' \in {"triage", "failed"}
      BY <1>2, <2>1 DEF ClusterAlerts
    <3>2. QED
      BY <1>2, <3>1, ScoredQuiet DEF ClusterAlerts, run, outcome
  <2>2. CASE phase' = "finish"
    <3>1. use' = "pipeline" /\ use = "pipeline" /\ UNCHANGED <<review, label, items>>
      BY <1>2, <2>2 DEF ClusterAlerts, run, outcome, calibration
    <3>2. label = NoLabel
      BY <3>1 DEF ScoredInv
    <3>3. QED
      BY <2>2, <3>1, <3>2 DEF ScoredInv
  <2>3. QED
    BY <2>1, <2>2
<1>3. ASSUME StartTriage PROVE ScoredInv'
  <2>1. current \in DOMAIN candidates /\ ClusteredInv /\ phase # "start"
    BY <1>1, <1>3 DEF PagedInv, StartTriage
  <2>2. LocalScore(Candidate) \in 1 .. 10
    BY <2>1, CandidatesScorable, LocalScores DEF Candidate
  <2>3. LocalResult(Candidate).score \in 1 .. 10
    BY <2>2 DEF LocalResult
  <2>4. phase' \in {"failed", "decided", "asked"}
    BY <1>3 DEF StartTriage
  <2>5. /\ phase' = "asked" => fallback'.score \in 1 .. 10
        /\ phase' = "decided" => result'.score \in 1 .. 10
    BY <1>3, <2>3 DEF StartTriage
  <2>6. QED
    BY <1>3, <2>4, <2>5, ScoredQuiet DEF StartTriage, run, outcome
<1>4. ASSUME NEW e, AskAgain(e) PROVE ScoredInv'
  BY <1>4, ScoredQuiet DEF AskAgain, ScoredInv, run, outcome
<1>5. ASSUME phase = "asked", FallbackOrRaise PROVE ScoredInv'
  <2>1. phase' \in {"decided", "failed"} /\ fallback.score \in 1 .. 10
        /\ (phase' = "decided" => result' = fallback)
    BY <1>5 DEF FallbackOrRaise, ScoredInv
  <2>2. QED
    BY <1>5, <2>1, ScoredQuiet DEF FallbackOrRaise, run, outcome
<1>6. ASSUME NEW e, ModelFails(e) PROVE ScoredInv'
  BY <1>5, <1>6 DEF ModelFails
<1>7. ASSUME CompletionEmpty PROVE ScoredInv'
  BY <1>5, <1>7 DEF CompletionEmpty
<1>8. ASSUME AnswerUnusable PROVE ScoredInv'
  <2>1. CASE FallbackOrRaise
    BY <1>5, <1>8, <2>1 DEF AnswerUnusable
  <2>2. CASE ~FallbackOrRaise
    BY <1>8, <2>2, ScoredQuiet DEF AnswerUnusable, ScoredInv, run, outcome
  <2>3. QED
    BY <2>1, <2>2
<1>9. ASSUME ModelBreaks PROVE ScoredInv'
  <2>1. CASE phase' # "finish"
    <3>1. phase' \in {"triage", "failed"}
      BY <1>9, <2>1 DEF ModelBreaks, NextCandidate
    <3>2. QED
      BY <1>9, <3>1, ScoredQuiet DEF ModelBreaks, run, outcome
  <2>2. CASE phase' = "finish"
    <3>1. use' = use /\ use = "pipeline" /\ UNCHANGED <<review, label, items>>
      BY <1>1, <1>9, <2>2 DEF ModelBreaks, run, outcome, calibration
    <3>2. label = NoLabel
      BY <3>1 DEF ScoredInv
    <3>3. QED
      BY <2>2, <3>1, <3>2 DEF ScoredInv
  <2>3. QED
    BY <2>1, <2>2
<1>10. ASSUME NEW s \in ModelScores, NEW x, AnswerUsable([score |-> s, action |-> x])
       PROVE  ScoredInv'
  <2>1. result'.score = Clamp(s)
    BY <1>10 DEF AnswerUsable, ResultOf, ParseScore
  <2>2. s \in Int
    BY AssessmentConstants
  <2>3. result'.score \in 1 .. 10
    BY <2>1, <2>2, ClampIs
  <2>4. phase' = "decided"
    BY <1>10 DEF AnswerUsable
  <2>5. QED
    BY <1>10, <2>3, <2>4, ScoredQuiet DEF AnswerUsable, run, outcome
<1>11. ASSUME Decide PROVE ScoredInv'
  <2>1. PICK x : items' = Append(items, x) /\ x.result = result
    BY <1>11 DEF Decide
  <2>2. items \in Seq(ToSet(items))
    BY <1>1 DEF PagedInv, SourceInv
  <2>3. PICK new : /\ new = items' /\ Len(items) \in Nat
                   /\ DOMAIN items = 1 .. Len(items) /\ DOMAIN new = 1 .. Len(items) + 1
                   /\ \A n \in DOMAIN items : new[n] = items[n]
                   /\ new[Len(items) + 1] = x
    BY <2>1, <2>2, AppendKeeps
  <2>4. /\ \A n \in DOMAIN items : items[n].result.score \in 1 .. 10
        /\ result.score \in 1 .. 10
    BY <1>11 DEF ScoredInv, Decide
  <2>5. \A n \in DOMAIN new : new[n].result.score \in 1 .. 10
    <3>1. \A n \in DOMAIN new : n \in DOMAIN items \/ n = Len(items) + 1
      BY <2>3
    <3>2. QED
      BY <2>1, <2>3, <2>4, <3>1
  <2>6. items' # <<>>
    <3>1. Len(items) + 1 \in DOMAIN new
      BY <2>3
    <3>2. QED
      BY <2>3, <3>1
  <2>7. /\ phase' \in {"finish", "triage"} /\ use' = use
        /\ UNCHANGED <<review, label, measured>>
    BY <1>11 DEF Decide, NextCandidate, run, calibration
  <2>8. label # NoLabel => label' = LabelOf(review')
    BY <2>7 DEF ScoredInv
  <2>9. QED
    BY <2>3, <2>5, <2>6, <2>7, <2>8 DEF ScoredInv
<1>12. ASSUME Promote PROVE ScoredInv'
  <2>1. /\ use' = "pipeline" /\ use = "pipeline" /\ UNCHANGED <<review, label, items>>
        /\ phase' = "done"
    BY <1>12 DEF Promote, run, calibration
  <2>2. label = NoLabel
    BY <2>1 DEF ScoredInv
  <2>3. QED
    BY <2>1, <2>2 DEF ScoredInv
<1>13. ASSUME Measure PROVE ScoredInv'
  <2>. DEFINE S == {i.result.score : i \in ToSet(items)}
  <2>1. items # <<>> /\ items \in Seq(ToSet(items))
    BY <1>1, <1>13 DEF ScoredInv, Measure, PagedInv, SourceInv
  <2>2. Len(items) \in Nat /\ DOMAIN items = 1 .. Len(items)
    BY <2>1, IsList
  <2>3. 1 \in DOMAIN items
    BY <2>1, <2>2, EmptySeq, LenProperties
  <2>4. \A n \in DOMAIN items : items[n].result.score \in 1 .. 10
    BY DEF ScoredInv
  <2>5. S \subseteq 1 .. 10 /\ S # {}
    <3>1. \A i \in ToSet(items) : i.result.score \in 1 .. 10
      BY <2>4 DEF ToSet
    <3>2. items[1] \in ToSet(items)
      BY <2>3 DEF ToSet
    <3>3. QED
      BY <3>1, <3>2
  <2>6. measured'.score = Max(S)
    BY <1>13 DEF Measure
  <2>. HIDE DEF S
  <2>7. Max(S) \in 1 .. 10
    BY <2>5, MaxIsIn
  <2>8. phase' = "done" /\ use' = use /\ UNCHANGED <<review, label, items>>
    BY <1>13 DEF Measure, run, calibration
  <2>9. label # NoLabel => label' = LabelOf(review')
    BY <2>8 DEF ScoredInv
  <2>10. QED
    BY <2>6, <2>7, <2>8, <2>9 DEF ScoredInv
<1>14. ASSUME Terminated PROVE ScoredInv'
  <2>1. phase' \in {"done", "failed"} /\ UNCHANGED <<use, items, measured, phase>>
    BY <1>14 DEF Terminated, vars, run, outcome
  <2>2. QED
    BY <2>1, ScoredQuiet
<1>15. QED
  BY <1>2, <1>3, <1>4, <1>6, <1>7, <1>8, <1>9, <1>10, <1>11, <1>12, <1>13, <1>14 DEF Next

LEMMA ScoredRecord ==
  ASSUME ScoredInv, PagedInv', NEW item \in Queued, NEW v, NEW s \in AnalystScores,
         Record(item, v, s)
  PROVE  ScoredInv'
<1>1. /\ use = "pipeline" /\ phase = "done" /\ UNCHANGED <<vars, label>>
      /\ review' = [result |-> item.result, verdict |-> v, score |-> s]
      /\ item.action = "queue_review"
  BY DEF Record, Queued
<1>2. label = NoLabel
  BY <1>1 DEF ScoredInv
<1>3. PICK p \in DOMAIN items : item = items[p]
  BY DEF Queued, ToSet
<1>4. item.action = RoutedAction(item.result.score) /\ item.result.score \in 1 .. 10
  BY <1>1, <1>3 DEF ScoredInv, PagedInv, DecidedWell
<1>5. item.result.score \in QueueAt .. PageAt - 1
  <2>1. PICK n \in 1 .. 10 : n = item.result.score
    BY <1>4
  <2>2. ActionAt(n, PageAt, QueueAt) = "queue_review"
    BY <1>1, <1>4, <2>1 DEF RoutedAction
  <2>3. PICK top \in Int, low \in Int : top = PageAt /\ low = QueueAt /\ low <= top
    BY ScoringConstants
  <2>4. /\ n >= top => ActionAt(n, top, low) = "page_now"
        /\ n < low => ActionAt(n, top, low) = "mark_likely_benign"
    <3>1. CASE n >= top
      BY <2>3, <3>1 DEF ActionAt
    <3>2. CASE n < low
      BY <2>3, <3>2 DEF ActionAt
    <3>3. QED
      BY <3>1, <3>2
  <2>5. n < top /\ n >= low
    BY <2>1, <2>2, <2>3, <2>4
  <2>6. QED
    BY <2>1, <2>3, <2>5
<1>6. review'.result.score \in QueueAt .. PageAt - 1 /\ review'.score \in AnalystScores
  BY <1>1, <1>5
<1>7. UNCHANGED <<use, phase, items, measured, label, fallback, result>>
  BY <1>1 DEF vars, run, call, outcome
<1>8. QED
  BY <1>1, <1>2, <1>6, <1>7 DEF ScoredInv

LEMMA ScoredPromote ==
  ASSUME ScoredInv, PagedInv', NEW item \in Reviewed, PromoteReview(item)
  PROVE  ScoredInv'
<1>1. item = review /\ review # NoReview
  BY DEF Reviewed
<1>2. /\ use' = "evaluation" /\ phase' = "start" /\ items' = <<>>
      /\ label' = LabelOf(review) /\ UNCHANGED review
  BY <1>1 DEF PromoteReview
<1>3. label' = LabelOf(review')
  BY <1>2
<1>4. QED
  BY <1>1, <1>2, <1>3 DEF ScoredInv

LEMMA ScoredStep ==
  ASSUME ScoredInv, [NarrationNext]_everything PROVE ScoredInv'
<1>1. PagedInv'
  BY PagedStep DEF ScoredInv
<1>2. ASSUME UNCHANGED allVars PROVE ScoredInv'
  <2>1. UNCHANGED <<use, phase, items, measured, label, review, fallback, result>>
    BY <1>2 DEF allVars, calibration, vars, run, call, outcome
  <2>2. label # NoLabel => label' = LabelOf(review')
    BY <2>1 DEF ScoredInv
  <2>3. QED
    BY <1>1, <2>1, <2>2 DEF ScoredInv
<1>3. QED
  BY <1>1, <1>2, ScoredNext, ScoredRecord, ScoredPromote, NarrationStays DEF CalibrationNext

\* The error of a score that is on the wrong side of a band is not zero.
LEMMA ErrorIs ==
  ASSUME NEW s \in Int, label.min \in Int, label.max \in Int
  PROVE  ScoreError(s) = 0 <=> s \in label.min .. label.max
<1>. DEFINE S == {0, label.min - s, s - label.max}
<1>1. \E m \in S : \A w \in S : m >= w
  OBVIOUS
<1>2. Max(S) \in S /\ \A w \in S : Max(S) >= w
  BY <1>1 DEF Max
<1>3. ScoreError(s) = Max(S)
  BY DEF ScoreError
<1>4. Max(S) = 0 <=> label.min - s <= 0 /\ s - label.max <= 0
  BY <1>2
<1>5. QED
  BY <1>3, <1>4

\* The bands of a review.
LEMMA BandIs ==
  ASSUME NEW r, r.result.score \in 3 .. 8, r.score \in (1 .. 10) \cup {NoNumber}
  PROVE  /\ LabelOf(r).min \in 1 .. 10 /\ LabelOf(r).max \in 1 .. 10
         /\ LabelOf(r).min >= 4 \/ LabelOf(r).max <= 7
         /\ r.verdict \in {"too_high", "too_low"} /\ r.score = NoNumber
            => r.result.score \notin LabelOf(r).min .. LabelOf(r).max
<1>1. PICK was \in 3 .. 8 : was = r.result.score /\ Clamp(r.result.score) = was
  BY ClampIs
<1>2. PICK band : band = ExpectedBand(r)
  OBVIOUS
<1>3. LabelOf(r).min = band[1] /\ LabelOf(r).max = band[2]
  BY <1>2 DEF LabelOf
<1>4. CASE r.score # NoNumber
  <2>1. PICK g \in 1 .. 10 : g = r.score
    BY <1>4
  <2>2. band = <<Clamp(g - 1), Clamp(g + 1)>>
    BY <1>2, <1>4, <2>1 DEF ExpectedBand
  <2>3. /\ Clamp(g - 1) = IF g = 1 THEN 1 ELSE g - 1
        /\ Clamp(g + 1) = IF g = 10 THEN 10 ELSE g + 1
    BY ClampIs
  <2>4. QED
    BY <1>3, <1>4, <2>2, <2>3
<1>5. CASE r.score = NoNumber
  <2>1. /\ Clamp(was - 1) = was - 1 /\ Clamp(was + 1) = was + 1
    BY ClampIs
  <2>2. CASE r.verdict = "too_high"
    <3>1. band = <<1, was - 1>>
      BY <1>1, <1>2, <1>5, <2>1, <2>2 DEF ExpectedBand
    <3>2. QED
      BY <1>1, <1>3, <3>1
  <2>3. CASE r.verdict = "too_low"
    <3>1. band = <<was + 1, 10>>
      BY <1>1, <1>2, <1>5, <2>1, <2>3 DEF ExpectedBand
    <3>2. QED
      BY <1>1, <1>3, <3>1
  <2>4. CASE r.verdict \notin {"too_high", "too_low"}
    <3>1. band = <<was - 1, was + 1>>
      BY <1>1, <1>2, <1>5, <2>1, <2>4 DEF ExpectedBand
    <3>2. QED
      BY <1>3, <2>4, <3>1
  <2>5. QED
    BY <2>2, <2>3, <2>4
<1>6. QED
  BY <1>4, <1>5

\* With a band of scores that are queued that reaches neither the lowest two nor
\* the highest two, as the default one of 4 to 7: a disputed score is out of the
\* band of its label, and in the band of a label no action that follows from the
\* score is held against it.
THEOREM LabelsMeanDisputes ==
  ASSUME QueueAt >= 3, PageAt <= 9
  PROVE  NarrationSpec => [](DisputedLeavesBand /\ BandHasItsActions)
<1>1. ASSUME ScoredInv PROVE DisputedLeavesBand /\ BandHasItsActions
  <2>1. SUFFICES ASSUME Relabelled PROVE DisputedLeavesBand /\ BandHasItsActions
    BY DEF DisputedLeavesBand, BandHasItsActions
  <2>2. /\ measured.score \in 1 .. 10 /\ review # NoReview /\ label = LabelOf(review)
        /\ review.result.score \in QueueAt .. PageAt - 1 /\ review.score \in AnalystScores
    BY <1>1, <2>1 DEF Relabelled, ScoredInv
  <2>3. review.result.score \in 3 .. 8 /\ review.score \in (1 .. 10) \cup {NoNumber}
    <3>1. PICK top \in Int, low \in Int :
            top = PageAt /\ low = QueueAt /\ low >= 3 /\ top <= 9
      BY ScoringConstants
    <3>2. review.result.score \in low .. top - 1
      BY <2>2, <3>1
    <3>3. review.result.score \in 3 .. 8
      BY <3>1, <3>2
    <3>4. QED
      BY <2>2, <3>3, CalibrationConstants
  <2>4. /\ label.min \in 1 .. 10 /\ label.max \in 1 .. 10
        /\ label.min >= 4 \/ label.max <= 7
        /\ review.verdict \in {"too_high", "too_low"} /\ review.score = NoNumber
           => review.result.score \notin label.min .. label.max
    BY <2>2, <2>3, BandIs
  <2>5. InBand <=> measured.score \in label.min .. label.max
    <3>1. measured.score \in Int /\ label.min \in Int /\ label.max \in Int
      BY <2>2, <2>4
    <3>2. QED
      BY <3>1, ErrorIs DEF InBand
  <2>6. DisputedLeavesBand
    BY <2>4, <2>5 DEF DisputedLeavesBand
  <2>7. ASSUME InBand, measured.action = ActionForScore(measured.score) PROVE ActionAgreed
    <3>1. PICK s, low, high \in 1 .. 10 :
            /\ s = measured.score /\ low = label.min /\ high = label.max
      BY <2>2, <2>4
    <3>2. low <= s /\ s <= high /\ (low >= 4 \/ high <= 7)
      BY <2>4, <2>5, <2>7, <3>1
    <3>3. label.actions = {ActionForScore(low), ActionForScore(high)}
      BY <2>2, <3>1 DEF LabelOf
    <3>4. ActionForScore(s) \in {ActionForScore(low), ActionForScore(high)}
      BY <3>2 DEF ActionForScore, ActionAt
    <3>5. QED
      BY <2>7, <3>1, <3>3, <3>4 DEF ActionAgreed
  <2>8. QED
    BY <2>6, <2>7 DEF BandHasItsActions
<1>2. QED
  BY <1>1, ScoredInitial, ScoredStep, PTL DEF NarrationSpec

-----------------------------------------------------------------------------
(* What a firewall alone is worth.                                         *)

\* An indicator that adds nothing to a score.
Quiet(i) == EnrichmentPoints(EnrichIndicator(i)) = 0

\* The rule of a firewall's event is named by an action, a direction and an
\* interface, and its texts are a log line: addresses, ports and a host.  None is
\* one of the terms, as no IPv4 address is.
PlainEvent(e) ==
    /\ Disjoint({"pf", e.level.word, e.src, e.dst} \cup e.rule,
                HighRiskTerms \cup MediumRiskTerms)
    /\ \A i \in e.found : Quiet(i)
    /\ "encodedcommand" \notin ToSet(e.host)

PlainAlert(a) ==
    /\ a.severity \in {"low", "info"}
    /\ Disjoint(Searchable(a), HighRiskTerms \cup MediumRiskTerms)
    /\ a.command = {} /\ a.process = {} /\ a.user = NoText /\ a.logon = NoText
    /\ a.fired = NoNumber /\ a.bytes = NoNumber
    /\ "encodedcommand" \notin ToSet(a.host) /\ \A i \in a.found : Quiet(i)

LEMMA PlainIsNormalized ==
  ASSUME NEW e, e.source = "openbsd_pf", PlainEvent(e)
  PROVE  PlainAlert(Normalize(e))
<1>1. OptionalFields(e.source) = {}
  BY DEF OptionalFields
<1>2. Normalize(e) = NormalizeFields(e, SeverityFromPfAction(e.level),
                    {"pf", e.level.word} \cup e.rule, {"firewall", "pf", e.level.word})
  BY DEF Normalize, NormalizePf
<1>3. SeverityFromPfAction(e.level) \in {"low", "info"}
  BY DEF SeverityFromPfAction
<1>4. /\ Normalize(e).severity = SeverityFromPfAction(e.level)
      /\ Normalize(e).rule = {"pf", e.level.word} \cup e.rule
      /\ Normalize(e).command = {} /\ Normalize(e).process = {}
      /\ Normalize(e).user = NoText /\ Normalize(e).logon = NoText
      /\ Normalize(e).fired = NoNumber /\ Normalize(e).bytes = NoNumber
      /\ Normalize(e).host = e.host /\ Normalize(e).found = e.found
      /\ Normalize(e).src = e.src /\ Normalize(e).dst = e.dst
  BY <1>1, <1>2 DEF NormalizeFields
<1>5. Searchable(Normalize(e)) = {"pf", e.level.word, e.src, e.dst} \cup e.rule \cup {NoText}
  BY <1>4 DEF Searchable
<1>6. NoText \notin HighRiskTerms \cup MediumRiskTerms
  BY DEF NoText, HighRiskTerms, MediumRiskTerms
<1>7. Disjoint(Searchable(Normalize(e)), HighRiskTerms \cup MediumRiskTerms)
  <2>. HIDE DEF HighRiskTerms, MediumRiskTerms
  <2>1. QED
    BY <1>5, <1>6 DEF PlainEvent, Disjoint
<1>8. QED
  BY <1>3, <1>4, <1>7 DEF PlainAlert, PlainEvent

LEMMA SourceIsKept ==
  ASSUME NEW e PROVE Normalize(e).source = e.source
BY DEF Normalize, NormalizeWazuh, NormalizeSecurityOnion, NormalizePf, NormalizeGeneric,
   NormalizeFields

\* Base two at most, and one for a destination that is not private.
LEMMA PlainScores ==
  ASSUME NEW a, PlainAlert(a)
  PROVE  ScoreAlert(a, {}) \in 1 .. 3
<1>. DEFINE words == Searchable(a)
<1>1. BaseScore[a.severity] \in 1 .. 2
  BY DEF PlainAlert, BaseScore
<1>2. Points(~Disjoint(words, HighRiskTerms), 2) = 0
      /\ Points(~Disjoint(words, MediumRiskTerms), 1) = 0
  <2>1. Disjoint(words, HighRiskTerms) /\ Disjoint(words, MediumRiskTerms)
    BY DEF PlainAlert, Disjoint
  <2>2. QED
    BY <2>1 DEF Points
<1>3. PICK out \in 0 .. 1 : out = Points(a.dst \notin PrivateAddresses \cup {NoText}, 1)
  BY PointsIs
<1>4. LogonTypeBoost(a) = 0 /\ VolumeBoost(a) = 0 /\ FrequencyDamping(a) = 0
  <2>1. a.logon # "10" /\ a.logon # "2" /\ a.bytes = -1 /\ a.fired = -1
    BY DEF PlainAlert, NoText, NoNumber
  <2>2. ~(a.bytes >= 1) /\ ~(a.bytes >= 10) /\ ~(a.fired >= 1000)
    BY <2>1
  <2>3. \A n : Points(FALSE, n) = 0
    BY DEF Points
  <2>4. Points(a.logon = "10", 2) = 0 /\ Points(a.logon = "2", 1) = 0
    BY <2>1 DEF Points
  <2>5. Points(a.bytes >= 1, 1) = 0 /\ Points(a.bytes >= 10, 1) = 0
    BY <2>2 DEF Points
  <2>6. LogonTypeBoost(a) = 0 /\ VolumeBoost(a) = 0
    BY <2>4, <2>5 DEF LogonTypeBoost, VolumeBoost
  <2>7. FrequencyDamping(a) = 0
    <3>. DEFINE rare == a.severity \notin {"high", "critical"} /\ a.fired >= 1000
    <3>1. Points(rare, 1) \in 0 .. 0
      BY <2>2 DEF Points
    <3>2. FrequencyDamping(a) = -Points(rare, 1)
      BY DEF FrequencyDamping
    <3>. HIDE DEF rare
    <3>3. QED
      BY <3>1, <3>2
  <2>8. QED
    BY <2>6, <2>7
<1>5. EnrichmentBoost({}) = 0
  <2>1. Cardinality({}) = 0
    BY FS_EmptySet
  <2>2. \A n \in {1, 2} : {e \in {} : EnrichmentPoints(e) >= n} = {}
    OBVIOUS
  <2>3. EnrichmentBoost({}) = Min({3, 0 + 0})
    BY <2>1, <2>2 DEF EnrichmentBoost
  <2>4. Min({3, 0}) = 0
    BY MinOfTwo
  <2>5. QED
    BY <2>3, <2>4
<1>6. PICK base \in 1 .. 2 : base = BaseScore[a.severity]
  BY <1>1
<1>7. ScoreAlert(a, {}) = Clamp(base + 0 + 0 + out + 0 + 0 + 0 + 0)
  BY <1>2, <1>3, <1>4, <1>5, <1>6 DEF ScoreAlert
<1>8. base + 0 + 0 + out + 0 + 0 + 0 + 0 \in 1 .. 3
  BY <1>3, <1>6
<1>9. QED
  BY <1>7, <1>8, ClampIs

LEMMA QuietAddress ==
  ASSUME NEW v PROVE Quiet(Indicator("ip", v, {}))
<1>1. PICK i : i = Indicator("ip", v, {})
  OBVIOUS
<1>2. i.type = "ip" /\ i.words = {}
  BY <1>1 DEF Indicator
<1>3. RiskFactors(i) \in {{"public_ip"}, {"private_ip"}}
  BY <1>2 DEF RiskFactors, IpRiskFactors
<1>4. SeverityHint(RiskFactors(i)) = "low"
  BY <1>3 DEF SeverityHint, Disjoint
<1>5. PICK e : e = EnrichIndicator(i)
  OBVIOUS
<1>6. e.hint = "low" /\ e.factors \in {{"public_ip"}, {"private_ip"}} /\ e.words = {}
  BY <1>2, <1>3, <1>4, <1>5 DEF EnrichIndicator
<1>7. e.factors \ NonEscalating = {} /\ e.factors # {}
      /\ Disjoint(e.factors, {"encoded_powershell", "credential_dumping_hint"})
  BY <1>6 DEF NonEscalating, Disjoint
<1>8. EnrichmentPoints(e) = 0
  BY <1>6, <1>7 DEF EnrichmentPoints, Points
<1>9. QED
  BY <1>1, <1>5, <1>8 DEF Quiet

LEMMA QuietName ==
  ASSUME NEW type \in {"host", "user"}, NEW v, NEW words, "encodedcommand" \notin words
  PROVE  Quiet(Indicator(type, v, words))
<1>1. PICK i : i = Indicator(type, v, words)
  OBVIOUS
<1>2. i.type \in {"host", "user"} /\ i.words = words
  BY <1>1 DEF Indicator
<1>3. RiskFactors(i) = {}
  BY <1>2 DEF RiskFactors
<1>4. SeverityHint(RiskFactors(i)) = "info"
  BY <1>3 DEF SeverityHint, Disjoint
<1>5. PICK e : e = EnrichIndicator(i)
  OBVIOUS
<1>6. e.hint = "info" /\ e.factors = {} /\ e.words = words
  BY <1>2, <1>3, <1>4, <1>5 DEF EnrichIndicator
<1>7. EnrichmentPoints(e) = 0
  BY <1>6 DEF EnrichmentPoints, Points, Disjoint
<1>8. QED
  BY <1>1, <1>5, <1>7 DEF Quiet

LEMMA QuietAlert ==
  ASSUME NEW a, PlainAlert(a), NEW i \in AlertIndicators(a)
  PROVE  Quiet(i)
<1>1. /\ AppendIndicator("ip", a.src) \subseteq {Indicator("ip", a.src, {})}
      /\ AppendIndicator("ip", a.dst) \subseteq {Indicator("ip", a.dst, {})}
      /\ TextIndicator("host", ToSet(a.host)) \subseteq
            {Indicator("host", NoText, ToSet(a.host))}
      /\ AppendIndicator("user", a.user) = {} /\ TextIndicator("command", a.command) = {}
      /\ TextIndicator("process", a.process) = {}
  BY DEF PlainAlert, AppendIndicator, TextIndicator
<1>2. i \in {Indicator("ip", a.src, {}), Indicator("ip", a.dst, {}),
            Indicator("host", NoText, ToSet(a.host))} \cup a.found
  BY <1>1 DEF AlertIndicators
<1>3. Quiet(Indicator("host", NoText, ToSet(a.host)))
  BY QuietName DEF PlainAlert
<1>4. QED
  BY <1>2, <1>3, QuietAddress DEF PlainAlert

\* The first value of a field is that of an alert, or it is not there.
LEMMA FirstIsOne ==
  ASSUME NEW list, DOMAIN list \subseteq Nat, NEW field, NEW none
  PROVE  \/ FirstOf(list, field, none) = none
         \/ \E i \in DOMAIN list : FirstOf(list, field, none) = list[i][field]
<1>. DEFINE there == {i \in DOMAIN list : list[i][field] # none}
<1>1. CASE there = {}
  BY <1>1 DEF FirstOf
<1>2. CASE there # {}
  <2>1. there \subseteq Nat /\ there # {}
    BY <1>2
  <2>2. FirstOf(list, field, none) = list[Min(there)][field]
    BY <1>2 DEF FirstOf
  <2>3. there \subseteq DOMAIN list
    OBVIOUS
  <2>. HIDE DEF there
  <2>4. PICK n \in there : \A m \in there : n <= m
    BY <2>1, LeastExists
  <2>5. Min(there) \in there
    BY <2>4 DEF Min
  <2>6. QED
    BY <2>2, <2>3, <2>5
<1>3. QED
  BY <1>1, <1>2

\* A candidate that a firewall alone speaks of.
PlainCandidate(c) ==
    FormedCandidate(c) /\ \A a \in ToSet(c.alerts) : PlainAlert(a)

LEMMA PlainNames ==
  ASSUME NEW c, PlainCandidate(c)
  PROVE  c.user = NoText /\ "encodedcommand" \notin ToSet(c.host)
<1>1. PICK list : list = c.alerts /\ DOMAIN list \subseteq Nat
  BY IsList DEF PlainCandidate, FormedCandidate, ScorableCandidate, Alerted
<1>2. \A i \in DOMAIN list : PlainAlert(list[i])
  BY <1>1 DEF PlainCandidate, ToSet
<1>3. \A i \in DOMAIN list : list[i].user = NoText /\ "encodedcommand" \notin ToSet(list[i].host)
  BY <1>2 DEF PlainAlert
<1>4. c.user = NoText
  <2>1. \/ c.user = NoText
        \/ \E i \in DOMAIN list : c.user = list[i].user
    BY <1>1, FirstIsOne DEF PlainCandidate, FormedCandidate
  <2>2. QED
    BY <1>3, <2>1
<1>5. \/ c.host = NoHost
      \/ \E i \in DOMAIN list : c.host = list[i].host
  BY <1>1, FirstIsOne DEF PlainCandidate, FormedCandidate
<1>6. ToSet(NoHost) = {}
  BY DEF NoHost, ToSet
<1>7. QED
  BY <1>3, <1>4, <1>5, <1>6

LEMMA QuietCandidate ==
  ASSUME NEW c, PlainCandidate(c), NEW i \in CandidateIndicators(c)
  PROVE  Quiet(i)
<1>1. /\ TextIndicator("host", ToSet(c.host)) \subseteq
            {Indicator("host", NoText, ToSet(c.host))}
      /\ AppendIndicator("user", c.user) = {}
  BY PlainNames DEF AppendIndicator, TextIndicator
<1>2. \/ \E ip \in c.srcs \cup c.dsts : i = Indicator("ip", ip, {})
      \/ i = Indicator("host", NoText, ToSet(c.host))
      \/ \E a \in ToSet(c.alerts) : i \in AlertIndicators(a)
  BY <1>1 DEF CandidateIndicators
<1>3. Quiet(Indicator("host", NoText, ToSet(c.host)))
  BY PlainNames, QuietName
<1>4. ASSUME NEW a \in ToSet(c.alerts), i \in AlertIndicators(a) PROVE Quiet(i)
  BY <1>4, QuietAlert DEF PlainCandidate
<1>5. QED
  BY <1>2, <1>3, <1>4, QuietAddress

\* Intelligence that knows nothing against an address adds nothing either.
LEMMA QuietIntel ==
  ASSUME NEW ip, verdict \in {"benign", "unknown"}
  PROVE  EnrichmentPoints(IntelOf(ip)) = 0
<1>1. PICK e : e = IntelOf(ip)
  OBVIOUS
<1>2. e.hint = "info" /\ e.factors = {} /\ e.words = {}
  BY <1>1 DEF IntelOf
<1>3. EnrichmentPoints(e) = 0
  BY <1>2 DEF EnrichmentPoints, Points, Disjoint
<1>4. QED
  BY <1>1, <1>3

LEMMA QuietBoost ==
  ASSUME NEW es, \A e \in es : EnrichmentPoints(e) = 0
  PROVE  EnrichmentBoost(es) = 0
<1>1. /\ {e \in es : EnrichmentPoints(e) >= 1} = {}
      /\ {e \in es : EnrichmentPoints(e) >= 2} = {}
  OBVIOUS
<1>2. Cardinality({}) = 0
  BY FS_EmptySet
<1>3. EnrichmentBoost(es) = Min({3, 0 + 0})
  BY <1>1, <1>2 DEF EnrichmentBoost
<1>4. Min({3, 0}) = 0
  BY MinOfTwo
<1>5. QED
  BY <1>3, <1>4

LEMMA QuietEnrichments ==
  ASSUME NEW c, PlainCandidate(c), ~Alone, verdict \in {"benign", "unknown"}
  PROVE  EnrichmentBoost(EnrichmentsOf(c)) = 0
<1>1. ASSUME NEW e \in EnrichmentsOf(c) PROVE EnrichmentPoints(e) = 0
  <2>1. e \in Enrich(CandidateIndicators(c)) \/ \E ip : e = IntelOf(ip)
    BY <1>1 DEF EnrichmentsOf, IndicatorsOf
  <2>2. ASSUME e \in Enrich(CandidateIndicators(c)) PROVE EnrichmentPoints(e) = 0
    <3>1. PICK i \in CandidateIndicators(c) : e = EnrichIndicator(i)
      BY <2>2 DEF Enrich
    <3>2. QED
      BY <3>1, QuietCandidate DEF Quiet
  <2>3. QED
    BY <2>1, <2>2, QuietIntel
<1>2. QED
  BY <1>1, QuietBoost

\* Three for its alerts, one for their number and one for how far they spread.
LEMMA PlainCandidateScores ==
  ASSUME NEW c, PlainCandidate(c), NEW es, EnrichmentBoost(es) = 0,
         NEW asset, asset.criticality \notin {"critical", "high"}
  PROVE  ScoreCandidate(c, es, asset) \in 1 .. 5
<1>. DEFINE S == {ScoreAlert(a, {}) : a \in ToSet(c.alerts)}
<1>1. S \subseteq 1 .. 3 /\ S # {}
  <2>1. S \subseteq 1 .. 3
    BY PlainScores DEF PlainCandidate
  <2>2. Len(c.alerts) \in Nat /\ DOMAIN c.alerts = 1 .. Len(c.alerts) /\ Len(c.alerts) # 0
    BY IsList DEF PlainCandidate, FormedCandidate, ScorableCandidate, Alerted
  <2>3. c.alerts[1] \in ToSet(c.alerts)
    BY <2>2 DEF ToSet
  <2>4. QED
    BY <2>1, <2>3
<1>. HIDE DEF S
<1>2. PICK m \in 1 .. 3 : m = Max(S)
  <2>1. Max(S) \in S
    BY <1>1, MaxIsIn
  <2>2. QED
    BY <1>1, <2>1
<1>3. PICK kinds, spread \in 0 .. 1 :
        /\ kinds = Points(Cardinality(Detections(c)) >= 3, 1)
        /\ spread = Points(Cardinality(c.srcs) >= 2 \/ Cardinality(c.dsts) >= 2, 1)
  <2>1. /\ Points(Cardinality(Detections(c)) >= 3, 1) \in 0 .. 1
        /\ Points(Cardinality(c.srcs) >= 2 \/ Cardinality(c.dsts) >= 2, 1) \in 0 .. 1
    BY PointsIs
  <2>2. QED
    BY <2>1
<1>4. Points(c.user # NoText, 1) = 0
  BY PlainNames DEF Points
<1>5. AssetBoost(asset) = 0
  <2>1. Points(asset.criticality = "critical", 2) = 0 /\ Points(asset.criticality = "high", 1) = 0
    BY DEF Points
  <2>2. \A facing : Points(0 + 0 > 0 /\ facing, 1) = 0
    BY DEF Points
  <2>3. AssetBoost(asset) = Min({3, 0 + 0 + 0})
    BY <2>1, <2>2 DEF AssetBoost
  <2>4. Min({3, 0}) = 0
    BY MinOfTwo
  <2>5. QED
    BY <2>3, <2>4
<1>6. ScoreCandidate(c, es, asset) = Clamp(m + kinds + spread + 0 + 0 + 0)
  BY <1>2, <1>3, <1>4, <1>5 DEF ScoreCandidate, S
<1>7. m + kinds + spread + 0 + 0 + 0 \in 1 .. 5
  BY <1>2, <1>3
<1>8. QED
  BY <1>6, <1>7, ClampIs

\* What intelligence says is one of the four verdicts.
JudgedInv ==
    PagedInv /\ verdict \in {"malicious", "suspicious", "benign", "unknown"}

LEMMA JudgedInitial ==
  ASSUME NarrationInit PROVE JudgedInv
BY PagedInitial, AssessmentConstants DEF JudgedInv, NarrationInit, CalibrationInit, Init

LEMMA JudgedStep ==
  ASSUME JudgedInv, [NarrationNext]_everything PROVE JudgedInv'
<1>1. PagedInv'
  BY PagedStep DEF JudgedInv
<1>2. ASSUME ClusterAlerts PROVE UNCHANGED verdict
  BY <1>2 DEF ClusterAlerts, run
<1>3. ASSUME NEW item, NEW v, NEW s, Record(item, v, s) PROVE UNCHANGED verdict
  BY <1>3 DEF Record, vars, run
<1>4. UNCHANGED verdict \/ verdict' = "unknown"
  BY <1>2, <1>3, RunsGoOn, NarrationStays
  DEF CalibrationNext, PromoteReview, allVars, vars, run
<1>5. QED
  BY <1>1, <1>4 DEF JudgedInv

\* Where a score of 5 is neither promoted nor paged, and by default 8 is the least
\* that is: what only a firewall speaks of is in no incident, however many of its
\* events there are, unless intelligence, the inventory or a model speaks too.
THEOREM FirewallIsContext ==
  ASSUME PromoteAt > 5, PageAt > 5,
         \A e \in Events : e.source = "openbsd_pf" => PlainEvent(e)
  PROVE  NarrationSpec => []FirewallAloneStaysBelow
<1>1. ASSUME JudgedInv PROVE FirewallAloneStaysBelow
  <2>1. SUFFICES ASSUME NEW i \in DOMAIN incidents, NEW item \in ToSet(incidents[i].items),
               item.result.source = "local",
               \A a \in ToSet(item.candidate.alerts) : a.source = "openbsd_pf",
               verdict \notin {"malicious", "suspicious"},
               AssetOf(item.candidate).criticality \notin {"critical", "high"}
        PROVE  FALSE
    BY DEF FirewallAloneStaysBelow
  <2>2. phase = "done" /\ use = "pipeline"
    <3>1. incidents # <<>>
      BY <2>1, EmptySeq
    <3>2. QED
      BY <1>1, <3>1 DEF JudgedInv, PagedInv
  <2>3. /\ ClusteredInv /\ SourceInv /\ DecidedWell(items, candidates, current)
        /\ incidents = Group(items, Qualified(items))
        /\ Candidated(candidates, ToSet(Alerts))
    BY <1>1, <2>2 DEF JudgedInv, PagedInv, ClusteredInv
  <2>4. PICK p \in Qualified(items) : item = items[p]
    <3>1. /\ IsInjective(items) /\ Qualified(items) \subseteq DOMAIN items
          /\ IsFiniteSet(Qualified(items)) /\ Qualified(items) \subseteq Nat
          /\ Keyed(Qualified(items), [j \in DOMAIN items |-> CandidateKey(items[j].candidate)])
      BY <2>3, DecidedKeyed
    <3>2. Grouped(incidents, items, Qualified(items))
      BY <2>3, <3>1, GroupParts
    <3>3. QED
      BY <2>1, <3>2 DEF Grouped, IncidentsOf
  <2>5. p \in DOMAIN items /\ Qualifies(item)
    BY <2>4 DEF Qualified
  <2>6. PICK k \in DOMAIN candidates :
          /\ item.candidate = candidates[k]
          /\ item.action = RoutedAction(item.result.score)
    BY <2>3, <2>4, <2>5 DEF DecidedWell
  <2>7. PICK c : c = item.candidate
    OBVIOUS
  <2>8. PlainCandidate(c)
    <3>1. FormedCandidate(c)
      BY <2>3, <2>6, <2>7, CandidatesFormed DEF ClusteredInv
    <3>2. ToSet(c.alerts) \subseteq ToSet(Alerts)
      BY <2>3, <2>6, <2>7 DEF Candidated
    <3>3. ASSUME NEW a \in ToSet(c.alerts) PROVE PlainAlert(a)
      <4>1. PICK n \in DOMAIN batch : a = Normalize(batch[n])
        BY <3>2 DEF Alerts, ToSet
      <4>2. batch[n] \in Events
        BY <2>3, LenProperties DEF ClusteredInv, Batched
      <4>3. batch[n].source = "openbsd_pf"
        BY <2>1, <2>7, <4>1, SourceIsKept
      <4>4. QED
        BY <4>1, <4>2, <4>3, PlainIsNormalized
    <3>4. QED
      BY <3>1, <3>3 DEF PlainCandidate
  <2>9. item.result.score = LocalScore(c)
    BY <2>1, <2>3, <2>4, <2>5, <2>7 DEF SourceInv, Sourced
  <2>10. ~Alone
    BY <2>2 DEF Alone
  <2>11. LocalScore(c) = ScoreCandidate(c, EnrichmentsOf(c), AssetOf(c))
    BY <2>2, <2>10 DEF LocalScore
  <2>12. EnrichmentBoost(EnrichmentsOf(c)) = 0
    BY <1>1, <2>1, <2>8, <2>10, QuietEnrichments DEF JudgedInv
  <2>13. PICK n \in 1 .. 5 : n = item.result.score
    BY <2>1, <2>7, <2>8, <2>9, <2>11, <2>12, PlainCandidateScores
  <2>14. PromoteAt \in Int /\ PageAt \in Int
    BY ScoringConstants
  <2>15. ~(n >= PromoteAt) /\ ~(n >= PageAt)
    BY <2>14
  <2>16. RoutedAction(n) # "page_now"
    BY <2>15 DEF RoutedAction, ActionAt
  <2>17. QED
    BY <2>5, <2>6, <2>13, <2>15, <2>16 DEF Qualifies
<1>2. QED
  BY <1>1, JudgedInitial, JudgedStep, PTL DEF NarrationSpec

-----------------------------------------------------------------------------
(* What a report shows.                                                    *)

\* A finite set is listed, each member once.
LEMMA SetsAreListed ==
  ASSUME NEW S, IsFiniteSet(S)
  PROVE  /\ Cardinality(S) \in Nat /\ SetToSeq(S) \in [1 .. Cardinality(S) -> S]
         /\ IsInjective(SetToSeq(S)) /\ \A x \in S : \E n \in DOMAIN SetToSeq(S) : x = SetToSeq(S)[n]
<1>. DEFINE N == Cardinality(S)  f == SetToSeq(S)
<1>1. N \in Nat /\ ExistsBijection(1 .. N, S)
  BY FS_CardinalityType
<1>2. PICK g : g \in Bijection(1 .. N, S)
  BY <1>1 DEF ExistsBijection
<1>3. g \in [1 .. N -> S] /\ IsInjective(g)
  BY <1>2 DEF Bijection, Injection, IsInjective
<1>4. f \in [1 .. N -> S] /\ IsInjective(f)
  BY <1>3 DEF SetToSeq
<1>. HIDE DEF f
<1>5. f \in Injection(1 .. N, S)
  BY <1>4 DEF Injection, IsInjective
<1>6. Cardinality(1 .. N) = N
  BY <1>1, FS_Interval
<1>7. f \in Surjection(1 .. N, S)
  BY <1>5, <1>6, FS_Injection
<1>8. \A x \in S : \E n \in DOMAIN f : x = f[n]
  BY <1>4, <1>7 DEF Surjection
<1>9. QED
  BY <1>1, <1>4, <1>8 DEF f

LEMMA SortTimestamps ==
  ASSUME NEW a, a.time \in Int
  PROVE  SortTimestamp(a) \in Nat
<1>1. PICK t \in Int : t = a.time
  OBVIOUS
<1>2. Max({t, 0}) = IF t > 0 THEN t ELSE 0
  BY DEF Max
<1>3. QED
  BY <1>1, <1>2 DEF SortTimestamp

\* A timeline has what the incident has, each pair once and in order.
LEMMA TimelineShows ==
  ASSUME NEW incident, IsFiniteSet(AlertPairs(incident)),
         \A p \in AlertPairs(incident) : Timed(p.alert)
  PROVE  LET shown == Timeline(incident)
         IN  /\ Len(shown) = Cardinality(AlertPairs(incident))
             /\ ToSet(shown) = AlertPairs(incident)
             /\ \A n \in 2 .. Len(shown) :
                   SortTimestamp(shown[n - 1].alert) <= SortTimestamp(shown[n].alert)
<1>. DEFINE S == AlertPairs(incident)  N == Cardinality(S)  pairs == SetToSeq(S)
            Key(a) == <<SortTimestamp(a), a.id[1], a.id[2], a.id[3]>>
            keys == [n \in DOMAIN pairs |-> Key(pairs[n].alert)]
            shown == Timeline(incident)
<1>1. /\ N \in Nat /\ pairs \in [1 .. N -> S] /\ DOMAIN pairs = 1 .. N
      /\ \A x \in S : \E n \in 1 .. N : x = pairs[n]
  BY SetsAreListed
<1>2. shown = Sorted(pairs, 1 .. N, keys)
  BY <1>1 DEF Timeline
<1>. HIDE DEF pairs, shown, N
<1>3. \A i \in 1 .. N : Timed(pairs[i].alert) /\ keys[i] = Key(pairs[i].alert)
  BY <1>1
<1>4. ASSUME NEW i \in 1 .. N
      PROVE  keys[i] \in [1 .. 4 -> Int] /\ keys[i][1] = SortTimestamp(pairs[i].alert)
  <2>1. PICK a : a = pairs[i].alert /\ Timed(a)
    BY <1>3
  <2>2. SortTimestamp(a) \in Nat
    BY <2>1, SortTimestamps DEF Timed
  <2>3. Key(a) \in [1 .. 4 -> Int] /\ Key(a)[1] = SortTimestamp(a)
    BY <2>1, <2>2 DEF Timed
  <2>4. QED
    BY <1>3, <2>1, <2>3
<1>. HIDE DEF keys
<1>5. Keyed(1 .. N, keys)
  BY <1>4 DEF Keyed
<1>6. 1 .. N \subseteq Nat /\ IsFiniteSet(1 .. N) /\ Cardinality(1 .. N) = N
  BY <1>1, FS_Interval
<1>7. DOMAIN shown = 1 .. N /\ \E order : Arranges(order, pairs, 1 .. N, keys)
  BY <1>2, <1>5, <1>6, SortingFollows
<1>8. PICK order \in [1 .. N -> 1 .. N] :
        /\ \A n \in 1 .. N : shown[n] = pairs[order[n]]
        /\ \A i \in 1 .. N : \E n \in 1 .. N : order[n] = i
        /\ \A m, n \in 1 .. N : m < n => Precedes(keys, order[m], order[n])
  BY <1>2, <1>6, <1>7 DEF Arranges
<1>9. shown = [n \in 1 .. N |-> shown[n]]
  BY <1>2, <1>6 DEF Sorted
<1>10. Len(shown) = N
  BY <1>1, <1>9, ListOf
<1>11. ToSet(shown) = S
  <2>1. \A n \in 1 .. N : shown[n] \in S
    BY <1>1, <1>8
  <2>2. \A x \in S : \E n \in 1 .. N : x = shown[n]
    <3>1. ASSUME NEW x \in S PROVE \E n \in 1 .. N : x = shown[n]
      <4>1. PICK i \in 1 .. N : x = pairs[i]
        BY <1>1
      <4>2. PICK n \in 1 .. N : order[n] = i
        BY <1>8
      <4>3. QED
        BY <1>8, <4>1, <4>2
    <3>2. QED
      BY <3>1
  <2>3. QED
    BY <1>7, <2>1, <2>2 DEF ToSet
<1>12. ASSUME NEW n \in 2 .. N
       PROVE  SortTimestamp(shown[n - 1].alert) <= SortTimestamp(shown[n].alert)
  <2>1. n \in 1 .. N /\ n - 1 \in 1 .. N /\ n - 1 < n
    BY <1>1
  <2>2. Precedes(keys, order[n - 1], order[n])
    BY <1>8, <2>1
  <2>3. PICK i \in 1 .. N, j \in 1 .. N : i = order[n - 1] /\ j = order[n]
    BY <1>8, <2>1
  <2>4. PICK x \in [1 .. 4 -> Int], y \in [1 .. 4 -> Int] : x = keys[i] /\ y = keys[j]
    BY <1>4
  <2>5. Lexicographic(x, y) \/ ~Lexicographic(y, x)
    BY <2>2, <2>3, <2>4 DEF Precedes
  <2>6. ~(y[1] < x[1])
    BY <2>5 DEF Lexicographic
  <2>7. x[1] = SortTimestamp(shown[n - 1].alert) /\ y[1] = SortTimestamp(shown[n].alert)
    BY <1>4, <1>8, <2>1, <2>3, <2>4
  <2>8. QED
    BY <2>4, <2>6, <2>7
<1>13. QED
  BY <1>10, <1>11, <1>12 DEF shown, N

\* Alerts of one id are one alert, which is in one candidate.
LEMMA PairsApart ==
  ASSUME ClusteredInv, phase # "start", DecidedWell(items, candidates, current),
         NEW incident, incident.items \in Seq(ToSet(incident.items)),
         ToSet(incident.items) \subseteq ToSet(items)
  PROVE  /\ IsFiniteSet(AlertPairs(incident))
         /\ \A p \in AlertPairs(incident) : Timed(p.alert)
         /\ \A p, q \in AlertPairs(incident) : p.alert.id = q.alert.id => p = q
<1>. DEFINE S == AlertPairs(incident)
            Of(item) == {[alert |-> a, of |-> item.candidate.id] :
                            a \in ToSet(item.candidate.alerts)}
<1>1. /\ Batched(batch) /\ Candidated(candidates, ToSet(Alerts)) /\ Alerted(Alerts)
  BY AlertsOfBatch DEF ClusteredInv
<1>2. S = UNION {Of(item) : item \in ToSet(incident.items)}
  BY DEF AlertPairs, Loaded
<1>3. ASSUME NEW item \in ToSet(items)
      PROVE  \E k \in DOMAIN candidates : item.candidate = candidates[k]
  BY DEF DecidedWell, ToSet
<1>4. ASSUME NEW k \in DOMAIN candidates
      PROVE  /\ Len(candidates[k].alerts) \in Nat
             /\ DOMAIN candidates[k].alerts = 1 .. Len(candidates[k].alerts)
             /\ ToSet(candidates[k].alerts) \subseteq ToSet(Alerts)
  <2>1. PICK list : list = candidates[k].alerts
    OBVIOUS
  <2>2. list \in Seq(ToSet(list)) /\ ToSet(list) \subseteq ToSet(Alerts)
    BY <1>1, <2>1 DEF Candidated, Alerted
  <2>3. QED
    BY <2>1, <2>2, IsList
<1>5. ASSUME NEW p \in S
      PROVE  \E k \in DOMAIN candidates : /\ p.alert \in ToSet(candidates[k].alerts)
                                          /\ p = [alert |-> p.alert, of |-> candidates[k].id]
  <2>1. PICK item \in ToSet(incident.items) : p \in Of(item)
    BY <1>2
  <2>2. PICK k \in DOMAIN candidates : item.candidate = candidates[k]
    BY <1>3, <2>1
  <2>3. QED
    BY <2>1, <2>2
<1>6. IsFiniteSet(S)
  <2>1. ASSUME NEW item \in ToSet(incident.items) PROVE IsFiniteSet(Of(item))
    <3>1. PICK k \in DOMAIN candidates : item.candidate = candidates[k]
      BY <1>3
    <3>. DEFINE list == candidates[k].alerts
                f == [n \in DOMAIN list |-> [alert |-> list[n], of |-> candidates[k].id]]
    <3>2. IsFiniteSet(DOMAIN list)
      BY <1>4, FS_Interval
    <3>3. Of(item) = {f[n] : n \in DOMAIN list}
      BY <3>1 DEF ToSet
    <3>. HIDE DEF f
    <3>4. QED
      BY <3>2, <3>3, FiniteImage
  <2>. DEFINE listed == incident.items  h == [item \in ToSet(listed) |-> Of(item)]
  <2>2. IsFiniteSet(ToSet(listed))
    <3>1. DOMAIN listed = 1 .. Len(listed) /\ Len(listed) \in Nat
      BY IsList
    <3>2. ToSet(listed) = {listed[n] : n \in DOMAIN listed}
      BY DEF ToSet
    <3>. HIDE DEF listed
    <3>3. IsFiniteSet(DOMAIN listed)
      BY <3>1, FS_Interval
    <3>4. QED
      BY <3>2, <3>3, FiniteImage
  <2>3. \A item \in ToSet(listed) : h[item] = Of(item)
    OBVIOUS
  <2>. DEFINE T == {h[item] : item \in ToSet(listed)}
  <2>. HIDE DEF h, Of
  <2>4. IsFiniteSet(T)
    BY <2>2, FiniteImage
  <2>5. \A x \in T : IsFiniteSet(x)
    BY <2>1, <2>3
  <2>6. S = UNION T
    BY <1>2, <2>3
  <2>. HIDE DEF T
  <2>7. QED
    BY <2>4, <2>5, <2>6, FS_UNION
<1>7. ASSUME NEW p \in S PROVE Timed(p.alert)
  <2>1. p.alert \in ToSet(Alerts)
    BY <1>4, <1>5
  <2>2. QED
    BY <1>1, <2>1 DEF Alerted, ToSet
<1>8. ASSUME NEW p \in S, NEW q \in S, p.alert.id = q.alert.id PROVE p = q
  <2>1. PICK j \in DOMAIN candidates : /\ p.alert \in ToSet(candidates[j].alerts)
                                       /\ p = [alert |-> p.alert, of |-> candidates[j].id]
    BY <1>5
  <2>2. PICK k \in DOMAIN candidates : /\ q.alert \in ToSet(candidates[k].alerts)
                                       /\ q = [alert |-> q.alert, of |-> candidates[k].id]
    BY <1>5
  <2>3. p.alert \in ToSet(Alerts) /\ q.alert \in ToSet(Alerts)
    BY <1>4, <2>1, <2>2
  <2>4. p.alert = q.alert
    <3>1. PICK m \in DOMAIN batch, n \in DOMAIN batch :
            p.alert = Normalize(batch[m]) /\ q.alert = Normalize(batch[n])
      BY <2>3 DEF Alerts, ToSet
    <3>2. batch[m] \in Events /\ batch[n] \in Events
      BY <1>1, LenProperties DEF Batched
    <3>3. AlertId(batch[m]) = AlertId(batch[n])
      BY <1>8, <3>1, NormalizedFields
    <3>4. QED
      BY <3>1, <3>2, <3>3, EventConstants
  <2>5. j = k
    BY <1>1, <2>1, <2>2, <2>3, <2>4 DEF Candidated
  <2>6. QED
    BY <2>1, <2>2, <2>4, <2>5
<1>9. QED
  BY <1>6, <1>7, <1>8

\* What a report shows of its incident is the incident: its alerts, each once and in
\* order, and its score, for any events, windows and limits.
THEOREM ShownIsTrue == NarrationSpec => []ShownTrue
<1>1. ASSUME PagedInv PROVE ShownTrue
  <2>1. SUFFICES ASSUME NEW i \in DOMAIN incidents
        PROVE  LET shown == Timeline(incidents[i])
               IN  /\ {p.alert.id : p \in ToSet(shown)} = incidents[i].alerts
                   /\ Len(shown) = Cardinality(incidents[i].alerts)
                   /\ \A n \in 2 .. Len(shown) :
                         SortTimestamp(shown[n - 1].alert) <= SortTimestamp(shown[n].alert)
                   /\ MaximumScore(incidents[i]) = incidents[i].score
    BY DEF ShownTrue
  <2>2. phase = "done" /\ use = "pipeline"
    BY <1>1 DEF PagedInv
  <2>3. /\ ClusteredInv /\ DecidedWell(items, candidates, current)
        /\ Candidated(candidates, ToSet(Alerts)) /\ incidents = Group(items, Qualified(items))
    BY <1>1, <2>2 DEF PagedInv, ClusteredInv
  <2>4. /\ IsInjective(items) /\ Qualified(items) \subseteq DOMAIN items
        /\ IsFiniteSet(Qualified(items)) /\ Qualified(items) \subseteq Nat
        /\ Keyed(Qualified(items), [j \in DOMAIN items |-> CandidateKey(items[j].candidate)])
    BY <2>3, DecidedKeyed
  <2>5. Grouped(incidents, items, Qualified(items))
    BY <2>3, <2>4, GroupParts
  <2>6. PICK incident : incident = incidents[i]
    OBVIOUS
  <2>7. PICK group : incident = ToIncident(group, i) /\ group.items \in Seq(ToSet(group.items))
    BY <2>1, <2>5, <2>6 DEF Grouped
  <2>8. /\ incident.items = group.items
        /\ incident.alerts = UNION {{a.id : a \in ToSet(m.candidate.alerts)} :
                                       m \in ToSet(group.items)}
        /\ incident.score = MaximumScore(incident)
    BY <2>7 DEF ToIncident, MaximumScore, Loaded
  <2>9. incident.items \in Seq(ToSet(incident.items))
    BY <2>7, <2>8
  <2>10. ToSet(incident.items) \subseteq ToSet(items)
    <3>1. ASSUME NEW x \in ToSet(incident.items) PROVE x \in ToSet(items)
      <4>1. PICK q \in DOMAIN items : x = items[q]
        BY <2>1, <2>4, <2>5, <2>6 DEF Grouped
      <4>2. QED
        BY <4>1 DEF ToSet
    <3>2. QED
      BY <3>1
  <2>. DEFINE S == AlertPairs(incident)  shown == Timeline(incident)
              Ids == {p.alert.id : p \in S}
  <2>11. /\ IsFiniteSet(S) /\ \A p \in S : Timed(p.alert)
         /\ \A p, q \in S : p.alert.id = q.alert.id => p = q
    BY <2>2, <2>3, <2>9, <2>10, PairsApart
  <2>12. /\ Len(shown) = Cardinality(S) /\ ToSet(shown) = S
         /\ \A n \in 2 .. Len(shown) :
               SortTimestamp(shown[n - 1].alert) <= SortTimestamp(shown[n].alert)
    BY <2>11, TimelineShows
  <2>13. Ids = incident.alerts
    <3>1. S = UNION {{[alert |-> a, of |-> m.candidate.id] : a \in ToSet(m.candidate.alerts)} :
                        m \in ToSet(group.items)}
      BY <2>8 DEF AlertPairs, Loaded
    <3>2. ASSUME NEW id \in Ids PROVE id \in incident.alerts
      <4>1. PICK p \in S : id = p.alert.id
        BY <3>2
      <4>2. PICK m \in ToSet(group.items) :
              \E a \in ToSet(m.candidate.alerts) : p = [alert |-> a, of |-> m.candidate.id]
        BY <3>1, <4>1
      <4>3. QED
        BY <2>8, <4>1, <4>2
    <3>3. ASSUME NEW id \in incident.alerts PROVE id \in Ids
      <4>1. PICK m \in ToSet(group.items) : \E a \in ToSet(m.candidate.alerts) : id = a.id
        BY <2>8, <3>3
      <4>2. PICK a \in ToSet(m.candidate.alerts) : id = a.id
        BY <4>1
      <4>3. PICK p : p = [alert |-> a, of |-> m.candidate.id]
        OBVIOUS
      <4>4. p \in {[alert |-> x, of |-> m.candidate.id] : x \in ToSet(m.candidate.alerts)}
        BY <4>3
      <4>5. p \in S
        BY <3>1, <4>4
      <4>6. p.alert.id = id
        BY <4>2, <4>3
      <4>7. QED
        BY <4>5, <4>6
    <3>4. QED
      BY <3>2, <3>3
  <2>14. Cardinality(Ids) = Cardinality(S)
    <3>. DEFINE f == [p \in S |-> p.alert.id]
    <3>1. f \in Bijection(S, Ids)
      <4>. HIDE DEF S
      <4>1. f \in [S -> Ids] /\ \A p \in S : f[p] = p.alert.id
        OBVIOUS
      <4>2. f \in Injection(S, Ids)
        <5>. HIDE DEF Ids, f
        <5>1. ASSUME NEW p \in S, NEW q \in S, f[p] = f[q] PROVE p = q
          BY <2>11, <4>1, <5>1
        <5>2. QED
          BY <4>1, <5>1 DEF Injection, IsInjective
      <4>3. \A x \in Ids : \E p \in S : f[p] = x
        BY <4>1
      <4>4. f \in Surjection(S, Ids)
        <5>. HIDE DEF Ids, f
        <5>1. QED
          BY <4>1, <4>3 DEF Surjection
      <4>5. QED
        BY <4>2, <4>4 DEF Bijection
    <3>. HIDE DEF S, Ids, f
    <3>2. QED
      BY <2>11, <3>1, FS_Bijection DEF ExistsBijection
  <2>15. QED
    BY <2>6, <2>8, <2>12, <2>13, <2>14
<1>2. QED
  BY <1>1, PagedInitial, PagedStep, PTL DEF NarrationSpec

\* Readers are told the truth of who wrote and of what happened.
THEOREM ToldIsTrue == NarrationSpec => []ToldTrue
<1>1. AuthorTrue /\ ShownTrue => ToldTrue
  BY DEF ToldTrue
<1>2. QED
  BY <1>1, AuthorsAreTrue, ShownIsTrue, PTL

-----------------------------------------------------------------------------
(* Clustering a cluster again.                                             *)

\* Placing one more alert is placing it among the clusters of those before.
LEMMA ClustersOfNext ==
  ASSUME NEW s, s \in Seq(ToSet(s)), NEW a
  PROVE  Clusters(Append(s, a)) = PlaceAlert(Clusters(s), a)
<1>. DEFINE t == Append(s, a)  L == Len(s)
<1>1. /\ L \in Nat /\ Len(t) = L + 1 /\ t[L + 1] = a
      /\ \A n \in 1 .. L : t[n] = s[n]
  BY AppendKeeps
<1>2. PICK f : /\ f[0] = <<>> /\ Clusters(s) = f[L]
               /\ \A n \in 1 .. L : f[n] = PlaceAlert(f[n - 1], s[n])
  BY <1>1, PlacingAlerts
<1>3. PICK g : /\ g[0] = <<>> /\ Clusters(t) = g[L + 1]
               /\ \A n \in 1 .. L + 1 : g[n] = PlaceAlert(g[n - 1], t[n])
  <2>. HIDE DEF t
  <2>1. QED
    BY <1>1, PlacingAlerts
<1>. HIDE DEF t, L
<1>. DEFINE apart == {n \in 0 .. L : f[n] # g[n]}
<1>4. apart = {}
  <2>1. SUFFICES ASSUME apart # {} PROVE FALSE
    OBVIOUS
  <2>2. PICK n \in apart : \A m \in apart : n <= m
    <3>1. apart \subseteq Nat
      BY <1>1
    <3>. HIDE DEF apart
    <3>2. QED
      BY <2>1, <3>1, LeastExists
  <2>3. n \in 1 .. L /\ n - 1 \in 0 .. L
    BY <1>1, <1>2, <1>3, <2>2
  <2>4. n - 1 \notin apart
    BY <2>2, <2>3
  <2>5. f[n - 1] = g[n - 1]
    BY <2>3, <2>4
  <2>6. f[n] = PlaceAlert(f[n - 1], s[n]) /\ g[n] = PlaceAlert(g[n - 1], s[n])
    BY <1>1, <1>2, <1>3, <2>3
  <2>7. QED
    BY <2>2, <2>5, <2>6
<1>5. f[L] = g[L]
  BY <1>1, <1>4
<1>6. g[L + 1] = PlaceAlert(g[L], a)
  <2>1. L + 1 \in 1 .. L + 1 /\ (L + 1) - 1 = L
    BY <1>1
  <2>2. QED
    BY <1>1, <1>3, <2>1
<1>7. QED
  BY <1>2, <1>3, <1>5, <1>6 DEF t

\* The alerts of a cluster make it again, and no other.
Replays(c) == IsInjective(c.alerts) /\ Clusters(c.alerts) = <<c>>

LEMMA ReplaysFirst ==
  ASSUME NEW a PROVE Replays(NewCluster(a))
<1>. DEFINE c == NewCluster(a)
<1>1. c.alerts = <<a>> /\ Append(<<>>, a) = <<a>> /\ Append(<<>>, c) = <<c>>
  BY DEF NewCluster
<1>2. IsInjective(<<a>>)
  BY DEF IsInjective
<1>. HIDE DEF c
<1>3. Clusters(<<>>) = <<>>
  <2>1. Len(<<>>) = 0
    OBVIOUS
  <2>2. QED
    BY <2>1, PlacingAlerts
<1>4. Clusters(<<a>>) = PlaceAlert(<<>>, a)
  <2>1. <<>> \in Seq(ToSet(<<>>))
    BY EmptySeq
  <2>2. QED
    BY <1>1, <1>3, <2>1, ClustersOfNext
<1>5. PlaceAlert(<<>>, a) = <<c>>
  <2>1. {i \in DOMAIN <<>> : TakesAlert(a, <<>>[i])} = {}
    BY EmptySeq
  <2>2. QED
    BY <1>1, <2>1 DEF PlaceAlert, c
<1>6. QED
  BY <1>1, <1>2, <1>4, <1>5 DEF Replays, c

LEMMA ReplaysNext ==
  ASSUME NEW c, Replays(c), Alerted(c.alerts),
         NEW a, a \notin ToSet(c.alerts), TakesAlert(a, c)
  PROVE  Replays(AddedTo(c, a))
<1>. DEFINE d == AddedTo(c, a)  old == c.alerts  new == Append(old, a)
<1>1. d.alerts = new
  BY DEF AddedTo
<1>2. /\ Len(old) \in Nat /\ DOMAIN old = 1 .. Len(old) /\ DOMAIN new = 1 .. Len(old) + 1
      /\ \A n \in DOMAIN old : new[n] = old[n] /\ new[n] \in ToSet(old)
      /\ new[Len(old) + 1] = a
  <2>1. \A n \in DOMAIN old : old[n] \in ToSet(old)
    BY DEF ToSet
  <2>2. QED
    BY <2>1, AppendKeeps DEF Alerted
<1>3. IsInjective(new)
  <2>. HIDE DEF new
  <2>1. ASSUME NEW m \in DOMAIN new, NEW n \in DOMAIN new, new[m] = new[n] PROVE m = n
    <3>1. /\ m \in DOMAIN old \/ m = Len(old) + 1
          /\ n \in DOMAIN old \/ n = Len(old) + 1
      BY <1>2
    <3>2. CASE m \in DOMAIN old /\ n \in DOMAIN old
      BY <1>2, <2>1, <3>2 DEF Replays, IsInjective
    <3>3. QED
      BY <1>2, <2>1, <3>1, <3>2
  <2>2. QED
    BY <2>1 DEF IsInjective
<1>4. Clusters(new) = PlaceAlert(<<c>>, a)
  BY ClustersOfNext DEF Replays, Alerted
<1>5. PlaceAlert(<<c>>, a) = <<d>>
  <2>1. DOMAIN <<c>> = {1} /\ <<c>>[1] = c
    OBVIOUS
  <2>2. {i \in DOMAIN <<c>> : TakesAlert(a, <<c>>[i])} = {1}
    BY <2>1
  <2>3. Max({1}) = 1
    BY MaxIsIn
  <2>4. PlaceAlert(<<c>>, a) = [<<c>> EXCEPT ![1] = AddedTo(@, a)]
    BY <2>2, <2>3 DEF PlaceAlert
  <2>. HIDE DEF d
  <2>5. [<<c>> EXCEPT ![1] = d] = <<d>>
    OBVIOUS
  <2>6. QED
    BY <2>4, <2>5 DEF d
<1>6. QED
  BY <1>1, <1>3, <1>4, <1>5 DEF Replays

LEMMA ClustersReplay ==
  ASSUME NEW s, Alerted(s), InOrder(s), IsInjective(s)
  PROVE  \A i \in DOMAIN Clusters(s) : Replays(Clusters(s)[i])
<1>. DEFINE Again(cs) == \A i \in DOMAIN cs : Replays(cs[i])
<1>1. Len(s) \in Nat /\ DOMAIN s = 1 .. Len(s)
  BY IsList DEF Alerted
<1>2. PICK after : /\ after[0] = <<>>
                   /\ \A n \in 1 .. Len(s) : after[n] = PlaceAlert(after[n - 1], s[n])
                   /\ Clusters(s) = after[Len(s)]
  BY <1>1, PlacingAlerts
<1>3. ASSUME NEW n \in DOMAIN s, NEW cs, PlacedWell(cs, s, n - 1), Again(cs)
      PROVE  Again(PlaceAlert(cs, s[n]))
  <2>. DEFINE a == s[n]  new == PlaceAlert(cs, a)
              fitting == {i \in DOMAIN cs : TakesAlert(a, cs[i])}
  <2>1. /\ cs \in Seq(ToSet(cs)) /\ DOMAIN cs = 1 .. Len(cs) /\ Len(cs) \in Nat
        /\ \A i \in DOMAIN cs : WellMade(cs[i], s, n - 1)
    BY <1>3, IsList DEF PlacedWell
  <2>2. CASE fitting = {}
    <3>1. new = Append(cs, NewCluster(a))
      BY <2>2 DEF PlaceAlert
    <3>2. PICK c : c = NewCluster(a) /\ Replays(c)
      BY ReplaysFirst
    <3>3. /\ DOMAIN new = 1 .. Len(cs) + 1 /\ new[Len(cs) + 1] = c
          /\ \A i \in DOMAIN cs : new[i] = cs[i]
      BY <2>1, <3>1, <3>2, AppendKeeps
    <3>. HIDE DEF new
    <3>4. \A i \in DOMAIN new : i \in DOMAIN cs \/ i = Len(cs) + 1
      BY <2>1, <3>3
    <3>5. QED
      BY <1>3, <3>2, <3>3, <3>4 DEF new
  <2>3. CASE fitting # {}
    <3>. DEFINE f == Max(fitting)
    <3>1. f \in fitting
      BY <2>1, <2>3, MaxIsIn
    <3>2. f \in DOMAIN cs /\ TakesAlert(a, cs[f])
      BY <3>1
    <3>3. new = [cs EXCEPT ![f] = AddedTo(cs[f], a)]
      BY <2>3 DEF PlaceAlert
    <3>. HIDE DEF f
    <3>4. a \notin ToSet(cs[f].alerts)
      <4>1. ASSUME a \in ToSet(cs[f].alerts) PROVE FALSE
        <5>1. PICK k \in DOMAIN cs[f].alerts : a = cs[f].alerts[k]
          BY <4>1 DEF ToSet
        <5>2. PICK m \in 1 .. n - 1 : a = s[m]
          BY <2>1, <3>2, <5>1 DEF WellMade
        <5>3. m \in DOMAIN s /\ m # n
          BY <1>1
        <5>4. QED
          BY <5>2, <5>3 DEF IsInjective
      <4>2. QED
        BY <4>1
    <3>5. Replays(AddedTo(cs[f], a))
      BY <1>3, <2>1, <3>2, <3>4, ReplaysNext DEF WellMade
    <3>6. QED
      BY <1>3, <3>2, <3>3, <3>5
  <2>4. QED
    BY <2>2, <2>3
<1>. HIDE DEF Again
<1>. DEFINE bad == {n \in 0 .. Len(s) : ~(PlacedWell(after[n], s, n) /\ Again(after[n]))}
<1>4. bad = {}
  <2>1. SUFFICES ASSUME bad # {} PROVE FALSE
    OBVIOUS
  <2>2. PICK n \in bad : \A k \in bad : n <= k
    <3>1. bad \subseteq Nat
      OBVIOUS
    <3>. HIDE DEF bad
    <3>2. QED
      BY <2>1, <3>1, LeastExists
  <2>3. PlacedWell(after[0], s, 0) /\ Again(after[0])
    <3>1. <<>> \in Seq(ToSet(<<>>)) /\ DOMAIN <<>> = {}
      BY EmptySeq
    <3>2. QED
      BY <1>2, <3>1 DEF PlacedWell, Parted, Again
  <2>4. n - 1 \in 0 .. Len(s) /\ n - 1 \notin bad /\ n \in DOMAIN s
    BY <1>1, <2>2, <2>3
  <2>5. PlacedWell(after[n - 1], s, n - 1) /\ Again(after[n - 1])
    BY <2>4
  <2>6. PlacedWell(after[n], s, n) /\ Again(after[n])
    BY <1>1, <1>2, <1>3, <2>4, <2>5, PlacingAlert
  <2>7. QED
    BY <2>2, <2>6
<1>5. QED
  BY <1>1, <1>2, <1>4 DEF Again

\* Lists of the same alerts are of one length.
LEMMA SameLength ==
  ASSUME NEW s, Alerted(s), IsInjective(s), NEW t, Alerted(t), IsInjective(t),
         ToSet(s) = ToSet(t)
  PROVE  Len(s) = Len(t)
BY AnyOrder

\* The alerts of a candidate make one candidate of the same alerts.
LEMMA CandidateAgain ==
  ASSUME NEW alerts, Alerted(alerts), IsInjective(alerts), KeysApart(ToSet(alerts)),
         NEW k \in DOMAIN Cluster(alerts), NEW t, Alerted(t), IsInjective(t),
         ToSet(t) = ToSet(Cluster(alerts)[k].alerts)
  PROVE  LET list == Cluster(alerts)[k].alerts
         IN  /\ Len(t) = Len(list) /\ (Len(t) = 1 => t = list)
             /\ \A n \in DOMAIN Cluster(t) : Cluster(t)[n].alerts = list
<1>. DEFINE s == SortedAlerts(alerts)  made == Clusters(s)  cs == Cluster(alerts)
<1>1. Alerted(s) /\ InOrder(s) /\ IsInjective(s) /\ ToSet(s) = ToSet(alerts)
  BY SortingAlerts
<1>2. PlacedWell(made, s, Len(s)) /\ \A i \in DOMAIN made : Replays(made[i])
  BY <1>1, ClustersAreWell, ClustersReplay
<1>3. DOMAIN cs = DOMAIN made /\ cs[k] = ToCandidate(made[k], k)
  BY DEF Cluster
<1>. HIDE DEF s, cs, made
<1>4. PICK c : c = made[k] /\ WellMade(c, s, Len(s)) /\ Replays(c)
  BY <1>2, <1>3 DEF PlacedWell, cs
<1>5. PICK list : list = c.alerts
  OBVIOUS
<1>6. /\ Alerted(list) /\ InOrder(list) /\ IsInjective(list) /\ Clusters(list) = <<c>>
      /\ cs[k].alerts = list
  <2>1. Alerted(list) /\ InOrder(list) /\ IsInjective(list) /\ Clusters(list) = <<c>>
    BY <1>4, <1>5 DEF WellMade, Replays
  <2>2. ToCandidate(c, k).alerts = c.alerts
    BY <1>4, CandidateOfCluster
  <2>3. cs[k].alerts = list
    BY <1>3, <1>4, <1>5, <2>2
  <2>4. QED
    BY <2>1, <2>3
<1>7. SortedAlerts(list) = list
  BY <1>6, SortingAlerts
<1>8. ToSet(t) = ToSet(list) /\ Len(t) = Len(list)
  BY <1>6, SameLength DEF cs
<1>9. KeysApart(ToSet(list))
  <2>1. ToSet(cs[k].alerts) \subseteq ToSet(alerts)
    BY ClusteringParts DEF Candidated, cs
  <2>2. QED
    BY <1>6, <2>1 DEF KeysApart
<1>10. SortedAlerts(t) = list
  BY <1>6, <1>7, <1>8, <1>9, SortingForgets
<1>11. Cluster(t) = [i \in DOMAIN <<c>> |-> ToCandidate(<<c>>[i], i)]
  BY <1>6, <1>10 DEF Cluster
<1>12. \A n \in DOMAIN Cluster(t) : Cluster(t)[n].alerts = list
  <2>1. DOMAIN <<c>> = {1} /\ <<c>>[1] = c
    OBVIOUS
  <2>2. \A n \in DOMAIN Cluster(t) : Cluster(t)[n] = ToCandidate(c, n)
    BY <1>11, <2>1
  <2>3. QED
    BY <1>4, <1>5, <2>2, CandidateOfCluster
<1>13. ASSUME Len(t) = 1 PROVE t = list
  <2>1. /\ DOMAIN t = 1 .. 1 /\ DOMAIN list = 1 .. 1
    BY <1>6, <1>8, <1>13, IsList DEF Alerted
  <2>2. t[1] = list[1]
    BY <1>8, <2>1 DEF ToSet
  <2>3. t \in Seq(ToSet(list)) /\ list \in Seq(ToSet(list))
    BY <1>6, <1>8 DEF Alerted
  <2>4. QED
    BY <1>8, <1>13, <2>1, <2>2, <2>3, SeqEqual
<1>14. QED
  BY <1>6, <1>8, <1>12, <1>13 DEF cs

\* The events of a case are those of the alerts that its target names.
LEMMA FixtureIs ==
  ASSUME Batched(batch), NEW target, NEW S, S \subseteq ToSet(Alerts),
         target.alerts = {a.id : a \in S}
  PROVE  {Normalize(e) : e \in ToSet(Fixture(target))} = S
<1>. DEFINE of == {i \in DOMAIN batch : Normalize(batch[i]).id \in target.alerts}
            keys == [i \in of |-> <<batch[i].collected, batch[i].id>>]
            f == Fixture(target)  N == Cardinality(of)
<1>1. /\ Len(batch) \in Nat /\ DOMAIN batch = 1 .. Len(batch)
      /\ \A i \in DOMAIN batch : batch[i] \in Events
  BY LenProperties DEF Batched
<1>2. Keyed(of, keys)
  <2>1. \A i \in of : batch[i].collected \in Int /\ batch[i].id \in Int
    BY <1>1, EventConstants DEF EventTyped, NoNumber
  <2>2. \A i \in of : keys[i] \in [1 .. 2 -> Int]
    BY <2>1
  <2>3. QED
    BY <2>2 DEF Keyed
<1>3. f = Sorted(batch, of, keys)
  BY DEF Fixture
<1>4. \A i \in DOMAIN batch : i \in of <=> Normalize(batch[i]) \in S
  <2>1. ASSUME NEW i \in DOMAIN batch, i \in of PROVE Normalize(batch[i]) \in S
    <3>1. PICK a \in S : Normalize(batch[i]).id = a.id
      BY <2>1
    <3>2. PICK j \in DOMAIN batch : a = Normalize(batch[j])
      BY <3>1 DEF Alerts, ToSet
    <3>3. AlertId(batch[i]) = AlertId(batch[j])
      BY <3>1, <3>2, NormalizedFields
    <3>4. batch[i] = batch[j]
      BY <1>1, <3>3, EventConstants
    <3>5. QED
      BY <3>1, <3>2, <3>4
  <2>2. QED
    BY <2>1
<1>5. of \subseteq Nat /\ IsFiniteSet(of) /\ of \subseteq DOMAIN batch
  <2>1. of \in SUBSET (1 .. Len(batch)) /\ IsFiniteSet(1 .. Len(batch))
    BY <1>1, FS_Interval
  <2>2. QED
    BY <1>1, <2>1, FS_Subset
<1>. HIDE DEF of, keys, f
<1>6. PICK order \in [1 .. N -> of] :
        /\ DOMAIN f = 1 .. N /\ \A n \in 1 .. N : f[n] = batch[order[n]]
        /\ \A i \in of : \E n \in 1 .. N : order[n] = i
  <2>1. DOMAIN f = 1 .. N /\ \E order : Arranges(order, batch, of, keys)
    BY <1>2, <1>3, <1>5, SortingFollows
  <2>2. QED
    BY <1>3, <2>1 DEF Arranges
<1>7. \A n \in DOMAIN f : Normalize(f[n]) \in S
  BY <1>4, <1>5, <1>6
<1>8. ASSUME NEW a \in S PROVE \E n \in DOMAIN f : a = Normalize(f[n])
  <2>1. PICK i \in DOMAIN batch : a = Normalize(batch[i])
    BY DEF Alerts, ToSet
  <2>2. PICK n \in 1 .. N : order[n] = i
    BY <1>4, <1>6, <2>1
  <2>3. QED
    BY <1>6, <2>1, <2>2
<1>9. QED
  BY <1>7, <1>8 DEF ToSet, f

-----------------------------------------------------------------------------
(* Scoring a candidate again.                                              *)

\* What an evaluation scores, and the score, of a case that is one candidate.
IndicatorsAnew(c) ==
    IF Len(c.alerts) = 1 THEN AlertIndicators(c.alerts[1]) ELSE CandidateIndicators(c)
ScoreAnew(c) ==
    IF Len(c.alerts) = 1 THEN ScoreAlert(c.alerts[1], Enrich(IndicatorsAnew(c)))
    ELSE ScoreCandidate(c, Enrich(IndicatorsAnew(c)), NoAsset)

LEMMA SameAnew ==
  ASSUME NEW c, FormedCandidate(c), NEW d, FormedCandidate(d), c.alerts = d.alerts
  PROVE  ScoreAnew(c) = ScoreAnew(d) /\ IndicatorsAnew(c) = IndicatorsAnew(d)
<1>1. /\ c.srcs = d.srcs /\ c.dsts = d.dsts /\ c.host = d.host /\ c.user = d.user
  BY DEF FormedCandidate, ScorableCandidate
<1>2. CandidateIndicators(c) = CandidateIndicators(d)
  BY <1>1 DEF CandidateIndicators
<1>3. IndicatorsAnew(c) = IndicatorsAnew(d)
  BY <1>2 DEF IndicatorsAnew
<1>4. Detections(c) = Detections(d)
  BY DEF Detections
<1>5. ASSUME NEW es PROVE ScoreCandidate(c, es, NoAsset) = ScoreCandidate(d, es, NoAsset)
  BY <1>1, <1>4 DEF ScoreCandidate
<1>6. QED
  BY <1>3, <1>5 DEF ScoreAnew

\* One address and one name are those of the alert.
LEMMA SingleIndicators ==
  ASSUME NEW c, FormedCandidate(c), Len(c.alerts) = 1
  PROVE  /\ CandidateIndicators(c) = AlertIndicators(c.alerts[1])
         /\ ToSet(c.alerts) = {c.alerts[1]}
<1>. DEFINE a == c.alerts[1]
<1>1. DOMAIN c.alerts = 1 .. 1 /\ ToSet(c.alerts) = {a}
  <2>1. DOMAIN c.alerts = 1 .. 1
    BY IsList DEF FormedCandidate, ScorableCandidate, Alerted
  <2>2. QED
    BY <2>1 DEF ToSet
<1>2. c.host = a.host /\ c.user = a.user
  <2>1. ASSUME NEW field, NEW none
        PROVE  FirstOf(c.alerts, field, none) = a[field]
    <3>. DEFINE there == {i \in DOMAIN c.alerts : c.alerts[i][field] # none}
    <3>1. CASE a[field] = none
      <4>1. there = {}
        BY <1>1, <3>1
      <4>2. QED
        BY <3>1, <4>1 DEF FirstOf
    <3>2. CASE a[field] # none
      <4>1. there = {1}
        BY <1>1, <3>2
      <4>2. Min({1}) = 1
        BY DEF Min
      <4>3. QED
        BY <4>1, <4>2 DEF FirstOf
    <3>3. QED
      BY <3>1, <3>2
  <2>2. /\ FirstOf(c.alerts, "host", NoHost) = a.host
        /\ FirstOf(c.alerts, "user", NoText) = a.user
    BY <2>1
  <2>3. QED
    BY <2>2 DEF FormedCandidate
<1>3. c.srcs = {a.src} \ {NoText} /\ c.dsts = {a.dst} \ {NoText}
  BY <1>1 DEF FormedCandidate, ScorableCandidate
<1>. HIDE DEF a
<1>4. {Indicator("ip", ip, {}) : ip \in c.srcs \cup c.dsts}
        = AppendIndicator("ip", a.src) \cup AppendIndicator("ip", a.dst)
  <2>1. ASSUME NEW x
        PROVE  {Indicator("ip", ip, {}) : ip \in {x} \ {NoText}} = AppendIndicator("ip", x)
    <3>1. CASE x = NoText
      <4>1. {x} \ {NoText} = {}
        BY <3>1
      <4>2. QED
        BY <3>1, <4>1 DEF AppendIndicator
    <3>2. CASE x # NoText
      <4>1. {x} \ {NoText} = {x}
        BY <3>2
      <4>2. QED
        BY <3>2, <4>1 DEF AppendIndicator
    <3>3. QED
      BY <3>1, <3>2
  <2>2. {Indicator("ip", ip, {}) : ip \in c.srcs \cup c.dsts}
          = {Indicator("ip", ip, {}) : ip \in c.srcs}
            \cup {Indicator("ip", ip, {}) : ip \in c.dsts}
    OBVIOUS
  <2>3. QED
    BY <1>3, <2>1, <2>2
<1>5. UNION {AlertIndicators(b) : b \in ToSet(c.alerts)} = AlertIndicators(a)
  BY <1>1
<1>6. CandidateIndicators(c)
        = UNION {AppendIndicator("ip", a.src) \cup AppendIndicator("ip", a.dst),
                 TextIndicator("host", ToSet(a.host)), AppendIndicator("user", a.user),
                 AlertIndicators(a)}
  BY <1>2, <1>4, <1>5 DEF CandidateIndicators
<1>7. AlertIndicators(a) =
        UNION {AppendIndicator("ip", a.src), AppendIndicator("ip", a.dst),
               TextIndicator("host", ToSet(a.host)), AppendIndicator("user", a.user),
               TextIndicator("command", a.command), TextIndicator("process", a.process),
               a.found}
  BY DEF AlertIndicators
<1>8. CandidateIndicators(c) = AlertIndicators(a)
  <2>1. PICK s1, s2, s3, s4, s5, s6, s7 :
        /\ s1 = AppendIndicator("ip", a.src) /\ s2 = AppendIndicator("ip", a.dst)
        /\ s3 = TextIndicator("host", ToSet(a.host)) /\ s4 = AppendIndicator("user", a.user)
        /\ s5 = TextIndicator("command", a.command)
        /\ s6 = TextIndicator("process", a.process) /\ s7 = a.found
    OBVIOUS
  <2>2. AlertIndicators(a) = UNION {s1, s2, s3, s4, s5, s6, s7}
    BY <1>7, <2>1
  <2>3. CandidateIndicators(c) = UNION {s1 \cup s2, s3, s4, UNION {s1, s2, s3, s4, s5, s6, s7}}
    BY <1>6, <2>1, <2>2
  <2>4. QED
    BY <2>2, <2>3
<1>9. QED
  BY <1>1, <1>8 DEF a

\* What adds nothing by itself adds nothing to others either.
LEMMA QuietAdds ==
  ASSUME NEW es, NEW more, \A e \in more : EnrichmentPoints(e) = 0
  PROVE  EnrichmentBoost(es \cup more) = EnrichmentBoost(es)
<1>1. \A n \in {1, 2} : {e \in es \cup more : EnrichmentPoints(e) >= n}
                        = {e \in es : EnrichmentPoints(e) >= n}
  OBVIOUS
<1>2. QED
  BY <1>1 DEF EnrichmentBoost

LEMMA ClampNear ==
  ASSUME NEW n \in Int, NEW d \in 0 .. 1
  PROVE  Clamp(n) \in {Clamp(n + d) - 1, Clamp(n + d)}
<1>1. PICK x \in 1 .. 10, y \in 1 .. 10 :
        /\ x = Clamp(n) /\ y = Clamp(n + d)
        /\ n \in 1 .. 10 => x = n
        /\ n > 10 => x = 10
        /\ n < 1 => x = 1
        /\ n + d \in 1 .. 10 => y = n + d
        /\ n + d > 10 => y = 10
        /\ n + d < 1 => y = 1
  BY ClampIs
<1>2. QED
  BY <1>1

\* No inventory, no points.
LEMMA NoAssetIsNothing == AssetBoost(NoAsset) = 0
<1>1. NoAsset.criticality = "unknown"
  BY DEF NoAsset
<1>2. Points(NoAsset.criticality = "critical", 2) = 0 /\ Points(NoAsset.criticality = "high", 1) = 0
  BY <1>1 DEF Points
<1>3. \A facing : Points(0 + 0 > 0 /\ facing, 1) = 0
  BY DEF Points
<1>4. AssetBoost(NoAsset) = Min({3, 0 + 0 + 0})
  BY <1>2, <1>3 DEF AssetBoost
<1>5. Min({3, 0}) = 0
  BY MinOfTwo
<1>6. QED
  BY <1>4, <1>5

LEMMA NothingFound == EnrichmentBoost({}) = 0
BY QuietBoost

\* Of several alerts the inventory's points are all that is missing.
LEMMA SeveralAnew ==
  ASSUME NEW c, ScorableCandidate(c), NEW es, IsFiniteSet(es), NEW more,
         EnrichmentBoost(more) = EnrichmentBoost(es), NEW asset, AssetBoost(asset) <= 1
  PROVE  ScoreCandidate(c, es, NoAsset)
            \in {ScoreCandidate(c, more, asset) - 1, ScoreCandidate(c, more, asset)}
<1>. DEFINE S == {ScoreAlert(a, {}) : a \in ToSet(c.alerts)}
<1>1. PICK m \in Int : m = Max(S)
  <2>1. S \subseteq 1 .. 10
    BY AlertScores, FS_EmptySet DEF ScorableCandidate, Scorable
  <2>2. Len(c.alerts) \in Nat /\ DOMAIN c.alerts = 1 .. Len(c.alerts) /\ Len(c.alerts) # 0
    BY IsList DEF ScorableCandidate, Alerted
  <2>3. c.alerts[1] \in ToSet(c.alerts)
    BY <2>2 DEF ToSet
  <2>4. S # {}
    BY <2>3
  <2>. HIDE DEF S
  <2>5. Max(S) \in S
    BY <2>1, <2>4, MaxIsIn
  <2>6. PICK x \in 1 .. 10 : x = Max(S)
    BY <2>1, <2>5
  <2>7. QED
    BY <2>6
<1>2. PICK kinds, spread, user \in Nat :
        /\ kinds = Points(Cardinality(Detections(c)) >= 3, 1)
        /\ spread = Points(Cardinality(c.srcs) >= 2 \/ Cardinality(c.dsts) >= 2, 1)
        /\ user = Points(c.user # NoText, 1)
  <2>1. /\ Points(Cardinality(Detections(c)) >= 3, 1) \in 0 .. 1
        /\ Points(Cardinality(c.srcs) >= 2 \/ Cardinality(c.dsts) >= 2, 1) \in 0 .. 1
        /\ Points(c.user # NoText, 1) \in 0 .. 1
    BY PointsIs
  <2>2. QED
    BY <2>1
<1>3. PICK found \in Int : found = EnrichmentBoost(es) /\ found = EnrichmentBoost(more)
  BY BoostIs
<1>4. PICK worth \in 0 .. 1 : worth = AssetBoost(asset)
  BY AssetBoostIs
<1>5. PICK sum \in Int : sum = m + kinds + spread + user + found
  OBVIOUS
<1>6. ScoreCandidate(c, es, NoAsset) = Clamp(sum)
  <2>1. ScoreCandidate(c, es, NoAsset) = Clamp(m + kinds + spread + user + found + 0)
    BY <1>1, <1>2, <1>3, NoAssetIsNothing DEF ScoreCandidate
  <2>2. QED
    BY <1>5, <2>1
<1>7. ScoreCandidate(c, more, asset) = Clamp(sum + worth)
  BY <1>1, <1>2, <1>3, <1>4, <1>5 DEF ScoreCandidate
<1>8. QED
  BY <1>6, <1>7, ClampNear

\* An alert is worth what it is, what is found, and what damping takes: never less
\* than one but for an info that is damped.
LEMMA AlertWorth ==
  ASSUME NEW a, a.severity \in DOMAIN BaseScore
  PROVE  \E own \in Nat, damping \in {-1, 0} :
            /\ own + damping >= 0 /\ damping = FrequencyDamping(a)
            /\ own + damping = 0 => a.severity = "info" /\ damping = -1
            /\ \A es : \A found \in Int : found = EnrichmentBoost(es)
                  => ScoreAlert(a, es) = Clamp(own + found + damping)
<1>1. PICK base \in 1 .. 8 :
        base = BaseScore[a.severity] /\ (base = 1 => a.severity = "info")
  BY DEF BaseScore
<1>2. PICK high, medium, out \in Nat :
        /\ high = Points(~Disjoint(Searchable(a), HighRiskTerms), 2)
        /\ medium = Points(~Disjoint(Searchable(a), MediumRiskTerms), 1)
        /\ out = Points(a.dst \notin PrivateAddresses \cup {NoText}, 1)
  <2>1. /\ Points(~Disjoint(Searchable(a), HighRiskTerms), 2) \in 0 .. 2
        /\ Points(~Disjoint(Searchable(a), MediumRiskTerms), 1) \in 0 .. 1
        /\ Points(a.dst \notin PrivateAddresses \cup {NoText}, 1) \in 0 .. 1
    BY PointsIs
  <2>2. QED
    BY <2>1
<1>3. PICK logon, volume \in Nat : logon = LogonTypeBoost(a) /\ volume = VolumeBoost(a)
  <2>1. /\ Points(a.logon = "10", 2) \in 0 .. 2 /\ Points(a.logon = "2", 1) \in 0 .. 1
        /\ Points(a.bytes >= 1, 1) \in 0 .. 1 /\ Points(a.bytes >= 10, 1) \in 0 .. 1
    BY PointsIs
  <2>2. LogonTypeBoost(a) \in Nat /\ VolumeBoost(a) \in Nat
    BY <2>1 DEF LogonTypeBoost, VolumeBoost
  <2>3. QED
    BY <2>2
<1>4. PICK damping \in {-1, 0} : damping = FrequencyDamping(a)
  <2>. DEFINE rare == a.severity \notin {"high", "critical"} /\ a.fired >= 1000
  <2>1. Points(rare, 1) \in 0 .. 1
    BY PointsIs
  <2>2. FrequencyDamping(a) = -Points(rare, 1)
    BY DEF FrequencyDamping
  <2>. HIDE DEF rare
  <2>3. FrequencyDamping(a) \in {-1, 0}
    BY <2>1, <2>2
  <2>4. QED
    BY <2>3
<1>5. PICK own \in Nat : own = base + high + medium + out + logon + volume
  OBVIOUS
<1>6. own >= base
  BY <1>5
<1>7. ASSUME NEW es, NEW found \in Int, found = EnrichmentBoost(es)
      PROVE  ScoreAlert(a, es) = Clamp(own + found + damping)
  <2>1. ScoreAlert(a, es)
          = Clamp(base + high + medium + out + logon + volume + found + damping)
    BY <1>1, <1>2, <1>3, <1>4, <1>7 DEF ScoreAlert
  <2>2. QED
    BY <1>5, <2>1
<1>8. own + damping >= 0 /\ (own + damping = 0 => a.severity = "info" /\ damping = -1)
  BY <1>1, <1>4, <1>6
<1>9. QED
  BY <1>4, <1>7, <1>8

\* Of one alert also its user, and a point that damping took off the least score.
LEMMA SingleAnew ==
  ASSUME NEW c, FormedCandidate(c), Len(c.alerts) = 1, NEW es, IsFiniteSet(es), NEW more,
         EnrichmentBoost(more) = EnrichmentBoost(es), ~(Unmeasured(c) > 1)
  PROVE  ScoreAlert(c.alerts[1], es)
            \in {ScoreCandidate(c, more, AssetOf(c)) - 1, ScoreCandidate(c, more, AssetOf(c))}
<1>. DEFINE a == c.alerts[1]  asset == AssetOf(c)
<1>1. ToSet(c.alerts) = {a}
  BY SingleIndicators
<1>2. a.severity \in DOMAIN BaseScore
  BY <1>1 DEF FormedCandidate, ScorableCandidate, Scorable
<1>3. PICK own \in Nat, damping \in {-1, 0} :
        /\ own + damping >= 0 /\ damping = FrequencyDamping(a)
        /\ own + damping = 0 => a.severity = "info" /\ damping = -1
        /\ \A xs : \A found \in Int : found = EnrichmentBoost(xs)
              => ScoreAlert(a, xs) = Clamp(own + found + damping)
  BY <1>2, AlertWorth
<1>4. PICK found \in 0 .. 3 : found = EnrichmentBoost(es) /\ found = EnrichmentBoost(more)
  BY BoostIs
<1>5. PICK alone \in 1 .. 10 : alone = ScoreAlert(a, {}) /\ alone = Clamp(own + damping)
  <2>1. ScoreAlert(a, {}) = Clamp(own + 0 + damping)
    BY <1>3, NothingFound
  <2>2. own + 0 + damping = own + damping /\ own + damping \in Int
    BY <1>3
  <2>3. QED
    BY <2>1, <2>2, ClampIs
<1>6. {ScoreAlert(b, {}) : b \in ToSet(c.alerts)} = {alone} /\ Max({alone}) = alone
  <2>1. {ScoreAlert(b, {}) : b \in ToSet(c.alerts)} = {alone}
    BY <1>1, <1>5
  <2>2. Max({alone}) \in {alone}
    BY MaxIsIn
  <2>3. QED
    BY <2>1, <2>2
<1>7. Points(Cardinality(Detections(c)) >= 3, 1) = 0
  <2>. DEFINE x == [rule |-> a.rule, id |-> IF a.rule = {} THEN a.id ELSE <<>>]
  <2>1. Detections(c) = {x}
    <3>. HIDE DEF a
    <3>1. QED
      BY <1>1 DEF Detections
  <2>2. Cardinality(Detections(c)) = 1
    BY <2>1, FS_Singleton
  <2>3. QED
    BY <2>2 DEF Points
<1>8. Points(Cardinality(c.srcs) >= 2 \/ Cardinality(c.dsts) >= 2, 1) = 0
  <2>1. ASSUME NEW S, NEW x, S = {x} \ {NoText} PROVE ~(Cardinality(S) >= 2)
    <3>1. S = {} \/ S = {x}
      BY <2>1
    <3>2. Cardinality(S) \in {0, 1}
      BY <3>1, FS_EmptySet, FS_Singleton
    <3>3. QED
      BY <3>2
  <2>2. c.srcs = {a.src} \ {NoText} /\ c.dsts = {a.dst} \ {NoText}
    <3>. HIDE DEF a
    <3>1. QED
      BY <1>1 DEF FormedCandidate, ScorableCandidate
  <2>3. QED
    BY <2>1, <2>2 DEF Points
<1>9. PICK user \in 0 .. 1, worth \in 0 .. 3 :
        user = Points(c.user # NoText, 1) /\ worth = AssetBoost(asset)
  BY PointsIs, AssetBoostIs
<1>10. PICK least \in 0 .. 1 :
         /\ least = Points(a.severity = "info" /\ damping # 0, 1)
         /\ own + damping = 0 => least = 1
  BY <1>3 DEF Points
<1>11. worth + user + least <= 1
  <2>1. Unmeasured(c) = worth + user + least
    BY <1>3, <1>9, <1>10 DEF Unmeasured
  <2>2. QED
    BY <2>1
<1>12. ScoreCandidate(c, more, asset) = Clamp(alone + 0 + 0 + user + found + worth)
  BY <1>4, <1>6, <1>7, <1>8, <1>9 DEF ScoreCandidate
<1>13. ScoreAlert(a, es) = Clamp(own + found + damping)
  BY <1>3, <1>4
<1>14. PICK n \in Int : n = own + damping
  BY <1>3
<1>15. ScoreAlert(a, es) = Clamp(n + found)
  <2>1. own + found + damping = n + found
    BY <1>3, <1>14
  <2>2. QED
    BY <1>13, <2>1
<1>16. CASE n = 0
  <2>1. alone = 1 /\ user = 0 /\ worth = 0
    BY <1>5, <1>10, <1>11, <1>14, <1>16, ClampIs
  <2>2. ScoreCandidate(c, more, asset) = Clamp((n + found) + 1)
    BY <1>12, <1>16, <2>1
  <2>3. QED
    BY <1>14, <1>15, <2>2, ClampNear
<1>17. CASE n \in 1 .. 10
  <2>1. alone = n
    BY <1>5, <1>14, <1>17, ClampIs
  <2>2. ScoreCandidate(c, more, asset) = Clamp((n + found) + (user + worth))
    <3>1. alone + 0 + 0 + user + found + worth = (n + found) + (user + worth)
      BY <2>1
    <3>2. QED
      BY <1>12, <3>1
  <2>3. user + worth \in 0 .. 1
    BY <1>11
  <2>4. QED
    BY <1>14, <1>15, <2>2, <2>3, ClampNear
<1>18. CASE n > 10
  <2>1. alone = 10
    BY <1>5, <1>14, <1>18, ClampIs
  <2>2. PICK x \in Int, y \in Int :
          /\ x = n + found /\ x > 10
          /\ y = alone + 0 + 0 + user + found + worth /\ y >= 10
    BY <1>18, <2>1
  <2>3. Clamp(x) = 10 /\ Clamp(y) = 10
    BY <2>2, ClampIs
  <2>4. QED
    BY <1>12, <1>15, <2>2, <2>3
<1>19. QED
  BY <1>3, <1>14, <1>16, <1>17, <1>18

\* What the pipeline gives a candidate by itself an evaluation gives it again, or
\* one point less, if at most one is unmeasured; or it reads no address of it.
MeasuredAs(c, n) ==
    EnrichmentRaises(IndicatorsAnew(c)) \/ ScoreAnew(c) \in {n - 1, n}

LEMMA MeasuredAgain ==
  ASSUME NEW c, FormedCandidate(c), use = "pipeline", verdict \in {"benign", "unknown"},
         ~(Unmeasured(c) > 1)
  PROVE  MeasuredAs(c, LocalScore(c))
<1>. DEFINE es == Enrich(CandidateIndicators(c))
            intel == {IntelOf(i.value) : i \in {x \in CandidateIndicators(c) :
                                        x.type = "ip" /\ x.value \in PublicAddresses}}
<1>1. ~Alone
  BY DEF Alone
<1>2. EnrichmentsOf(c) = es \cup intel
  BY <1>1 DEF EnrichmentsOf, IndicatorsOf
<1>3. LocalScore(c) = ScoreCandidate(c, es \cup intel, AssetOf(c))
  BY <1>1, <1>2 DEF LocalScore
<1>4. \A e \in intel : EnrichmentPoints(e) = 0
  BY QuietIntel
<1>5. IsFiniteSet(es)
  <2>1. IsFiniteSet(EnrichmentsOf(c)) /\ es \in SUBSET EnrichmentsOf(c)
    BY <1>2, EnrichmentsFinite DEF FormedCandidate
  <2>2. QED
    BY <2>1, FS_Subset
<1>. HIDE DEF es, intel
<1>6. EnrichmentBoost(es \cup intel) = EnrichmentBoost(es)
  BY <1>4, QuietAdds
<1>7. CASE Len(c.alerts) = 1
  <2>1. IndicatorsAnew(c) = CandidateIndicators(c)
    BY <1>7, SingleIndicators DEF IndicatorsAnew
  <2>2. ScoreAnew(c) = ScoreAlert(c.alerts[1], es)
    BY <1>7, <2>1 DEF ScoreAnew, es
  <2>3. QED
    BY <1>3, <1>5, <1>6, <1>7, <2>2, SingleAnew DEF MeasuredAs
<1>8. CASE Len(c.alerts) # 1
  <2>1. ScoreAnew(c) = ScoreCandidate(c, es, NoAsset)
    BY <1>8 DEF ScoreAnew, IndicatorsAnew, es
  <2>2. AssetBoost(AssetOf(c)) <= 1
    <3>1. Unmeasured(c) = AssetBoost(AssetOf(c)) + 0 + 0
      BY <1>8 DEF Unmeasured, Points
    <3>2. AssetBoost(AssetOf(c)) \in 0 .. 3
      BY AssetBoostIs
    <3>3. QED
      BY <3>1, <3>2
  <2>3. QED
    BY <1>3, <1>5, <1>6, <2>1, <2>2, SeveralAnew DEF MeasuredAs, FormedCandidate
<1>9. QED
  BY <1>7, <1>8

\* The batch has the alerts of one candidate of some run, which by itself measures
\* as n again.
SameCase(n) ==
    \E alerts :
        /\ Alerted(alerts) /\ IsInjective(alerts) /\ KeysApart(ToSet(alerts))
        /\ \E k \in DOMAIN Cluster(alerts) :
              LET c == Cluster(alerts)[k]
              IN  /\ ToSet(Alerts) = ToSet(c.alerts)
                  /\ FormedCandidate(c) /\ MeasuredAs(c, n)

LEMMA SameCaseKept ==
  ASSUME UNCHANGED batch, NEW n, SameCase(n) PROVE SameCase(n)'
BY AlertsKept DEF SameCase

LEMMA MadeForms ==
  ASSUME Batched(batch), NEW k \in DOMAIN Made PROVE FormedCandidate(Made[k])
<1>1. Alerted(Alerts) /\ IsInjective(Alerts) /\ Len(Alerts) = Len(batch)
  BY AlertsOfBatch
<1>2. Candidated(Made, ToSet(Alerts))
  <2>1. CASE Alone
    BY <1>1, <2>1, AloneIsCandidate DEF Made, Alone
  <2>2. CASE ~Alone
    BY <1>1, <2>2, ClusteringParts DEF Made
  <2>3. QED
    BY <2>1, <2>2
<1>3. QED
  BY <1>2, CandidatesFormed

\* The alerts of a case that is one candidate make that candidate, and no other.
LEMMA CaseAgain ==
  ASSUME Batched(batch), use = "evaluation", NEW n, SameCase(n), NEW k \in DOMAIN Made
  PROVE  MeasuredAs(Made[k], n) /\ (Alone <=> Len(Made[k].alerts) = 1)
<1>1. /\ Alerted(Alerts) /\ IsInjective(Alerts) /\ Len(Alerts) = Len(batch)
      /\ Len(Alerts) \in Nat /\ DOMAIN Alerts = 1 .. Len(Alerts)
  BY AlertsOfBatch, IsList DEF Alerted
<1>2. PICK alerts : /\ Alerted(alerts) /\ IsInjective(alerts) /\ KeysApart(ToSet(alerts))
                    /\ \E i \in DOMAIN Cluster(alerts) :
                          /\ ToSet(Alerts) = ToSet(Cluster(alerts)[i].alerts)
                          /\ FormedCandidate(Cluster(alerts)[i])
                          /\ MeasuredAs(Cluster(alerts)[i], n)
  BY DEF SameCase
<1>3. PICK i \in DOMAIN Cluster(alerts) :
        /\ ToSet(Alerts) = ToSet(Cluster(alerts)[i].alerts)
        /\ FormedCandidate(Cluster(alerts)[i]) /\ MeasuredAs(Cluster(alerts)[i], n)
  BY <1>2
<1>4. PICK c : c = Cluster(alerts)[i]
  OBVIOUS
<1>5. /\ Len(Alerts) = Len(c.alerts) /\ (Len(Alerts) = 1 => Alerts = c.alerts)
      /\ \A m \in DOMAIN Cluster(Alerts) : Cluster(Alerts)[m].alerts = c.alerts
  <2>1. PICK t : t = Alerts
    OBVIOUS
  <2>2. Alerted(t) /\ IsInjective(t) /\ ToSet(t) = ToSet(Cluster(alerts)[i].alerts)
    BY <1>1, <1>3, <2>1
  <2>3. /\ Len(t) = Len(Cluster(alerts)[i].alerts)
        /\ Len(t) = 1 => t = Cluster(alerts)[i].alerts
        /\ \A m \in DOMAIN Cluster(t) : Cluster(t)[m].alerts = Cluster(alerts)[i].alerts
    BY <1>2, <2>2, CandidateAgain
  <2>4. QED
    BY <1>4, <2>1, <2>3
<1>6. PICK d : d = Made[k] /\ FormedCandidate(d)
  BY MadeForms
<1>7. d.alerts = c.alerts
  <2>1. CASE Alone
    <3>1. Len(Alerts) = 1
      BY <1>1, <2>1 DEF Alone
    <3>2. PICK a : a = Alerts[1] /\ Timed(a)
      BY <1>1, <3>1 DEF Alerted
    <3>3. d = ToCandidate(NewCluster(a), 0)
      BY <1>6, <2>1, <3>2 DEF Made
    <3>4. NewCluster(a).alerts = <<a>>
      BY DEF NewCluster
    <3>5. WellMade(NewCluster(a), Alerts, 1)
      BY <3>2, FirstOfCluster
    <3>6. d.alerts = <<a>>
      BY <3>3, <3>4, <3>5, CandidateOfCluster
    <3>7. Alerts = <<a>>
      <4>1. Alerts \in Seq(ToSet(Alerts)) /\ a \in ToSet(Alerts)
        BY <1>1, <3>1, <3>2 DEF Alerted, ToSet
      <4>2. <<a>> \in Seq(ToSet(Alerts)) /\ Len(<<a>>) = 1 /\ <<a>>[1] = a
        BY <4>1
      <4>3. QED
        BY <3>1, <3>2, <4>1, <4>2, SeqEqual
    <3>8. QED
      BY <1>5, <3>1, <3>6, <3>7
  <2>2. CASE ~Alone
    BY <1>5, <1>6, <2>2 DEF Made
  <2>3. QED
    BY <2>1, <2>2
<1>8. ScoreAnew(d) = ScoreAnew(c) /\ IndicatorsAnew(d) = IndicatorsAnew(c)
  BY <1>3, <1>4, <1>6, <1>7, SameAnew
<1>9. MeasuredAs(d, n)
  BY <1>3, <1>4, <1>8 DEF MeasuredAs
<1>10. Alone <=> Len(d.alerts) = 1
  BY <1>1, <1>5, <1>7 DEF Alone
<1>11. QED
  BY <1>6, <1>9, <1>10

LEMMA AnewIs ==
  ASSUME use = "evaluation", NEW c, Alone <=> Len(c.alerts) = 1
  PROVE  IndicatorsOf(c) = IndicatorsAnew(c) /\ LocalScore(c) = ScoreAnew(c)
<1>1. IndicatorsOf(c) = IndicatorsAnew(c)
  BY DEF IndicatorsOf, IndicatorsAnew
<1>2. EnrichmentsOf(c) = Enrich(IndicatorsAnew(c))
  BY <1>1 DEF EnrichmentsOf
<1>3. QED
  BY <1>1, <1>2 DEF LocalScore, ScoreAnew

\* So what triage gives a case by itself is what was queued, or one point less.
LEMMA CaseScores ==
  ASSUME OrderInv, use = "evaluation", phase # "start", current \in DOMAIN candidates,
         NEW n, SameCase(n), ~EnrichmentRaises(IndicatorsOf(Candidate))
  PROVE  LocalScore(Candidate) \in {n - 1, n}
<1>1. PICK c : c = Candidate /\ MeasuredAs(c, n) /\ (Alone <=> Len(c.alerts) = 1)
  BY CaseAgain DEF OrderInv, Candidate
<1>2. IndicatorsOf(c) = IndicatorsAnew(c) /\ LocalScore(c) = ScoreAnew(c)
  BY <1>1, AnewIs
<1>3. QED
  BY <1>1, <1>2 DEF MeasuredAs

-----------------------------------------------------------------------------
(* What results are of.                                                    *)

\* A result names the candidate that it is of.
TargetInv ==
    /\ SourceInv
    /\ phase = "decided" => result.target = Candidate.id
    /\ \A n \in DOMAIN items : items[n].result.target = items[n].candidate.id

LEMMA TargetStep ==
  ASSUME TargetInv, SourceInv', [NarrationNext]_everything PROVE TargetInv'
<1>1. ASSUME UNCHANGED items, phase' # "decided" PROVE TargetInv'
  BY <1>1 DEF TargetInv
<1>2. ASSUME UNCHANGED <<items, phase, result, candidates, current>> PROVE TargetInv'
  BY <1>2 DEF TargetInv, Candidate
<1>3. ASSUME Next PROVE TargetInv'
  <2>1. ASSUME ClusterAlerts PROVE TargetInv'
    BY <1>1, <2>1 DEF ClusterAlerts, outcome
  <2>2. ASSUME StartTriage PROVE TargetInv'
    <3>1. UNCHANGED <<items, candidates, current>> /\ Candidate' = Candidate
      BY <2>2 DEF StartTriage, outcome, Candidate
    <3>2. phase' = "decided" => result' = LocalResult(Candidate)
      BY <2>2 DEF StartTriage
    <3>3. LocalResult(Candidate).target = Candidate.id
      BY DEF LocalResult
    <3>4. QED
      BY <3>1, <3>2, <3>3 DEF TargetInv
  <2>3. ASSUME NEW e, AskAgain(e) PROVE TargetInv'
    BY <1>2, <2>3 DEF AskAgain, outcome
  <2>4. ASSUME phase = "asked", FallbackOrRaise PROVE TargetInv'
    <3>1. UNCHANGED <<items, candidates, current>> /\ Candidate' = Candidate
      BY <2>4 DEF FallbackOrRaise, outcome, Candidate
    <3>2. phase' = "decided" => result' = fallback
      BY <2>4 DEF FallbackOrRaise
    <3>3. fallback.target = Candidate.id
      BY <2>4 DEF TargetInv, SourceInv, LocalResult
    <3>4. QED
      BY <3>1, <3>2, <3>3 DEF TargetInv
  <2>5. ASSUME NEW e, ModelFails(e) PROVE TargetInv'
    BY <2>4, <2>5 DEF ModelFails
  <2>6. ASSUME CompletionEmpty PROVE TargetInv'
    BY <2>4, <2>6 DEF CompletionEmpty
  <2>7. ASSUME AnswerUnusable PROVE TargetInv'
    BY <1>2, <2>4, <2>7 DEF AnswerUnusable, outcome
  <2>8. ASSUME ModelBreaks PROVE TargetInv'
    BY <1>1, <2>8 DEF ModelBreaks, NextCandidate, outcome
  <2>9. ASSUME NEW a, AnswerUsable(a) PROVE TargetInv'
    <3>1. UNCHANGED <<items, candidates, current>> /\ Candidate' = Candidate
      BY <2>9 DEF AnswerUsable, outcome, Candidate
    <3>2. result' = ResultOf(a) /\ ResultOf(a).target = Candidate.id
      BY <2>9 DEF AnswerUsable, ResultOf
    <3>3. QED
      BY <3>1, <3>2 DEF TargetInv
  <2>10. ASSUME Decide PROVE TargetInv'
    <3>1. PICK x : /\ items' = Append(items, x) /\ x.result = result
                   /\ x.candidate = Candidate
      BY <2>10 DEF Decide
    <3>2. items \in Seq(ToSet(items)) /\ result.target = Candidate.id
      BY <2>10 DEF TargetInv, SourceInv, Decide
    <3>3. PICK new : /\ new = items' /\ Len(items) \in Nat
                     /\ DOMAIN items = 1 .. Len(items) /\ DOMAIN new = 1 .. Len(items) + 1
                     /\ \A n \in DOMAIN items : new[n] = items[n]
                     /\ new[Len(items) + 1] = x
      BY <3>1, <3>2, AppendKeeps
    <3>4. \A n \in DOMAIN new : n \in DOMAIN items \/ n = Len(items) + 1
      BY <3>3
    <3>5. \A n \in DOMAIN new : new[n].result.target = new[n].candidate.id
      BY <3>1, <3>2, <3>3, <3>4 DEF TargetInv
    <3>6. phase' # "decided"
      BY <2>10 DEF Decide, NextCandidate
    <3>7. QED
      BY <3>3, <3>5, <3>6 DEF TargetInv
  <2>11. ASSUME Promote PROVE TargetInv'
    BY <1>1, <2>11 DEF Promote
  <2>12. ASSUME Measure PROVE TargetInv'
    BY <1>1, <2>12 DEF Measure
  <2>13. ASSUME Terminated PROVE TargetInv'
    BY <1>2, <2>13 DEF Terminated, vars, call, outcome
  <2>14. QED
    BY <1>3, <2>1, <2>2, <2>3, <2>5, <2>6, <2>7, <2>8, <2>9, <2>10, <2>11, <2>12, <2>13
    DEF Next
<1>4. ASSUME UNCHANGED vars PROVE TargetInv'
  BY <1>2, <1>4 DEF vars, call, outcome
<1>5. ASSUME NEW item, PromoteReview(item) PROVE TargetInv'
  <2>1. items' = <<>> /\ phase' = "start" /\ DOMAIN <<>> = {}
    BY <1>5, EmptySeq DEF PromoteReview
  <2>2. QED
    BY <2>1 DEF TargetInv
<1>6. QED
  BY <1>3, <1>4, <1>5, NarrationStays DEF CalibrationNext, Record, allVars

\* What was reviewed was decided in this run, and whether it can be measured again
\* was noted truly.
Recorded ==
    \E p \in DOMAIN items :
        /\ review.result = items[p].result
        /\ ~spoke => /\ verdict \notin {"malicious", "suspicious"}
                     /\ ~(Unmeasured(items[p].candidate) > 1)

Repeatable == label # NoLabel /\ review.result.source = "local" /\ ~spoke
MeasuresAs(n, score) == score \in {n - 1, n}

\* The case of a label that can be measured again is the candidate that was
\* reviewed, and is measured as it was, or one point less.
BandInv ==
    /\ ScoredInv /\ JudgedInv /\ OrderInv /\ TargetInv
    /\ use = "pipeline" /\ review # NoReview => phase = "done" /\ Recorded
    /\ Repeatable => SameCase(review.result.score)
    /\ Repeatable /\ engine = "local" =>
          /\ phase = "decided" => MeasuresAs(review.result.score, result.score)
          /\ \A n \in DOMAIN items : MeasuresAs(review.result.score, items[n].result.score)
          /\ phase = "done" => MeasuresAs(review.result.score, measured.score)

LEMMA BandInitial ==
  ASSUME NarrationInit PROVE BandInv
<1>1. /\ phase = "start" /\ items = <<>> /\ review = NoReview /\ label = NoLabel
      /\ DOMAIN <<>> = {}
  BY EmptySeq DEF NarrationInit, CalibrationInit, Init
<1>2. OrderInv /\ TargetInv
  BY <1>1, ClusteredInitial, SourceInitial DEF OrderInv, ClusteredInv, TargetInv
<1>3. QED
  BY <1>1, <1>2, ScoredInitial, JudgedInitial DEF BandInv, Repeatable

LEMMA DoneStops ==
  ASSUME Next, phase = "done" PROVE UNCHANGED vars
BY DEF Next, ClusterAlerts, StartTriage, AskAgain, ModelFails, CompletionEmpty,
   AnswerUnusable, ModelBreaks, AnswerUsable, Decide, Promote, Measure, Terminated

LEMMA RunsOn ==
  ASSUME Next PROVE UNCHANGED <<use, batch, engine>>
<1>1. ASSUME ClusterAlerts PROVE UNCHANGED <<use, batch, engine>>
  BY <1>1 DEF ClusterAlerts, run
<1>2. QED
  BY <1>1, RunsGoOn DEF vars, run

\* The steps of a case that is measured again.
LEMMA BandMeasures ==
  ASSUME BandInv, Next, UNCHANGED calibration, Repeatable, engine = "local"
  PROVE  LET n == review.result.score
         IN  /\ phase' = "decided" => MeasuresAs(n, result'.score)
             /\ \A i \in DOMAIN items' : MeasuresAs(n, items'[i].result.score)
             /\ phase' = "done" => MeasuresAs(n, measured'.score)
<1>. DEFINE n == review.result.score
            Goal == /\ phase' = "decided" => MeasuresAs(n, result'.score)
                    /\ \A i \in DOMAIN items' : MeasuresAs(n, items'[i].result.score)
                    /\ phase' = "done" => MeasuresAs(n, measured'.score)
<1>1. /\ use = "evaluation" /\ SameCase(n) /\ ScoredInv /\ OrderInv /\ PagedInv
      /\ phase # "asked"
      /\ phase = "decided" => MeasuresAs(n, result.score)
      /\ \A i \in DOMAIN items : MeasuresAs(n, items[i].result.score)
      /\ phase = "done" => MeasuresAs(n, measured.score)
  BY DEF BandInv, Repeatable, ScoredInv, TargetInv, SourceInv
<1>. HIDE DEF n
<1>2. ASSUME UNCHANGED items, phase' \notin {"decided", "done"} PROVE Goal
  BY <1>1, <1>2
<1>3. ASSUME ClusterAlerts PROVE Goal
  BY <1>2, <1>3 DEF ClusterAlerts, outcome
<1>4. ASSUME StartTriage PROVE Goal
  <2>1. UNCHANGED items /\ phase' # "done"
    BY <1>4 DEF StartTriage, outcome
  <2>2. ASSUME phase' = "decided" PROVE MeasuresAs(n, result'.score)
    <3>1. /\ ~EnrichmentRaises(IndicatorsOf(Candidate)) /\ result' = LocalResult(Candidate)
      BY <1>1, <1>4, <2>2 DEF StartTriage
    <3>2. phase # "start" /\ current \in DOMAIN candidates
      BY <1>1, <1>4 DEF StartTriage, PagedInv
    <3>3. LocalScore(Candidate) \in {n - 1, n}
      BY <1>1, <3>1, <3>2, CaseScores
    <3>4. LocalResult(Candidate).score = LocalScore(Candidate)
      BY DEF LocalResult
    <3>5. QED
      BY <3>1, <3>3, <3>4 DEF MeasuresAs
  <2>3. QED
    BY <1>1, <2>1, <2>2
<1>5. ASSUME Decide PROVE Goal
  <2>1. PICK x : items' = Append(items, x) /\ x.result = result
    BY <1>5 DEF Decide
  <2>2. items \in Seq(ToSet(items)) /\ MeasuresAs(n, result.score)
    BY <1>1, <1>5 DEF PagedInv, SourceInv, Decide
  <2>3. PICK new : /\ new = items' /\ Len(items) \in Nat
                   /\ DOMAIN items = 1 .. Len(items) /\ DOMAIN new = 1 .. Len(items) + 1
                   /\ \A i \in DOMAIN items : new[i] = items[i]
                   /\ new[Len(items) + 1] = x
    BY <2>1, <2>2, AppendKeeps
  <2>4. \A i \in DOMAIN new : i \in DOMAIN items \/ i = Len(items) + 1
    BY <2>3
  <2>5. \A i \in DOMAIN new : MeasuresAs(n, new[i].result.score)
    BY <1>1, <2>1, <2>2, <2>3, <2>4
  <2>6. phase' \notin {"decided", "done"}
    BY <1>5 DEF Decide, NextCandidate
  <2>7. QED
    BY <2>3, <2>5, <2>6
<1>6. ASSUME Measure PROVE Goal
  <2>. DEFINE S == {i.result.score : i \in ToSet(items)}
  <2>1. items # <<>> /\ items \in Seq(ToSet(items))
    BY <1>1, <1>6 DEF ScoredInv, Measure, PagedInv, SourceInv
  <2>2. Len(items) \in Nat /\ DOMAIN items = 1 .. Len(items)
    BY <2>1, IsList
  <2>3. 1 \in DOMAIN items
    BY <2>1, <2>2, EmptySeq, LenProperties
  <2>4. \A x \in S : x \in 1 .. 10 /\ MeasuresAs(n, x)
    BY <1>1 DEF ScoredInv, ToSet
  <2>5. S # {}
    BY <2>3 DEF ToSet
  <2>6. UNCHANGED items /\ phase' = "done" /\ measured'.score = Max(S)
    BY <1>6 DEF Measure
  <2>. HIDE DEF S
  <2>7. Max(S) \in S
    <3>1. S \subseteq 1 .. 10 /\ 10 \in Nat
      BY <2>4
    <3>2. QED
      BY <2>5, <3>1, MaxIsIn
  <2>8. QED
    BY <1>1, <2>4, <2>6, <2>7
<1>7. ASSUME Terminated PROVE Goal
  BY <1>1, <1>7 DEF Terminated, vars, call, outcome
<1>8. Goal
  BY <1>1, <1>3, <1>4, <1>5, <1>6, <1>7
  DEF Next, AskAgain, ModelFails, CompletionEmpty, AnswerUnusable, ModelBreaks,
      AnswerUsable, Promote
<1>9. QED
  BY <1>8 DEF n

\* A case is made of the alerts of the candidate that was reviewed.
LEMMA BandPromotes ==
  ASSUME BandInv, NEW item \in Reviewed, PromoteReview(item),
         review.result.source = "local", ~spoke
  PROVE  SameCase(review.result.score)'
<1>1. /\ item = review /\ review # NoReview /\ use = "pipeline" /\ phase = "done"
      /\ batch' = Fixture(review.result.target) /\ UNCHANGED review
  BY DEF Reviewed, PromoteReview
<1>2. PICK p \in DOMAIN items :
        /\ review.result = items[p].result
        /\ verdict \notin {"malicious", "suspicious"}
        /\ ~(Unmeasured(items[p].candidate) > 1)
  BY <1>1 DEF BandInv, Recorded
<1>3. /\ Batched(batch) /\ SourceInv /\ DecidedWell(items, candidates, current)
      /\ candidates = Made /\ items[p].result.target = items[p].candidate.id
      /\ verdict \in {"benign", "unknown"}
  BY <1>1, <1>2 DEF BandInv, ScoredInv, PagedInv, OrderInv, TargetInv, JudgedInv
<1>4. Made = Cluster(Alerts)
  BY <1>1 DEF Made, Alone
<1>5. PICK k \in DOMAIN Cluster(Alerts) : items[p].candidate = Cluster(Alerts)[k]
  BY <1>3, <1>4 DEF DecidedWell
<1>6. PICK c, alerts : alerts = Alerts /\ c = Cluster(alerts)[k] /\ c = items[p].candidate
  BY <1>5
<1>7. /\ Alerted(alerts) /\ IsInjective(alerts) /\ KeysApart(ToSet(alerts))
  BY <1>3, <1>6, AlertsOfBatch, AlertsApart
<1>8. FormedCandidate(c)
  BY <1>3, <1>4, <1>5, <1>6, MadeForms
<1>9. ToSet(c.alerts) \subseteq ToSet(alerts)
  BY <1>5, <1>6, <1>7, ClusteringParts DEF Candidated
<1>10. c.id.alerts = {a.id : a \in ToSet(c.alerts)}
  BY <1>5, <1>6 DEF Cluster, ToCandidate
<1>11. PICK n : n = review.result.score /\ n = LocalScore(c)
  BY <1>2, <1>3, <1>6 DEF SourceInv, Sourced
<1>12. MeasuredAs(c, n)
  BY <1>1, <1>2, <1>3, <1>6, <1>8, <1>11, MeasuredAgain
<1>13. ToSet(Alerts)' = ToSet(c.alerts)
  <2>1. PICK target, made : /\ target = review.result.target /\ target = c.id
                            /\ made = Fixture(target) /\ batch' = made
    BY <1>1, <1>2, <1>3, <1>6
  <2>2. {Normalize(e) : e \in ToSet(made)} = ToSet(c.alerts)
    BY <1>3, <1>6, <1>9, <1>10, <2>1, FixtureIs
  <2>3. ToSet(Alerts)' = {Normalize(e) : e \in ToSet(made)}
    BY <2>1 DEF Alerts, ToSet
  <2>4. QED
    BY <2>2, <2>3
<1>14. SameCase(n)'
  BY <1>5, <1>6, <1>7, <1>8, <1>12, <1>13 DEF SameCase
<1>15. QED
  BY <1>1, <1>11, <1>14

LEMMA BandStep ==
  ASSUME BandInv, [NarrationNext]_everything PROVE BandInv'
<1>1. ScoredInv' /\ JudgedInv' /\ OrderInv' /\ TargetInv'
  <2>1. SourceInv'
    BY SourceStep DEF BandInv, TargetInv
  <2>2. QED
    BY <2>1, ScoredStep, JudgedStep, OrderStep, TargetStep DEF BandInv
<1>2. ASSUME UNCHANGED allVars PROVE BandInv'
  <2>1. UNCHANGED <<use, engine, batch, verdict, phase, items, result, measured,
                    review, label, spoke>>
    BY <1>2 DEF allVars, calibration, vars, run, call, outcome
  <2>2. Repeatable' => SameCase(review.result.score)'
    <3>1. PICK n : n = review.result.score
      OBVIOUS
    <3>2. Repeatable => SameCase(n)'
      BY <2>1, <3>1, SameCaseKept DEF BandInv
    <3>3. QED
      BY <2>1, <3>1, <3>2 DEF Repeatable, SameCase
  <2>3. use' = "pipeline" /\ review' # NoReview => phase' = "done" /\ Recorded'
    <3>1. ASSUME Recorded PROVE Recorded'
      <4>1. PICK p \in DOMAIN items :
              /\ review.result = items[p].result
              /\ ~spoke => /\ verdict \notin {"malicious", "suspicious"}
                           /\ ~(Unmeasured(items[p].candidate) > 1)
        BY <3>1 DEF Recorded
      <4>2. QED
        BY <2>1, <4>1 DEF Recorded
    <3>2. QED
      BY <2>1, <3>1 DEF BandInv
  <2>4. QED
    BY <1>1, <2>1, <2>2, <2>3 DEF BandInv, Repeatable
<1>3. ASSUME Next, UNCHANGED calibration PROVE BandInv'
  <2>1. /\ UNCHANGED <<use, batch, engine, review, label, spoke>>
        /\ Repeatable' = Repeatable
    BY <1>3, RunsOn DEF calibration, Repeatable
  <2>2. CASE use = "pipeline" /\ review # NoReview
    <3>1. phase = "done"
      BY <2>2 DEF BandInv
    <3>2. UNCHANGED allVars
      BY <1>3, <3>1, DoneStops DEF allVars
    <3>3. QED
      BY <1>2, <3>2
  <2>3. CASE ~(use = "pipeline" /\ review # NoReview)
    <3>1. PICK n : n = review.result.score /\ n = review'.result.score
      BY <2>1
    <3>2. Repeatable => SameCase(n)'
      BY <2>1, <3>1, SameCaseKept DEF BandInv
    <3>3. Repeatable' => SameCase(review.result.score)'
      BY <2>1, <3>1, <3>2 DEF SameCase
    <3>4. Repeatable /\ engine = "local" =>
            /\ phase' = "decided" => MeasuresAs(n, result'.score)
            /\ \A i \in DOMAIN items' : MeasuresAs(n, items'[i].result.score)
            /\ phase' = "done" => MeasuresAs(n, measured'.score)
      BY <1>3, <3>1, BandMeasures
    <3>5. QED
      BY <1>1, <2>1, <2>3, <3>1, <3>3, <3>4 DEF BandInv
  <2>4. QED
    BY <2>2, <2>3
<1>4. ASSUME NEW item \in Queued, NEW v, NEW s, Record(item, v, s) PROVE BandInv'
  <2>1. /\ use = "pipeline" /\ phase = "done" /\ UNCHANGED <<use, phase, items, verdict, label>>
        /\ review'.result = item.result
        /\ spoke' = (verdict \in {"malicious", "suspicious"} \/ Unmeasured(item.candidate) > 1)
    BY <1>4 DEF Record, vars, run, outcome
  <2>2. PICK p \in DOMAIN items : item = items[p]
    BY DEF Queued, ToSet
  <2>3. Recorded'
    <3>1. /\ review'.result = items'[p].result /\ p \in DOMAIN items'
          /\ ~spoke' => /\ verdict' \notin {"malicious", "suspicious"}
                        /\ ~(Unmeasured(items'[p].candidate) > 1)
      BY <2>1, <2>2
    <3>2. QED
      BY <3>1 DEF Recorded
  <2>4. ~Repeatable'
    BY <1>1, <2>1 DEF ScoredInv, Repeatable
  <2>5. QED
    BY <1>1, <2>1, <2>3, <2>4 DEF BandInv
<1>5. ASSUME NEW item \in Reviewed, PromoteReview(item) PROVE BandInv'
  <2>1. /\ use' = "evaluation" /\ phase' = "start" /\ items' = <<>> /\ DOMAIN <<>> = {}
        /\ UNCHANGED <<review, spoke>>
    BY <1>5, EmptySeq DEF PromoteReview
  <2>2. Repeatable' => SameCase(review.result.score)'
    BY <1>5, <2>1, BandPromotes DEF Repeatable
  <2>3. QED
    BY <1>1, <2>1, <2>2 DEF BandInv
<1>6. QED
  BY <1>2, <1>3, <1>4, <1>5, NarrationStays DEF CalibrationNext

\* A band around a score has it, and the one below.
LEMMA AroundBand ==
  ASSUME NEW n \in Int, NEW s \in 1 .. 10, MeasuresAs(n, s)
  PROVE  /\ Clamp(Clamp(n) - 1) \in Int /\ Clamp(Clamp(n) + 1) \in Int
         /\ s \in Clamp(Clamp(n) - 1) .. Clamp(Clamp(n) + 1)
<1>1. PICK was \in 1 .. 10 : was = Clamp(n) /\ (n \in 1 .. 10 => was = n) /\ (n > 10 => was = 10)
  BY ClampIs
<1>2. PICK x, y \in 1 .. 10 :
        /\ x = Clamp(was - 1) /\ y = Clamp(was + 1)
        /\ was - 1 \in 1 .. 10 => x = was - 1
        /\ was - 1 < 1 => x = 1
        /\ was + 1 \in 1 .. 10 => y = was + 1
        /\ was + 1 > 10 => y = 10
  BY ClampIs
<1>3. s = n - 1 \/ s = n
  BY DEF MeasuresAs
<1>4. s \in x .. y
  BY <1>1, <1>2, <1>3
<1>5. QED
  BY <1>1, <1>2, <1>4

\* A score that was agreed with is in the band of its label when the case is
\* measured again: the events of a candidate make that candidate and no other,
\* whatever else was in its run, and an evaluation misses one point of it at most.
THEOREM AgreedScoresStay == NarrationSpec => []AgreedStaysInBand
<1>1. ASSUME BandInv PROVE AgreedStaysInBand
  <2>1. SUFFICES ASSUME Relabelled, review.verdict \in {"agree", "wrong_class"},
                        review.score = NoNumber, review.result.source = "local",
                        engine = "local", ~spoke
                 PROVE  InBand
    BY DEF AgreedStaysInBand
  <2>2. /\ measured.score \in 1 .. 10 /\ label = LabelOf(review)
        /\ MeasuresAs(review.result.score, measured.score)
        /\ review.result.score \in QueueAt .. PageAt - 1
    BY <1>1, <2>1 DEF Relabelled, BandInv, ScoredInv, Repeatable
  <2>3. PICK n \in Int, s \in 1 .. 10 : n = review.result.score /\ s = measured.score
    BY <2>2
  <2>4. ExpectedBand(review) = <<Clamp(Clamp(n) - 1), Clamp(Clamp(n) + 1)>>
    BY <2>1, <2>3 DEF ExpectedBand
  <2>5. label.min = Clamp(Clamp(n) - 1) /\ label.max = Clamp(Clamp(n) + 1)
    BY <2>2, <2>4 DEF LabelOf
  <2>6. label.min \in Int /\ label.max \in Int /\ s \in label.min .. label.max
    BY <2>2, <2>3, <2>5, AroundBand
  <2>7. ScoreError(s) = 0
    BY <2>6, ErrorIs
  <2>8. QED
    BY <2>3, <2>7 DEF InBand
<1>2. QED
  BY <1>1, BandInitial, BandStep, PTL DEF NarrationSpec

\* Where the scores that are queued reach neither the lowest two nor the highest
\* two, as by default: what a label says of a score is what the analyst meant.
THEOREM LabelsMeanReviews ==
  ASSUME QueueAt >= 3, PageAt <= 9
  PROVE  NarrationSpec => []LabelMeansReview
<1>1. NarrationSpec => [](DisputedLeavesBand /\ BandHasItsActions)
  BY LabelsMeanDisputes
<1>2. AgreedStaysInBand /\ DisputedLeavesBand /\ BandHasItsActions => LabelMeansReview
  BY DEF LabelMeansReview
<1>3. QED
  BY <1>1, <1>2, AgreedScoresStay, PTL
=============================================================================
