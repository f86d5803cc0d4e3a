------------------------------ MODULE Workload ------------------------------
(***************************************************************************)
(* How requests come to be: data_prep.py turns a sample of the dataset     *)
(* into a corpus and questions, saved one after the other, and             *)
(* workload.py draws from both a directory, ACLs, and requests.            *)
(*                                                                         *)
(* A chunk is the paragraph it holds.  A file is the set of its whole      *)
(* lines, each of them a chunk or a question.  Readers take any number of  *)
(* lines, and fail only if the file is torn: the last line is cut, or      *)
(* there is no file.  Rows give their paragraphs in the order of their     *)
(* scores, which stay with the ranker, as does the final order of a        *)
(* request's documents.                                                    *)
(***************************************************************************)
EXTENDS Filtering, Functions, SequencesExt, FiniteSetsExt

CONSTANTS
  Users, Groups, GroupsPerUser,
  Samples,     \* sequences of rows [context, golds]: paragraphs [title, text], gold titles
  AclChoices,  \* ACLs that chunks may get
  Configs,     \* [docs, share]: docs_per_request and share_rate, as <<numerator, denominator>>
  HotPoolSize, QuestionPoolSize,
  FillSample,  \* chunks drawn to fill a request (200 in the code)
  NoRequest,
  MaxPrepared  \* bound on the preparations

VARIABLES
  disk,                        \* ["corpus" and "questions" -> [lines, torn]]
  sample,                      \* of the last preparation, << >> if that died too early
  stage,                       \* how far it got: "none", "corpus", "between", "questions", "over"
  corpus, questions,           \* what the generator has loaded
  matched,                     \* ghost: all of the corpus, and questions of the same preparation
  config, membership, acl, hot, pool,   \* what it has drawn
  request,                     \* its last one: [user, question, docs]
  pc,                          \* "idle", "questions", "pool", "requests", "KeyError", "RuntimeError"
  prepared

files == <<disk, sample, stage, prepared>>
drawn == <<config, membership, acl, hot, pool>>
vars  == <<files, corpus, questions, matched, drawn, request, pc>>

(* The paragraphs of a row are distinct.                                   *)
ASSUME SampleAssumption ==
  \A s \in Samples :
    /\ s \in Seq(Range(s))
    /\ \A row \in Range(s) : row.context \in Seq(Range(row.context)) /\ IsInjective(row.context)

(* share_rate is a fraction (workload.py:9).                               *)
ASSUME ConfigAssumption ==
  /\ FillSample \in Nat
  /\ \A c \in Configs : /\ c.docs \in Nat
                        /\ c.share \in Nat \X (Nat \ {0}) /\ c.share[1] <= c.share[2]

A == INSTANCE ACL WITH Membership <- membership

Clear ==
  /\ corpus' = {} /\ questions' = {} /\ matched' = FALSE
  /\ config' = << >> /\ membership' = << >> /\ acl' = << >> /\ hot' = {} /\ pool' = {}
  /\ request' = NoRequest
  /\ pc' = "idle"

Init ==
  /\ disk = [f \in {"corpus", "questions"} |-> [lines |-> {}, torn |-> TRUE]]
  /\ sample = << >> /\ stage = "none" /\ prepared = 0
  /\ corpus = {} /\ questions = {} /\ matched = FALSE
  /\ config = << >> /\ membership = << >> /\ acl = << >> /\ hot = {} /\ pool = {}
  /\ request = NoRequest
  /\ pc = "idle"

-----------------------------------------------------------------------------
(* Preparation.                                                            *)

(* Paragraphs without text are left out.                                   *)
Context(row) == Filtered(row.context, {p \in Range(row.context) : p.text # ""})

Chunks(s) == UNION {Range(Context(row)) : row \in Range(s)}

Golds(row) == Filtered(Context(row), {p \in Range(row.context) : p.title \in row.golds})

QuestionAll(row) == [golds |-> Golds(row), context |-> row.context]   \* faulty variant, not used
Question(row)    == [golds |-> Golds(row), context |-> Context(row)]

(* Rows with too few gold or other paragraphs make no question.            *)
Questions(s) ==
  {Question(row) :
     row \in {r \in Range(s) : Len(Golds(r)) >= 2 /\ Len(Context(r)) >= 4}}

(* Lines are written row by row: what a file has when it is cut between    *)
(* two of them.                                                            *)
CorpusCuts ==
  UNION {{Chunks(SubSeq(sample, 1, i - 1)) \cup Range(SubSeq(Context(sample[i]), 1, j)) :
            j \in 0 .. Len(Context(sample[i]))} : i \in DOMAIN sample}
QuestionCuts == {Questions(SubSeq(sample, 1, n)) : n \in 0 .. Len(sample)}

Cuts(f)  == IF f = "corpus" THEN CorpusCuts ELSE QuestionCuts
Whole(f) == IF f = "corpus" THEN Chunks(sample) ELSE Questions(sample)

(* Opening a file truncates it, closing it writes what is still buffered.  *)
Open(f)  == disk' = [disk EXCEPT ![f] = [lines |-> {}, torn |-> FALSE]]
Close(f) == disk' = [disk EXCEPT ![f] = [lines |-> Whole(f), torn |-> FALSE]]

Prepare(s) ==
  /\ stage \in {"none", "over"}
  /\ prepared < MaxPrepared
  /\ prepared' = prepared + 1
  /\ sample' = s /\ stage' = "corpus" /\ matched' = FALSE
  /\ Open("corpus")

(* Buffers are written when they are full, wherever lines end; an exception*)
(* has the file closed after the last whole line.                          *)
WriteLines ==
  /\ stage \in {"corpus", "questions"}
  /\ \E cut \in Cuts(stage), torn \in BOOLEAN :
       /\ disk[stage].lines \subseteq cut
       /\ torn => cut # Whole(stage)
       /\ disk' = [disk EXCEPT ![stage] = [lines |-> cut, torn |-> torn]]
  /\ UNCHANGED <<sample, stage, prepared, matched>>

SaveCorpus ==
  /\ stage = "corpus"
  /\ stage' = "between"
  /\ Close("corpus")
  /\ UNCHANGED <<sample, prepared, matched>>

OpenQuestions ==
  /\ stage = "between"
  /\ stage' = "questions"
  /\ Open("questions")
  /\ UNCHANGED <<sample, prepared, matched>>

SaveQuestions ==
  /\ stage = "questions"
  /\ stage' = "over"
  /\ Close("questions")
  /\ UNCHANGED <<sample, prepared, matched>>

(* With the questions open it is over as well, if with fewer of them.      *)
KillPrepare ==
  /\ stage \in {"corpus", "between", "questions"}
  /\ IF stage = "questions" THEN stage' = "over" /\ UNCHANGED sample
     ELSE stage' = "none" /\ sample' = << >>
  /\ UNCHANGED <<disk, prepared, matched>>

(* It runs beside the generator, which reads no file after the questions.  *)
Preparation ==
  /\ pc \in {"idle", "questions"}
  /\ \/ \E s \in Samples : Prepare(s)
     \/ WriteLines \/ SaveCorpus \/ OpenQuestions \/ SaveQuestions \/ KillPrepare
  /\ UNCHANGED <<corpus, questions, drawn, request, pc>>

-----------------------------------------------------------------------------
(* Generation.                                                             *)

LoadCorpus ==
  /\ pc = "idle"
  /\ ~disk["corpus"].torn
  /\ corpus' = disk["corpus"].lines
  /\ matched' = (stage \in {"between", "questions", "over"})
  /\ pc' = "questions"
  /\ UNCHANGED <<files, questions, drawn, request>>

Readable(user, c) == A!Allows(acl[c], user)

(* Who may ask: the users who can read all gold chunks.                    *)
EligibleAny(q) == {u \in Users : \E c \in Range(q.golds) : Readable(u, c)}   \* faulty variant
Eligible(q)    == {u \in Users : \A c \in Range(q.golds) : Readable(u, c)}

Directories == [Users -> kSubset(Min({GroupsPerUser, Cardinality(Groups)}), Groups)]

(* Questions are taken in random order until the pool is full; the chunks  *)
(* and the directory are drawn before.                                     *)
Askable == {q \in questions : Range(q.golds) \subseteq corpus /\ Eligible(q) # {}}

(* Empty files can be read, but an empty corpus has no index (line 51).    *)
Draw ==
  /\ pc = "questions"
  /\ ~disk["questions"].torn /\ corpus # {}
  /\ pc' = "pool"
  /\ questions' = disk["questions"].lines
  /\ matched' = (matched /\ stage \in {"questions", "over"})
  /\ config' \in Configs
  /\ membership' \in Directories
  /\ acl' \in [corpus -> AclChoices]
  /\ hot' \in kSubset(Min({HotPoolSize, Cardinality(corpus)}), corpus)
  /\ UNCHANGED <<files, corpus, pool, request>>

FillPool ==
  /\ pc = "pool"
  /\ pool' \in kSubset(Min({QuestionPoolSize, Cardinality(Askable)}), Askable)
  /\ pc' = IF pool' = {} THEN "RuntimeError" ELSE "requests"
  /\ UNCHANGED <<files, corpus, questions, matched, config, membership, acl, hot, request>>

(* round(): halves go to the even neighbour.                               *)
Rounded(num, den) ==
  LET down == num \div den
      part == 2 * (num % den)
  IN IF part < den \/ (part = den /\ down % 2 = 0) THEN down ELSE down + 1

(* s[:n], which for a negative n drops from the end.                       *)
Slice(s, n) == SubSeq(s, 1, IF n >= 0 THEN Min({n, Len(s)}) ELSE Max({0, Len(s) + n}))

(* What of a pool is new to a request and readable for its user.           *)
NewOrNot(S, user, chosen) == {c \in S : Readable(user, c)}   \* faulty variant, not used
New(S, user, chosen)      == {c \in S \ Range(chosen) : Readable(user, c)}

Fresh(s, user, chosen) == Filtered(s, New(Range(s), user, chosen))

(* Gold chunks, then a share of hot ones, then those of the question, then *)
(* random ones.                                                            *)
HotPicks(q, user) ==
  LET slots == Max({0, config.docs - Len(q.golds)})
      cand  == {c \in hot : c \notin Range(q.golds) /\ Readable(user, c)}
  IN kSubset(Min({Rounded(config.share[1] * slots, config.share[2]), Cardinality(cand)}), cand)

(* The fill is drawn in random order, so that any of it may come first.    *)
Fill(S, user, chosen) ==
  LET new == New(S, user, chosen)
  IN kSubset(Min({config.docs - Len(chosen), Cardinality(new)}), new)

Fills(user, chosen) ==
  IF Len(chosen) >= config.docs THEN {chosen}
  ELSE {chosen \o SetToSeq(T) :
          T \in UNION {Fill(S, user, chosen) : S \in kSubset(Min({FillSample, Cardinality(corpus)}), corpus)}}

(* A chunk of the question that the corpus lacks has no ACL to look up.    *)
Ask(q, user, picks) ==
  LET chosen == q.golds \o SetToSeq(picks)
  IN IF Range(q.context) \ Range(chosen) \subseteq corpus
     THEN /\ \E docs \in Fills(user, chosen \o Slice(Fresh(q.context, user, chosen), config.docs - Len(chosen))) :
               request' = [user |-> user, question |-> q, docs |-> docs]
          /\ UNCHANGED pc
     ELSE pc' = "KeyError" /\ UNCHANGED request

Generate ==
  /\ pc = "requests"
  /\ \E q \in pool : \E user \in Eligible(q) : \E picks \in HotPicks(q, user) : Ask(q, user, picks)
  /\ UNCHANGED <<files, corpus, questions, matched, drawn>>

(* The workload is saved, or the generator has died.                       *)
Finish == pc # "idle" /\ Clear /\ UNCHANGED files

Next == Preparation \/ LoadCorpus \/ Draw \/ FillPool \/ Generate \/ Finish

Spec == Init /\ [][Next]_vars

-----------------------------------------------------------------------------
(* Properties.                                                             *)

(* "Every request is already authorized: the requester can read all of its *)
(* evidence ..., so the middleware filter should drop nothing"             *)
(* (workload.py:16-18).                                                    *)
AlreadyAuthorized ==
  request # NoRequest => \A c \in Range(request.docs) : Readable(request.user, c)

(* Whatever pool a chunk of a request was taken from, it is there once,    *)
(* and all gold chunks are.                                                *)
GoldsAndNoChunkTwice ==
  request # NoRequest =>
    /\ IsInjective(request.docs)
    /\ Range(request.question.golds) \subseteq Range(request.docs)

(* Beyond that, if the gold chunks fit, the request has docs_per_request   *)
(* chunks, or else all its user can read, but for those that the fill, if  *)
(* it is drawn from less than the corpus, may have missed.                 *)
RequestsAreFull ==
  /\ GoldsAndNoChunkTwice
  /\ request # NoRequest /\ Len(request.question.golds) <= config.docs =>
       /\ Len(request.docs) <= config.docs
       /\ Len(request.docs) >=
            Min({config.docs,
                 Cardinality({c \in corpus : Readable(request.user, c)})
                   - Max({0, Cardinality(corpus) - FillSample})})

(* The generator ends with a KeyError only if its corpus and questions are *)
(* not of one preparation, or the corpus is cut: it has read one of them   *)
(* before the last preparation came to its questions, or that one died     *)
(* before it did.  A death later on, which cuts the questions, does no harm*)
OnlyMismatchRaises ==
  pc = "KeyError" => ~matched
=============================================================================
