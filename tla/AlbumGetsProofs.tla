---- MODULE AlbumGetsProofs ----
(***************************************************************************)
(* One live card and one download per album, whatever lanes ask for it: for  *)
(* every set of requests, every target a grab may have and every number of   *)
(* jobs, cards, lost answers and cards that part from their jobs.            *)
(*                                                                           *)
(* Neither is inductive.  A card is inserted at the end of a request, from   *)
(* what the request holds, long after its guard looked.  Meanwhile two       *)
(* requests hold nothing in common (Apart), and no live card meets what a    *)
(* request holds but one of the very job whose answer the request awaits,    *)
(* inserted by the poller in between (Clear).  What the addon runs is known  *)
(* to core by a card that covers it or by a request that still holds it      *)
(* (Told), and its cards are live or were retired by a replace (Kept).       *)
(***************************************************************************)
EXTENDS AlbumGets, SequenceTheorems, TLAPS

JobRec == [by : {"acquire", "hunt", "grab"}, target : SUBSET Facet,
           state : {"active", "cancelled", "over"}]
CardRec(J) == [of : J, target : SUBSET Facet,
               state : {"active", "superseded", "over", "gone"}]

Fits == Len(job) <= MaxJobs

(* What a request awaits agrees with what it knows.                          *)
Asked == \A r \in Get :
  /\ answer[r] # 0 => Answering(r)
  /\ r \in Hunt /\ at[r] = "lidarr" => "id" \in hold[r]

Close(j) == j \in Jobs \ (lost \cup parted)
Runs(j) == Close(j) /\ job[j].state = "active"
Live(c) == c \in Cards /\ card[c].state = "active" /\ Close(card[c].of)

Told == \A j \in Jobs : Runs(j) =>
  \/ \E c \in Cards : card[c].of = j /\ job[j].target \subseteq card[c].target
  \/ \E r \in Get : answer[r] = j /\ job[j].target \subseteq hold[r]
Kept == \A c \in Cards : Runs(card[c].of) => card[c].state \in {"active", "superseded"}

Apart == \A r, o \in Get : r # o => hold[r] \cap hold[o] = {}
Clear == \A r \in Get, c \in Cards :
  Live(c) /\ card[c].target \cap hold[r] # {} => answer[r] = card[c].of

(* The addon runs no two album jobs of one name.                             *)
AddonOne == \A j, k \in Jobs :
  (/\ j < k /\ job[j].state = "active" /\ job[k].state = "active"
   /\ Album(job[j].by) /\ Album(job[k].by))
    => "name" \notin job[j].target \cap job[k].target

Sound == GetTypeOK /\ Fits /\ Asked
Guarded == Told /\ Kept /\ Apart /\ Clear /\ AddonOne /\ OneRow
IInv == Sound /\ Guarded

---------------------------------------------------------------------------
(* Jobs and cards are numbered from one, and no job is Conflict.             *)
LEMMA Numbers ==
  ASSUME GetTypeOK
  PROVE  /\ Len(job) \in Nat /\ Jobs = 1..Len(job)
         /\ Len(card) \in Nat /\ Cards = 1..Len(card)
         /\ job \in Seq(JobRec) /\ card \in Seq(CardRec(Jobs))
         /\ \A j \in Jobs : job[j] \in JobRec
         /\ \A c \in Cards : card[c] \in CardRec(Jobs)
<1>1. job \in Seq(JobRec) /\ card \in Seq(CardRec(Jobs))
  BY DEF GetTypeOK, JobRec, CardRec
<1>2. Len(job) \in Nat /\ Jobs = 1..Len(job) /\ Len(card) \in Nat /\ Cards = 1..Len(card)
  BY <1>1, LenProperties DEF Jobs, Cards
<1>3. \A j \in Jobs : job[j] \in JobRec
  BY <1>1, <1>2, ElementOfSeq
<1>4. \A c \in Cards : card[c] \in CardRec(Jobs)
  BY <1>1, <1>2, ElementOfSeq
<1> QED
  BY <1>1, <1>2, <1>3, <1>4

LEMMA NoJob ==
  ASSUME Sound
  PROVE  Conflict \in Nat /\ Conflict \notin Jobs /\ 0 \notin Jobs /\ Conflict # 0
BY Numbers, GetsAssumption DEF Sound, Fits, Conflict

(* A card stays of its type when jobs are added.                             *)
LEMMA CardsGrow ==
  ASSUME NEW J, NEW K, J \subseteq K, NEW s \in Seq(CardRec(J))
  PROVE  s \in Seq(CardRec(K))
<1>1. CardRec(J) \subseteq CardRec(K)
  BY DEF CardRec
<1>2. /\ Len(s) \in Nat /\ s \in [1..Len(s) -> CardRec(J)]
      /\ s = [i \in 1..Len(s) |-> s[i]]
  BY LenProperties
<1>3. s \in [1..Len(s) -> CardRec(K)]
  BY <1>1, <1>2
<1> QED
  BY <1>2, <1>3, SeqDef

(* The same for a step that changes cards or jobs in place.                  *)
LEMMA InPlace ==
  ASSUME NEW S, NEW s \in Seq(S), NEW t, t = [i \in DOMAIN s |-> t[i]],
         \A i \in DOMAIN s : t[i] \in S
  PROVE  t \in Seq(S) /\ DOMAIN t = DOMAIN s /\ Len(t) = Len(s)
<1>1. Len(s) \in Nat /\ DOMAIN s = 1..Len(s)
  BY LenProperties
<1>2. t \in [1..Len(s) -> S]
  BY <1>1
<1> QED
  BY <1>1, <1>2, SeqDef

(* An answered request holds nothing and awaits nothing.                     *)
LEMMA AnsweredLeaves ==
  ASSUME GetTypeOK, NEW r \in Get, NEW outcome, GetAnswered(r, outcome)
  PROVE  /\ at' \in [Get -> Waits] /\ hold' \in [Get -> SUBSET Facet]
         /\ replace' \in [Get -> BOOLEAN] /\ answer' \in [Get -> 0..Conflict]
         /\ watch' \in {"watching", "acquired", "failed"}
         /\ at'[r] = "idle" /\ hold'[r] = {} /\ answer'[r] = 0
         /\ \A o \in Get \ {r} :
              at'[o] = at[o] /\ hold'[o] = hold[o] /\ answer'[o] = answer[o]
<1>1. watch' \in {"watching", "acquired", "failed"}
  BY DEF GetAnswered, WatchAfter, GetTypeOK
<1>2. Conflict \in Nat
  BY GetsAssumption DEF Conflict
<1> QED
  BY <1>1, <1>2 DEF GetAnswered, GetTypeOK, Waits

(* What a replace retires: the live cards that match, and nothing else.      *)
LEMMA Retired ==
  ASSUME GetTypeOK, NEW target \in SUBSET Facet
  PROVE  /\ Supersede(target) \in Seq(CardRec(Jobs))
         /\ DOMAIN Supersede(target) = Cards
         /\ \A c \in Cards :
              /\ Supersede(target)[c].of = card[c].of
              /\ Supersede(target)[c].target = card[c].target
              /\ Supersede(target)[c].state \in {card[c].state, "superseded"}
              /\ Supersede(target)[c].state = "active" =>
                   card[c].state = "active" /\ target \cap card[c].target = {}
              /\ card[c].state # "active" => Supersede(target)[c].state = card[c].state
<1> DEFINE new == Supersede(target)
<1>1. \A c \in Cards : card[c] \in CardRec(Jobs)
  BY Numbers
<1>2. ASSUME NEW c \in Cards
      PROVE  /\ new[c] \in CardRec(Jobs)
             /\ new[c].of = card[c].of /\ new[c].target = card[c].target
             /\ new[c].state \in {card[c].state, "superseded"}
             /\ new[c].state = "active" =>
                  card[c].state = "active" /\ target \cap card[c].target = {}
             /\ card[c].state # "active" => new[c].state = card[c].state
  <2>1. CASE c \in ActiveRows(target)
    <3>1. new[c] = [card[c] EXCEPT !.state = "superseded"]
      BY <2>1 DEF Supersede
    <3>2. card[c].state = "active"
      BY <2>1 DEF ActiveRows
    <3> QED
      BY <1>1, <3>1, <3>2 DEF CardRec
  <2>2. CASE c \notin ActiveRows(target)
    <3>1. new[c] = card[c]
      BY <2>2 DEF Supersede
    <3> QED
      BY <1>1, <2>2, <3>1 DEF CardRec, ActiveRows, Match
  <2> QED
    BY <2>1, <2>2
<1>3. new = [c \in DOMAIN card |-> new[c]]
  BY DEF Supersede, Cards
<1>4. new \in Seq(CardRec(Jobs)) /\ DOMAIN new = Cards
  <2>1. card \in Seq(CardRec(Jobs)) /\ \A c \in DOMAIN card : new[c] \in CardRec(Jobs)
    BY <1>2, Numbers DEF Cards
  <2> HIDE DEF new
  <2> QED
    BY <1>3, <2>1, InPlace DEF Cards
<1> QED
  BY <1>2, <1>4

(* A request that awaits no answer has none on its way.                      *)
LEMMA NoAnswer ==
  ASSUME Sound, NEW r \in Get, ~Answering(r)
  PROVE  answer[r] = 0 /\ answer[r] \notin Jobs
BY NoJob DEF Sound, Asked

---------------------------------------------------------------------------
(* A step that adds neither a job nor a card, and brings none to life: jobs  *)
(* end, cards of theirs with them, and those that part are noted.            *)
Fades ==
  /\ Jobs' = Jobs /\ Cards' = Cards
  /\ lost \subseteq lost' /\ parted \subseteq parted'
  /\ \A j \in Jobs : /\ job'[j].by = job[j].by /\ job'[j].target = job[j].target
                     /\ job'[j].state = "active" => job[j].state = "active"
  /\ \A c \in Cards :
       /\ card'[c].of = card[c].of
       /\ Live(c)' => Live(c) /\ card'[c].target = card[c].target
       /\ Runs(card[c].of)' => /\ card'[c].target = card[c].target
                               /\ card'[c].state \in {card[c].state, "superseded"}

(* What becomes of a request: its hold and the answer it awaits stay, it is  *)
(* let go, or it takes up a target that no other holds and no card guards.   *)
Steady(r) == hold'[r] = hold[r] /\ (answer'[r] = answer[r] \/ answer[r] \notin Jobs)
Freed(r) == hold'[r] = {} /\ (answer[r] \notin Jobs \/ answer[r] \in lost')
Takes(r) ==
  /\ answer[r] \notin Jobs
  /\ \A c \in Cards : Live(c)' => card[c].target \cap hold'[r] = {}
  /\ \A o \in Get \ {r} : hold'[r] \cap hold[o] = {} /\ Steady(o)

LEMMA CloseBefore ==
  ASSUME Fades, NEW j
  PROVE  /\ Close(j)' => Close(j)
         /\ Runs(j)' => Runs(j)
BY DEF Fades, Close, Runs

LEMMA FadesKeeps ==
  ASSUME IInv, Fades, \A r \in Get : Steady(r) \/ Freed(r) \/ Takes(r)
  PROVE  Guarded'
<1> USE DEF IInv, Guarded
<1>1. \A c \in Cards : card[c].of \in Jobs
  BY Numbers DEF Sound, CardRec
<1>2. Told'
  <2> SUFFICES ASSUME NEW j \in Jobs, Runs(j)'
               PROVE  \/ \E c \in Cards : card'[c].of = j /\ job'[j].target \subseteq card'[c].target
                      \/ \E r \in Get : answer'[r] = j /\ job'[j].target \subseteq hold'[r]
    BY DEF Told, Fades
  <2>1. Runs(j) /\ job'[j].target = job[j].target
    BY CloseBefore DEF Fades
  <2>2. CASE \E c \in Cards : card[c].of = j /\ job[j].target \subseteq card[c].target
    <3>1. PICK c \in Cards : card[c].of = j /\ job[j].target \subseteq card[c].target
      BY <2>2
    <3>2. card'[c].of = j /\ card'[c].target = card[c].target
      BY <3>1 DEF Fades
    <3> QED
      BY <2>1, <3>1, <3>2
  <2>3. CASE \E r \in Get : answer[r] = j /\ job[j].target \subseteq hold[r]
    <3>1. PICK r \in Get : answer[r] = j /\ job[j].target \subseteq hold[r]
      BY <2>3
    <3>2. j \notin lost'
      BY DEF Runs, Close
    <3>3. Steady(r)
      BY <3>1, <3>2 DEF Freed, Takes
    <3> QED
      BY <2>1, <3>1, <3>3 DEF Steady
  <2> QED
    BY <2>1, <2>2, <2>3 DEF Told
<1>3. Kept'
  <2> SUFFICES ASSUME NEW c \in Cards, Runs(card[c].of)'
               PROVE  card'[c].state \in {"active", "superseded"}
    BY DEF Kept, Fades
  <2>1. card'[c].of = card[c].of /\ card'[c].state \in {card[c].state, "superseded"}
    BY DEF Fades
  <2>2. Runs(card[c].of)
    BY <2>1, CloseBefore DEF Runs, Close, Fades
  <2> QED
    BY <2>1, <2>2 DEF Kept
<1>4. Apart'
  <2> SUFFICES ASSUME NEW r \in Get, NEW o \in Get, r # o
               PROVE  hold'[r] \cap hold'[o] = {}
    BY DEF Apart
  <2>1. hold[r] \cap hold[o] = {}
    BY DEF Apart
  <2>2. CASE Takes(r)
    BY <2>2 DEF Takes, Steady
  <2>3. CASE Takes(o)
    BY <2>3 DEF Takes, Steady
  <2> QED
    BY <2>1, <2>2, <2>3 DEF Steady, Freed
<1>5. Clear'
  <2> SUFFICES ASSUME NEW r \in Get, NEW c \in Cards, Live(c)',
                      card'[c].target \cap hold'[r] # {}
               PROVE  answer'[r] = card'[c].of
    BY DEF Clear, Fades
  <2>1. Live(c) /\ card'[c].target = card[c].target /\ card'[c].of = card[c].of
    BY DEF Fades
  <2>2. Steady(r)
    BY <2>1 DEF Freed, Takes
  <2>3. answer[r] = card[c].of
    BY <2>1, <2>2 DEF Clear, Steady
  <2> QED
    BY <1>1, <2>1, <2>2, <2>3 DEF Steady
<1>6. AddonOne'
  BY DEF AddonOne, Fades
<1>7. OneRow'
  <2> SUFFICES ASSUME NEW c \in Cards, NEW d \in Cards, card'[c].of # card'[d].of,
                      card'[c].state = "active", card'[d].state = "active",
                      {card'[c].of, card'[d].of} \cap (lost' \cup parted') = {}
               PROVE  ~Match(card'[c].target, card'[d].target)
    BY DEF OneRow, Fades, Match
  <2>1. card'[c].of = card[c].of /\ card'[d].of = card[d].of
    BY DEF Fades
  <2>2. Live(c)' /\ Live(d)'
    BY <1>1, <2>1 DEF Live, Close, Fades
  <2>3. /\ Live(c) /\ card'[c].target = card[c].target
        /\ Live(d) /\ card'[d].target = card[d].target
    BY <2>2 DEF Fades
  <2> QED
    BY <2>1, <2>3 DEF OneRow, Live, Close, Match
<1> QED
  BY <1>2, <1>3, <1>4, <1>5, <1>6, <1>7

(* Where the cards are as they were, or a replace retired some, and no job   *)
(* is new, a step fades.                                                     *)
LEMMA RetiresFades ==
  ASSUME GetTypeOK, lost \subseteq lost', parted' = parted,
         UNCHANGED card \/ \E target \in SUBSET Facet : card' = Supersede(target),
         \/ UNCHANGED job
         \/ \E j \in Jobs, s \in {"cancelled", "over"} : job' = [job EXCEPT ![j].state = s]
  PROVE  Fades
<1>1. /\ Jobs' = Jobs
      /\ \A j \in Jobs : /\ job'[j].by = job[j].by /\ job'[j].target = job[j].target
                         /\ job'[j].state = "active" => job[j].state = "active"
  <2>1. \A j \in Jobs : job[j] \in JobRec
    BY Numbers
  <2> QED
    BY <2>1 DEF Jobs, JobRec
<1>2. /\ Cards' = Cards
      /\ \A c \in Cards :
           /\ card'[c].of = card[c].of /\ card'[c].target = card[c].target
           /\ card'[c].state \in {card[c].state, "superseded"}
           /\ card'[c].state = "active" => card[c].state = "active"
  BY Retired DEF Cards
<1> QED
  BY <1>1, <1>2 DEF Fades, Live, Close

---------------------------------------------------------------------------
(* A card is inserted for a job that some request awaits, within what that   *)
(* request holds, or for one that core need not know; the request may be     *)
(* released with it.                                                         *)
LEMMA InsertKeeps ==
  ASSUME IInv, NEW j \in Jobs, NEW target \in SUBSET Facet, card' = Inserted(j, target),
         Close(j) => \E r \in Get : answer[r] = j /\ target \subseteq hold[r],
         UNCHANGED <<job, lost, parted>>,
         \/ UNCHANGED <<hold, answer>>
         \/ \E r \in Get : /\ answer[r] = j /\ target = hold[r] /\ hold'[r] = {}
                           /\ \A o \in Get \ {r} : hold'[o] = hold[o] /\ answer'[o] = answer[o]
  PROVE  Guarded'
<1> DEFINE n == Len(card) + 1
           new == [of |-> j, target |-> target, state |-> "active"]
<1> USE DEF IInv, Guarded
<1>1. /\ Cards' = Cards \cup {n} /\ n \notin Cards /\ card'[n] = new
      /\ \A c \in Cards : card'[c] = card[c]
  <2>1. card \in Seq(CardRec(Jobs)) /\ Cards = 1..Len(card) /\ Len(card) \in Nat
    BY Numbers DEF Sound
  <2>2. new \in CardRec(Jobs)
    BY DEF CardRec
  <2>3. card' = Append(card, new)
    BY DEF Inserted
  <2> HIDE DEF new
  <2>4. /\ Len(card') = Len(card) + 1 /\ card' \in Seq(CardRec(Jobs))
        /\ \A i \in 1..Len(card) : card'[i] = card[i]
        /\ card'[Len(card) + 1] = new
    BY <2>1, <2>2, <2>3, AppendProperties
  <2>5. DOMAIN card' = 1..Len(card')
    BY <2>4, LenProperties
  <2> QED
    BY <2>1, <2>4, <2>5 DEF Cards
<1>2. /\ Jobs' = Jobs
      /\ \A k : (Close(k)' <=> Close(k)) /\ (Runs(k)' <=> Runs(k))
  BY DEF Jobs, Close, Runs
<1>3. \A c \in Cards : Live(c)' <=> Live(c)
  BY <1>1, <1>2 DEF Live, Close, Jobs
<1>4. \A o \in Get : hold'[o] \in {hold[o], {}}
  OBVIOUS
<1>5. Told'
  <2> SUFFICES ASSUME NEW k \in Jobs, Runs(k)
               PROVE  \/ \E c \in Cards' : card'[c].of = k /\ job[k].target \subseteq card'[c].target
                      \/ \E r \in Get : answer'[r] = k /\ job[k].target \subseteq hold'[r]
    BY <1>2 DEF Told
  <2>1. CASE \E c \in Cards : card[c].of = k /\ job[k].target \subseteq card[c].target
    BY <2>1, <1>1
  <2>2. CASE \E r \in Get : answer[r] = k /\ job[k].target \subseteq hold[r]
    <3>1. PICK r \in Get : answer[r] = k /\ job[k].target \subseteq hold[r]
      BY <2>2
    <3>2. CASE hold'[r] = hold[r] /\ answer'[r] = answer[r]
      BY <3>1, <3>2
    <3>3. CASE j = k /\ target = hold[r]
      <4>1. card'[n].of = k /\ card'[n].target = hold[r]
        BY <1>1, <3>3
      <4> QED
        BY <1>1, <3>1, <4>1
    <3> QED
      BY <3>1, <3>2, <3>3
  <2> QED
    BY <2>1, <2>2 DEF Told
<1>6. Kept'
  <2> SUFFICES ASSUME NEW c \in Cards', Runs(card[c].of)'
               PROVE  card'[c].state \in {"active", "superseded"}
    BY DEF Kept
  <2>1. CASE c = n
    BY <2>1, <1>1
  <2>2. CASE c \in Cards
    BY <2>2, <1>1, <1>2 DEF Kept, Runs, Close, Jobs
  <2> QED
    BY <1>1, <2>1, <2>2
<1>7. Apart'
  BY <1>4 DEF Apart
<1>8. Clear'
  <2> SUFFICES ASSUME NEW r \in Get, NEW c \in Cards', Live(c)',
                      card'[c].target \cap hold'[r] # {}
               PROVE  answer'[r] = card'[c].of
    BY DEF Clear
  <2>1. hold'[r] = hold[r] /\ hold[r] # {}
    BY <1>4
  <2>2. answer'[r] = answer[r]
    BY <2>1
  <2>3. CASE c \in Cards
    BY <1>1, <1>3, <2>1, <2>2, <2>3 DEF Clear
  <2>4. CASE c = n
    <3>1. Close(j) /\ target \cap hold[r] # {}
      BY <1>1, <1>2, <2>1, <2>4 DEF Live, Close, Jobs
    <3>2. PICK o \in Get : answer[o] = j /\ target \subseteq hold[o]
      BY <3>1
    <3>3. r = o
      BY <3>1, <3>2 DEF Apart
    <3> QED
      BY <1>1, <2>2, <2>4, <3>2, <3>3
  <2> QED
    BY <1>1, <2>3, <2>4
<1>9. AddonOne'
  BY <1>2 DEF AddonOne, Jobs
<1>10. OneRow'
  <2>1. ASSUME NEW c \in Cards, Live(c), Close(j), card[c].of # j
        PROVE  card[c].target \cap target = {}
    <3>1. PICK o \in Get : answer[o] = j /\ target \subseteq hold[o]
      BY <2>1
    <3> QED
      BY <2>1, <3>1 DEF Clear
  <2>2. \A c \in Cards : card[c].of \in Jobs
    BY Numbers DEF Sound, CardRec
  <2> SUFFICES ASSUME NEW c \in Cards', NEW d \in Cards', card'[c].of # card'[d].of,
                      card'[c].state = "active", card'[d].state = "active",
                      {card'[c].of, card'[d].of} \cap (lost \cup parted) = {}
               PROVE  card'[c].target \cap card'[d].target = {}
    BY DEF OneRow, Match
  <2>3. CASE c \in Cards /\ d \in Cards
    BY <1>1, <2>3 DEF OneRow, Match
  <2>4. CASE c = n /\ d \in Cards
    BY <1>1, <2>1, <2>2, <2>4 DEF Live, Close
  <2>5. CASE d = n /\ c \in Cards
    BY <1>1, <2>1, <2>2, <2>5 DEF Live, Close
  <2> QED
    BY <1>1, <2>3, <2>4, <2>5
<1> QED
  BY <1>5, <1>6, <1>7, <1>8, <1>9, <1>10

(* The addon mints a job for a request: no card names it yet, the request    *)
(* that awaits it holds its target, and no job of its name runs.             *)
LEMMA MintKeeps ==
  ASSUME IInv, NEW r \in Get, ~Answering(r), Len(job) < MaxJobs,
         ~(Album(KindOf(r)) /\ SameAlbum(r) # {}),
         job' = Append(job, [by |-> KindOf(r), target |-> hold[r], state |-> "active"]),
         answer' = [answer EXCEPT ![r] = Len(job')],
         UNCHANGED <<hold, card, lost, parted>>
  PROVE  /\ Guarded' /\ job' \in Seq(JobRec) /\ Len(job') = Len(job) + 1
         /\ Jobs \subseteq Jobs' /\ answer'[r] \in Jobs' /\ Fits'
<1> DEFINE n == Len(job) + 1
           new == [by |-> KindOf(r), target |-> hold[r], state |-> "active"]
<1> USE DEF IInv, Guarded
<1>1. new \in JobRec
  BY DEF JobRec, KindOf, Get, Sound, GetTypeOK
<1>2. /\ Jobs' = Jobs \cup {n} /\ n \notin Jobs /\ job'[n] = new /\ Len(job') = n
      /\ \A j \in Jobs : job'[j] = job[j] /\ j < n
      /\ job' \in Seq(JobRec)
  <2>1. job \in Seq(JobRec) /\ Jobs = 1..Len(job) /\ Len(job) \in Nat
    BY Numbers DEF Sound
  <2> HIDE DEF new
  <2>2. /\ Len(job') = Len(job) + 1 /\ job' \in Seq(JobRec)
        /\ \A i \in 1..Len(job) : job'[i] = job[i]
        /\ job'[Len(job) + 1] = new
    BY <1>1, <2>1, AppendProperties DEF new
  <2>3. DOMAIN job' = 1..Len(job')
    BY <2>2, LenProperties
  <2> QED
    BY <2>1, <2>2, <2>3 DEF Jobs
<1>3. /\ \A c \in Cards : card[c].of \in Jobs
      /\ lost \subseteq Jobs /\ parted \subseteq Jobs
  BY Numbers DEF Sound, CardRec, GetTypeOK
<1>4. Cards' = Cards /\ \A k \in Jobs : (Close(k)' <=> Close(k)) /\ (Runs(k)' <=> Runs(k))
  BY <1>2 DEF Cards, Close, Runs
<1>5. /\ answer'[r] = n /\ answer[r] = 0 /\ answer[r] \notin Jobs
      /\ \A o \in Get \ {r} : answer'[o] = answer[o]
  <2>1. answer \in [Get -> 0..Conflict]
    BY DEF Sound, GetTypeOK
  <2> QED
    BY <1>2, <2>1, NoAnswer
<1>6. Told'
  <2> SUFFICES ASSUME NEW k \in Jobs', Runs(k)'
               PROVE  \/ \E c \in Cards : card[c].of = k /\ job'[k].target \subseteq card[c].target
                      \/ \E o \in Get : answer'[o] = k /\ job'[k].target \subseteq hold[o]
    BY <1>4 DEF Told
  <2>1. CASE k = n
    BY <1>2, <1>5, <2>1
  <2>2. CASE k \in Jobs
    <3>1. Runs(k) /\ job'[k] = job[k]
      BY <1>2, <1>4, <2>2
    <3>2. CASE \E o \in Get : answer[o] = k /\ job[k].target \subseteq hold[o]
      BY <1>5, <2>2, <3>1, <3>2
    <3> QED
      BY <2>2, <3>1, <3>2 DEF Told
  <2> QED
    BY <1>2, <2>1, <2>2
<1>7. Kept'
  BY <1>3, <1>4 DEF Kept, Runs, Close
<1>8. Apart'
  BY DEF Apart
<1>9. Clear'
  <2> SUFFICES ASSUME NEW o \in Get, NEW c \in Cards, Live(c)', card[c].target \cap hold[o] # {}
               PROVE  answer'[o] = card[c].of
    BY <1>4 DEF Clear
  <2>1. Live(c)
    BY <1>3, <1>4 DEF Live, Close
  <2>2. answer[o] = card[c].of
    BY <2>1 DEF Clear
  <2> QED
    BY <1>3, <1>5, <2>2
<1>10. job'[n].by = KindOf(r) /\ job'[n].target = hold[r]
  BY <1>2
<1>11. AddonOne'
  <2> SUFFICES ASSUME NEW j \in Jobs', NEW k \in Jobs', j < k,
                      job'[j].state = "active", job'[k].state = "active",
                      job'[j].by \in {"acquire", "hunt"}, job'[k].by \in {"acquire", "hunt"}
               PROVE  "name" \notin job'[j].target \cap job'[k].target
    BY DEF AddonOne, Album
  <2>1. CASE j \in Jobs /\ k \in Jobs
    BY <1>2, <2>1 DEF AddonOne, Album
  <2>2. CASE j \in Jobs /\ k = n
    <3>1. job'[j] = job[j] /\ job'[k].by = KindOf(r) /\ job'[k].target = hold[r]
      BY <1>10, <1>2, <2>2
    <3>2. j \notin SameAlbum(r)
      BY <3>1 DEF Album
    <3>3. job[j].state = "active" /\ Album(job[j].by)
      BY <3>1 DEF Album
    <3>4. "name" \notin job[j].target \cap hold[r]
      BY <2>2, <3>2, <3>3 DEF SameAlbum
    <3> QED
      BY <3>1, <3>4
  <2>3. CASE j = n
    <3>1. Len(job) \in Nat /\ Jobs = 1..Len(job)
      BY Numbers DEF Sound
    <3>2. k \in 1..n /\ j = n
      BY <1>2, <2>3, <3>1
    <3>3. ~(j < k)
      BY <3>1, <3>2
    <3> QED
      BY <3>3
  <2> QED
    BY <1>2, <2>1, <2>2, <2>3
<1>12. OneRow'
  BY DEF OneRow, Cards
<1>13. Fits'
  BY <1>2, Numbers, GetsAssumption DEF Fits, Sound
<1> QED
  BY <1>2, <1>5, <1>6, <1>7, <1>8, <1>9, <1>11, <1>12, <1>13

---------------------------------------------------------------------------
(* What a step leaves of the types where no job is new.                      *)
LEMMA TypedInPlace ==
  ASSUME GetTypeOK, Fits,
         /\ at' \in [Get -> Waits] /\ hold' \in [Get -> SUBSET Facet]
         /\ replace' \in [Get -> BOOLEAN] /\ answer' \in [Get -> 0..Conflict]
         /\ watch' \in {"watching", "acquired", "failed"},
         \A r \in Get : (hold'[r] # {}) = (at'[r] # "idle"),
         \/ UNCHANGED job
         \/ \E j \in Jobs, s \in {"cancelled", "over"} : job' = [job EXCEPT ![j].state = s],
         card' \in Seq(CardRec(Jobs)), UNCHANGED key, onDisk' \in BOOLEAN,
         lost' \subseteq Jobs, parted' \subseteq Jobs
  PROVE  GetTypeOK' /\ Fits'
<1>1. job' \in Seq(JobRec) /\ Jobs' = Jobs /\ Len(job') = Len(job)
  <2>1. CASE UNCHANGED job
    BY <2>1, Numbers DEF Jobs
  <2>2. CASE \E j \in Jobs, s \in {"cancelled", "over"} : job' = [job EXCEPT ![j].state = s]
    <3>1. PICK j \in Jobs, s \in {"cancelled", "over"} : job' = [job EXCEPT ![j].state = s]
      BY <2>2
    <3>2. job \in Seq(JobRec) /\ \A k \in DOMAIN job : job[k] \in JobRec
      BY Numbers DEF Jobs
    <3>3. /\ job' = [k \in DOMAIN job |-> job'[k]]
          /\ \A k \in DOMAIN job : job'[k] \in JobRec
      BY <3>1, <3>2 DEF JobRec
    <3> QED
      BY <3>2, <3>3, InPlace DEF Jobs
  <2> QED
    BY <2>1, <2>2
<1> QED
  BY <1>1 DEF GetTypeOK, Fits, JobRec, CardRec

LEMMA RetiredTyped ==
  ASSUME GetTypeOK, UNCHANGED card \/ \E target \in SUBSET Facet : card' = Supersede(target)
  PROVE  card' \in Seq(CardRec(Jobs))
BY Retired, Numbers

(* A way out of a lane.                                                      *)
LEMMA LeavesSound ==
  ASSUME Sound, NEW r \in Get, NEW outcome, GetAnswered(r, outcome),
         UNCHANGED <<job, key, onDisk, parted>>,
         card' \in Seq(CardRec(Jobs)), lost' \subseteq Jobs
  PROVE  Sound'
<1>1. /\ at' \in [Get -> Waits] /\ hold' \in [Get -> SUBSET Facet]
      /\ replace' \in [Get -> BOOLEAN] /\ answer' \in [Get -> 0..Conflict]
      /\ watch' \in {"watching", "acquired", "failed"}
      /\ at'[r] = "idle" /\ hold'[r] = {} /\ answer'[r] = 0
      /\ \A o \in Get \ {r} :
           at'[o] = at[o] /\ hold'[o] = hold[o] /\ answer'[o] = answer[o]
  BY AnsweredLeaves DEF Sound
<1>2. \A o \in Get : (hold'[o] # {}) = (at'[o] # "idle")
  BY <1>1 DEF Sound, GetTypeOK
<1>3. GetTypeOK' /\ Fits'
  BY <1>1, <1>2, TypedInPlace DEF Sound, GetTypeOK
<1>4. Asked'
  BY <1>1 DEF Sound, Asked, Answering
<1> QED
  BY <1>3, <1>4 DEF Sound

LEMMA LeavesKeeps ==
  ASSUME IInv, NEW r \in Get, NEW outcome, GetAnswered(r, outcome),
         UNCHANGED <<job, key, onDisk, parted>>,
         UNCHANGED card \/ \E target \in SUBSET Facet : card' = Supersede(target),
         lost \subseteq lost', lost' \subseteq Jobs,
         answer[r] \in Jobs => answer[r] \in lost'
  PROVE  IInv'
<1>1. Sound'
  BY LeavesSound, RetiredTyped DEF IInv, Sound
<1>2. Fades
  BY RetiresFades DEF IInv, Sound
<1>3. \A o \in Get : Steady(o) \/ Freed(o)
  BY AnsweredLeaves DEF IInv, Sound, Steady, Freed
<1> QED
  BY <1>1, <1>2, <1>3, FadesKeeps DEF IInv

(* A request moves on, holding what it held.                                 *)
LEMMA GoesOnKeeps ==
  ASSUME IInv, NEW r \in Get, at[r] # "idle", answer[r] \notin Jobs,
         NEW next \in Waits \ {"idle", "lidarr"}, at' = [at EXCEPT ![r] = next],
         NEW a \in 0..Conflict, answer' = [answer EXCEPT ![r] = a],
         a # 0 => next \in {"answer", "reanswer"},
         UNCHANGED <<hold, replace, key, onDisk, watch, lost, parted>>,
         UNCHANGED card \/ \E target \in SUBSET Facet : card' = Supersede(target),
         \/ UNCHANGED job
         \/ \E j \in Jobs, s \in {"cancelled", "over"} : job' = [job EXCEPT ![j].state = s]
  PROVE  IInv'
<1>1. /\ at' \in [Get -> Waits] /\ at'[r] = next
      /\ \A o \in Get \ {r} : at'[o] = at[o]
  BY DEF IInv, Sound, GetTypeOK
<1>2. /\ answer' \in [Get -> 0..Conflict] /\ answer'[r] = a
      /\ \A o \in Get \ {r} : answer'[o] = answer[o]
  BY DEF IInv, Sound, GetTypeOK
<1>3. \A o \in Get : (hold'[o] # {}) = (at'[o] # "idle")
  BY <1>1 DEF IInv, Sound, GetTypeOK
<1>4. GetTypeOK' /\ Fits'
  BY <1>1, <1>2, <1>3, TypedInPlace, RetiredTyped DEF IInv, Sound, GetTypeOK
<1>5. Asked'
  BY <1>1, <1>2 DEF IInv, Sound, Asked, Answering
<1>6. Fades
  BY RetiresFades DEF IInv, Sound
<1>7. \A o \in Get : Steady(o)
  BY <1>2 DEF Steady
<1> QED
  BY <1>4, <1>5, <1>6, <1>7, FadesKeeps DEF IInv, Sound

(* A request takes up a target that no other holds, its live cards retired.  *)
LEMMA TakesKeeps ==
  ASSUME IInv, NEW r \in Get, ~Answering(r), NEW target \in SUBSET Facet, target # {},
         NEW next \in {"lidarr", "create"}, next = "lidarr" /\ r \in Hunt => "id" \in target,
         ~Held(r, target),
         \/ card' = Supersede(target)
         \/ UNCHANGED card /\ ActiveRows(target) = {},
         hold' = [hold EXCEPT ![r] = hold[r] \cup target],
         at' = [at EXCEPT ![r] = next],
         replace' \in [Get -> BOOLEAN],
         UNCHANGED <<answer, job, key, onDisk, watch, lost, parted>>
  PROVE  IInv'
<1>1. /\ at' \in [Get -> Waits] /\ at'[r] = next /\ next # "idle"
      /\ hold' \in [Get -> SUBSET Facet] /\ hold'[r] = hold[r] \cup target
      /\ \A o \in Get \ {r} : at'[o] = at[o] /\ hold'[o] = hold[o]
  BY DEF IInv, Sound, GetTypeOK, Waits
<1>2. \A o \in Get : (hold'[o] # {}) = (at'[o] # "idle")
  BY <1>1 DEF IInv, Sound, GetTypeOK
<1>3. GetTypeOK' /\ Fits'
  BY <1>1, <1>2, TypedInPlace, RetiredTyped DEF IInv, Sound, GetTypeOK
<1>4. answer[r] = 0 /\ answer[r] \notin Jobs /\ 0 \notin Jobs
  BY NoAnswer, NoJob DEF IInv
<1>5. Asked'
  BY <1>1, <1>4 DEF IInv, Sound, Asked, Answering
<1>6. Fades
  BY RetiresFades DEF IInv, Sound
<1>7. Takes(r)
  <2>1. ASSUME NEW c \in Cards, Live(c)'
        PROVE  card[c].target \cap hold'[r] = {}
    <3>1. Live(c) /\ card[c].of \in Jobs
      BY <1>6, <2>1 DEF Fades, Live, Close
    <3>2. card[c].target \cap hold[r] = {}
      BY <1>4, <3>1 DEF IInv, Guarded, Clear
    <3>3. card[c].target \cap target = {}
      <4>1. CASE card' = Supersede(target)
        <5>1. Supersede(target)[c].state = "active"
          BY <2>1, <4>1 DEF Live
        <5> QED
          BY <5>1, Retired DEF IInv, Sound
      <4>2. CASE UNCHANGED card /\ ActiveRows(target) = {}
        BY <3>1, <4>2 DEF ActiveRows, Match, Live
      <4> QED
        BY <4>1, <4>2
    <3> QED
      BY <1>1, <3>2, <3>3
  <2>2. ASSUME NEW o \in Get \ {r}
        PROVE  hold'[r] \cap hold[o] = {} /\ Steady(o)
    <3>1. hold[r] \cap hold[o] = {}
      BY DEF IInv, Guarded, Apart
    <3>2. target \cap hold[o] = {}
      BY DEF Held, Match
    <3> QED
      BY <1>1, <3>1, <3>2 DEF Steady
  <2> QED
    BY <1>4, <2>1, <2>2 DEF Takes
<1>8. \A o \in Get \ {r} : Steady(o)
  BY <1>1 DEF Steady
<1> QED
  BY <1>3, <1>5, <1>6, <1>7, <1>8, FadesKeeps DEF IInv, Sound

---------------------------------------------------------------------------
(* The lanes.                                                                *)
LEMMA EnterKeeps ==
  ASSUME IInv, NEW r \in Get, at[r] = "idle", NEW target \in SUBSET Facet, target # {},
         NEW rep \in BOOLEAN, NEW next \in {"lidarr", "create"},
         next = "lidarr" /\ r \in Hunt => "id" \in target,
         Enter(r, target, rep, next)
  PROVE  IInv'
<1>1. ~Answering(r) /\ answer[r] \notin Jobs
  BY NoAnswer DEF IInv, Answering
<1>2. UNCHANGED card \/ \E t \in SUBSET Facet : card' = Supersede(t)
  BY DEF Enter
<1>3. UNCHANGED <<job, key, onDisk, lost, parted>>
  BY DEF Enter
<1>4. lost \subseteq Jobs
  BY DEF IInv, Sound, GetTypeOK
<1>5. CASE (~rep /\ ActiveRows(target) # {}) \/ Held(r, target)
  <2>1. GetAnswered(r, "in-flight")
    BY <1>5 DEF Enter
  <2> QED
    BY <1>1, <1>2, <1>3, <1>4, <2>1, LeavesKeeps
<1>6. CASE ~((~rep /\ ActiveRows(target) # {}) \/ Held(r, target))
  <2>1. /\ hold' = [hold EXCEPT ![r] = hold[r] \cup target]
        /\ at' = [at EXCEPT ![r] = next]
        /\ replace' = [replace EXCEPT ![r] = rep]
        /\ UNCHANGED <<answer, watch>>
    BY <1>6 DEF Enter
  <2>2. replace' \in [Get -> BOOLEAN]
    BY <2>1 DEF IInv, Sound, GetTypeOK
  <2>3. card' = Supersede(target) \/ (UNCHANGED card /\ ActiveRows(target) = {})
    BY <1>6 DEF Enter
  <2> QED
    BY <1>1, <1>3, <1>6, <2>1, <2>2, <2>3, TakesKeeps
<1> QED
  BY <1>5, <1>6

LEMMA StartsKeep ==
  ASSUME IInv, NEW r \in Get, AcquireStarts(r) \/ HuntStarts(r) \/ GrabStarts(r)
  PROVE  IInv'
<1>1. CASE AcquireStarts(r)
  <2>1. /\ r \in Acquire \ Hunt /\ at[r] = "idle"
        /\ Enter(r, Facet, FALSE, "lidarr")
    BY <1>1, GetsAssumption DEF AcquireStarts
  <2>2. Facet # {}
    BY DEF Facet
  <2> QED
    BY <2>1, <2>2, EnterKeeps
<1>2. CASE HuntStarts(r)
  <2>1. PICK rep \in BOOLEAN : at[r] = "idle" /\ Enter(r, {"id"}, rep, "lidarr")
    BY <1>2 DEF HuntStarts
  <2>2. {"id"} \in SUBSET Facet
    BY DEF Facet
  <2> QED
    BY <2>1, <2>2, EnterKeeps
<1>3. CASE GrabStarts(r)
  <2>1. PICK target \in GrabFacets, rep \in BOOLEAN :
          at[r] = "idle" /\ Enter(r, target, rep, "create")
    BY <1>3 DEF GrabStarts
  <2>2. target \in SUBSET Facet /\ target # {}
    BY GetsAssumption
  <2> QED
    BY <2>1, <2>2, EnterKeeps
<1> QED
  BY <1>1, <1>2, <1>3

LEMMA HuntNamedKeeps ==
  ASSUME IInv, NEW r \in Get, HuntNamed(r)
  PROVE  IInv'
<1>1. r \in Hunt /\ at[r] = "lidarr" /\ ~Answering(r) /\ answer[r] \notin Jobs
  BY NoAnswer DEF HuntNamed, IInv, Answering
<1>2. UNCHANGED <<job, key, onDisk, lost, parted>> /\ lost \subseteq Jobs
  BY DEF HuntNamed, IInv, Sound, GetTypeOK
<1>3. {"name"} \in SUBSET Facet
  BY DEF Facet
<1>4. UNCHANGED card \/ \E t \in SUBSET Facet : card' = Supersede(t)
  BY <1>3 DEF HuntNamed
<1> DEFINE refused == \/ ~replace[r] /\ (ActiveRows({"name"}) # {} \/ onDisk)
                      \/ Held(r, {"name"})
<1>5. CASE refused
  <2>1. GetAnswered(r, "refused")
    BY <1>5 DEF HuntNamed
  <2> QED
    BY <1>1, <1>2, <1>4, <2>1, LeavesKeeps
<1>6. CASE ~refused
  <2>1. /\ at' = [at EXCEPT ![r] = "create"]
        /\ hold' = [hold EXCEPT ![r] = Facet]
        /\ UNCHANGED <<replace, answer, watch>>
    BY <1>6 DEF HuntNamed
  <2>2. hold[r] \cup {"name"} = Facet
    BY <1>1 DEF IInv, Sound, Asked, GetTypeOK, Facet
  <2>3. replace' \in [Get -> BOOLEAN]
    BY <2>1 DEF IInv, Sound, GetTypeOK
  <2>4. card' = Supersede({"name"}) \/ (UNCHANGED card /\ ActiveRows({"name"}) = {})
    BY <1>6 DEF HuntNamed
  <2> QED
    BY <1>1, <1>2, <1>3, <1>6, <2>1, <2>2, <2>3, <2>4, TakesKeeps
<1> QED
  BY <1>5, <1>6

(* A request that moves on, its answer as it was.                            *)
LEMMA SameAnswer ==
  ASSUME IInv, NEW r \in Get, UNCHANGED answer
  PROVE  answer[r] \in 0..Conflict /\ answer' = [answer EXCEPT ![r] = answer[r]]
BY DEF IInv, Sound, GetTypeOK

LEMMA GoingOnKeeps ==
  ASSUME IInv, NEW r \in Get, AcquireGoesOn(r) \/ HuntUnnamed(r) \/ HuntReplaces(r)
  PROVE  IInv'
<1>1. PICK next \in {"search", "create", "recreate"} :
        /\ at[r] \in {"lidarr", "search", "cancel"} /\ at' = [at EXCEPT ![r] = next]
        /\ UNCHANGED <<hold, replace, answer, key, onDisk, watch, lost, parted>>
        /\ UNCHANGED card \/ card' = Supersede(hold[r])
        /\ UNCHANGED job \/ \E j \in SameAlbum(r) : job' = [job EXCEPT ![j].state = "cancelled"]
  BY DEF AcquireGoesOn, HuntUnnamed, HuntReplaces
<1>2. answer[r] = 0 /\ answer[r] \notin Jobs
  BY <1>1, NoAnswer DEF IInv, Answering
<1>3. hold[r] \in SUBSET Facet
  BY DEF IInv, Sound, GetTypeOK
<1>4. \/ UNCHANGED job
      \/ \E j \in Jobs, s \in {"cancelled", "over"} : job' = [job EXCEPT ![j].state = s]
  BY <1>1 DEF SameAlbum
<1>5. next \in Waits \ {"idle", "lidarr"} /\ at[r] # "idle"
  BY <1>1 DEF Waits
<1> QED
  BY <1>1, <1>2, <1>3, <1>4, <1>5, SameAnswer, GoesOnKeeps

LEMMA AddonCreatesKeeps ==
  ASSUME IInv, NEW r \in Get, AddonCreates(r)
  PROVE  IInv'
<1> DEFINE next == IF at[r] = "create" THEN "answer" ELSE "reanswer"
<1>1. /\ at[r] # "idle" /\ ~Answering(r) /\ answer[r] \notin Jobs
      /\ next \in Waits \ {"idle", "lidarr"} /\ next \in {"answer", "reanswer"}
      /\ at' = [at EXCEPT ![r] = next]
      /\ UNCHANGED <<hold, replace, card, onDisk, watch, lost, parted>>
  BY NoAnswer DEF AddonCreates, IInv, Answering, Waits
<1>2. CASE \E a \in 0..Conflict : answer' = [answer EXCEPT ![r] = a] /\ UNCHANGED <<job, key>>
  BY <1>1, <1>2, GoesOnKeeps
<1>3. CASE Replays(r) /\ answer' = [answer EXCEPT ![r] = key] /\ UNCHANGED <<job, key>>
  <2>1. key \in 0..Conflict
    BY Numbers, NoJob, GetsAssumption DEF IInv, Sound, GetTypeOK, Fits, Conflict
  <2> QED
    BY <1>2, <1>3, <2>1
<1>4. CASE answer' = [answer EXCEPT ![r] = Conflict] /\ UNCHANGED <<job, key>>
  <2>1. Conflict \in 0..Conflict
    BY NoJob DEF IInv
  <2> QED
    BY <1>2, <1>4, <2>1
<1>5. CASE /\ ~(Album(KindOf(r)) /\ SameAlbum(r) # {}) /\ Len(job) < MaxJobs
           /\ job' = Append(job, [by |-> KindOf(r), target |-> hold[r], state |-> "active"])
           /\ answer' = [answer EXCEPT ![r] = Len(job')]
           /\ key' = IF Keyed(r) /\ key = 0 THEN Len(job') ELSE key
  <2>1. /\ Guarded' /\ job' \in Seq(JobRec) /\ Len(job') = Len(job) + 1
        /\ Jobs \subseteq Jobs' /\ answer'[r] \in Jobs' /\ Fits'
    BY <1>1, <1>5, MintKeeps
  <2>2. /\ Len(job) \in Nat /\ card \in Seq(CardRec(Jobs))
    BY Numbers DEF IInv, Sound
  <2>3. card' \in Seq(CardRec(Jobs'))
    BY <1>1, <2>1, <2>2, CardsGrow
  <2>4. key' \in 0..Len(job')
    BY <1>5, <2>1, <2>2 DEF IInv, Sound, GetTypeOK
  <2>5. /\ answer' \in [Get -> 0..Conflict] /\ Len(job') \in 0..Conflict
        /\ \A o \in Get \ {r} : answer'[o] = answer[o]
    <3>1. Len(job') \in 0..Conflict
      BY <1>5, <2>1, <2>2, GetsAssumption DEF Conflict
    <3> QED
      BY <1>5, <3>1 DEF IInv, Sound, GetTypeOK
  <2>6. /\ at' \in [Get -> Waits] /\ at'[r] = next
        /\ \A o \in Get \ {r} : at'[o] = at[o]
    BY <1>1 DEF IInv, Sound, GetTypeOK
  <2>7. \A o \in Get : (hold'[o] # {}) = (at'[o] # "idle")
    BY <1>1, <2>6 DEF IInv, Sound, GetTypeOK
  <2>8. GetTypeOK'
    BY <1>1, <2>1, <2>3, <2>4, <2>5, <2>6, <2>7 DEF IInv, Sound, GetTypeOK, JobRec, CardRec
  <2>9. Asked'
    BY <1>1, <2>5, <2>6 DEF IInv, Sound, Asked, Answering
  <2> QED
    BY <2>1, <2>8, <2>9 DEF IInv, Sound
<1> QED
  BY <1>3, <1>4, <1>5 DEF AddonCreates

LEMMA InsertedTyped ==
  ASSUME Sound, NEW j \in Jobs, NEW target \in SUBSET Facet
  PROVE  Inserted(j, target) \in Seq(CardRec(Jobs))
<1>1. [of |-> j, target |-> target, state |-> "active"] \in CardRec(Jobs)
  BY DEF CardRec
<1> QED
  BY <1>1, Numbers, AppendProperties DEF Inserted, Sound

LEMMA RowWrittenKeeps ==
  ASSUME IInv, NEW r \in Get, RowWritten(r)
  PROVE  IInv'
<1>1. /\ answer[r] \in Jobs /\ hold[r] \in SUBSET Facet /\ lost \subseteq Jobs
      /\ GetAnswered(r, "enqueued") /\ card' = Inserted(answer[r], hold[r])
      /\ UNCHANGED <<job, key, onDisk, lost, parted>>
  BY DEF RowWritten, IInv, Sound, GetTypeOK
<1>2. /\ hold'[r] = {}
      /\ \A o \in Get \ {r} : hold'[o] = hold[o] /\ answer'[o] = answer[o]
  BY <1>1, AnsweredLeaves DEF IInv, Sound
<1>3. Sound'
  BY <1>1, InsertedTyped, LeavesSound DEF IInv
<1>4. Guarded'
  BY <1>1, <1>2, InsertKeeps
<1> QED
  BY <1>3, <1>4 DEF IInv

LEMMA ConflictArrivesKeeps ==
  ASSUME IInv, NEW r \in Get, ConflictArrives(r)
  PROVE  IInv'
<1>1. /\ answer[r] = Conflict /\ answer[r] \notin Jobs /\ at[r] # "idle"
      /\ lost \subseteq Jobs /\ UNCHANGED <<job, card, key, onDisk, lost, parted>>
  BY NoJob DEF ConflictArrives, IInv, Sound, GetTypeOK, Answering
<1>2. CASE replace[r] /\ at[r] = "answer"
  <2>1. /\ at' = [at EXCEPT ![r] = "cancel"] /\ answer' = [answer EXCEPT ![r] = 0]
        /\ UNCHANGED <<hold, replace, watch>>
    BY <1>2 DEF ConflictArrives
  <2>2. "cancel" \in Waits \ {"idle", "lidarr"} /\ 0 \in 0..Conflict
    BY NoJob DEF Waits, IInv
  <2> QED
    BY <1>1, <2>1, <2>2, GoesOnKeeps
<1>3. CASE ~(replace[r] /\ at[r] = "answer")
  <2>1. GetAnswered(r, "in-flight")
    BY <1>3 DEF ConflictArrives
  <2> QED
    BY <1>1, <2>1, LeavesKeeps
<1> QED
  BY <1>2, <1>3

LEMMA EndingsKeep ==
  ASSUME IInv, NEW r \in Get, AcquireEnds(r) \/ CreateFails(r) \/ AnswerLost(r)
  PROVE  IInv'
<1>1. PICK outcome \in {"no-candidate", "slskd-unavailable", "already-complete",
                        "enqueue-failed", "enqueued"} : GetAnswered(r, outcome)
  BY DEF AcquireEnds, CreateFails, AnswerLost
<1>2. UNCHANGED <<job, card, key, onDisk, parted>>
  BY DEF AcquireEnds, CreateFails, AnswerLost
<1>3. lost \subseteq Jobs
  BY DEF IInv, Sound, GetTypeOK
<1>4. CASE AnswerLost(r)
  <2>1. lost' = lost \cup ({answer[r]} \cap Jobs)
    BY <1>4 DEF AnswerLost
  <2> QED
    BY <1>1, <1>2, <1>3, <2>1, LeavesKeeps
<1>5. CASE AcquireEnds(r) \/ CreateFails(r)
  <2>1. UNCHANGED lost /\ ~Answering(r)
    BY <1>5 DEF AcquireEnds, CreateFails, Answering
  <2>2. answer[r] \notin Jobs
    BY <2>1, NoAnswer DEF IInv
  <2> QED
    BY <1>1, <1>2, <1>3, <2>1, <2>2, LeavesKeeps
<1> QED
  BY <1>4, <1>5

---------------------------------------------------------------------------
(* The poller, the addon's jobs and the cards, the requests as they are.     *)
Requests == <<at, hold, replace, answer, key, watch, lost>>

LEMMA RequestsRest ==
  ASSUME IInv, UNCHANGED Requests,
         card' \in Seq(CardRec(Jobs)), onDisk' \in BOOLEAN, parted' \subseteq Jobs,
         \/ UNCHANGED job
         \/ \E j \in Jobs, s \in {"cancelled", "over"} : job' = [job EXCEPT ![j].state = s]
  PROVE  Sound' /\ \A r \in Get : Steady(r)
<1>1. GetTypeOK' /\ Fits'
  BY TypedInPlace DEF IInv, Sound, GetTypeOK, Requests
<1>2. Asked'
  BY DEF IInv, Sound, Asked, Answering, Requests
<1>3. \A r \in Get : Steady(r)
  BY DEF Steady, Requests
<1> QED
  BY <1>1, <1>2, <1>3 DEF Sound

LEMMA PollerMintsKeeps ==
  ASSUME IInv, NEW j \in Jobs, PollerMints(j)
  PROVE  IInv'
<1> DEFINE target == job[j].target \ {"id"}
<1>1. /\ card' = Inserted(j, target) /\ job[j].state = "active" /\ CardsOf(j) = {}
      /\ UNCHANGED <<at, hold, replace, answer, job, key, onDisk, watch, lost, parted>>
  BY DEF PollerMints
<1>2. target \in SUBSET Facet
  BY Numbers DEF IInv, Sound, JobRec
<1>3. Sound'
  <2>1. card' \in Seq(CardRec(Jobs))
    BY <1>1, <1>2, InsertedTyped DEF IInv
  <2> QED
    BY <1>1, <2>1, RequestsRest DEF Requests, IInv, Sound, GetTypeOK
<1>4. Close(j) => \E r \in Get : answer[r] = j /\ target \subseteq hold[r]
  <2> SUFFICES ASSUME Close(j)
               PROVE  \E r \in Get : answer[r] = j /\ target \subseteq hold[r]
    OBVIOUS
  <2>1. Runs(j) /\ ~\E c \in Cards : card[c].of = j
    BY <1>1 DEF Runs, CardsOf
  <2>2. PICK r \in Get : answer[r] = j /\ job[j].target \subseteq hold[r]
    BY <2>1 DEF IInv, Guarded, Told
  <2> QED
    BY <2>2
<1>5. Guarded'
  BY <1>1, <1>2, <1>4, InsertKeeps
<1> QED
  BY <1>3, <1>5 DEF IInv

(* A job ends on its own or is cancelled.                                    *)
LEMMA JobStepsKeep ==
  ASSUME IInv, UNCHANGED <<at, hold, replace, answer, card, key, onDisk, watch, lost, parted>>,
         \/ UNCHANGED job
         \/ \E j \in Jobs, s \in {"cancelled", "over"} : job' = [job EXCEPT ![j].state = s]
  PROVE  IInv'
<1>1. Sound' /\ \A r \in Get : Steady(r)
  BY RequestsRest, Numbers DEF Requests, IInv, Sound, GetTypeOK
<1>2. Fades
  BY RetiresFades DEF IInv, Sound
<1> QED
  BY <1>1, <1>2, FadesKeeps DEF IInv

(* Cancelling changes a job that runs and no other.                          *)
LEMMA Cancelling ==
  ASSUME GetTypeOK, NEW j \in Jobs, job' = Cancelled(j)
  PROVE  /\ Jobs' = Jobs /\ job'[j].state # "active"
         /\ \A k \in Jobs : /\ job'[k].by = job[k].by /\ job'[k].target = job[k].target
                            /\ job'[k].state = "active" => job[k].state = "active"
         /\ \E s \in {"cancelled", "over"} : job' = [job EXCEPT ![j].state = s]
<1>1. job[j] \in JobRec /\ job \in Seq(JobRec) /\ j \in DOMAIN job
  BY Numbers DEF Jobs
<1>2. PICK s \in {"cancelled", "over"} : job' = [job EXCEPT ![j].state = s]
  <2>1. CASE job[j].state = "over"
    BY <2>1 DEF Cancelled
  <2>2. CASE job[j].state # "over"
    <3>1. job[j].state \in {"active", "cancelled"}
      BY <1>1, <2>2 DEF JobRec
    <3>2. job' = [job EXCEPT ![j].state = "cancelled"]
      BY <3>1 DEF Cancelled
    <3> QED
      BY <3>2
  <2> QED
    BY <2>1, <2>2
<1>3. \A k \in Jobs : job[k] \in JobRec
  BY Numbers
<1>4. Jobs' = Jobs /\ job'[j].state = s
  BY <1>1, <1>2, <1>3 DEF Jobs, JobRec
<1>5. ASSUME NEW k \in Jobs
      PROVE  /\ job'[k].by = job[k].by /\ job'[k].target = job[k].target
             /\ job'[k].state = "active" => job[k].state = "active"
  <2>1. CASE k = j
    BY <1>1, <1>2, <2>1 DEF JobRec
  <2>2. CASE k # j
    <3>1. job'[k] = job[k]
      BY <1>1, <1>2, <2>2 DEF Jobs
    <3> QED
      BY <3>1
  <2> QED
    BY <2>1, <2>2
<1> QED
  BY <1>2, <1>4, <1>5

(* A card that closes, reopens or goes: its job has ended, ends with it, or  *)
(* parts from it.                                                            *)
LEMMA CardStepsKeep ==
  ASSUME IInv, NEW c \in Cards, UNCHANGED Requests, onDisk' \in BOOLEAN,
         NEW new \in CardRec(Jobs), card' = [card EXCEPT ![c] = new], new.of = card[c].of,
         \/ parted' = parted /\ new.state # "active" /\ job'[card[c].of].state # "active"
         \/ parted' = parted \cup {card[c].of},
         UNCHANGED job \/ job' = Cancelled(card[c].of)
  PROVE  IInv'
<1>1. /\ card \in Seq(CardRec(Jobs)) /\ card[c].of \in Jobs
      /\ \A d \in Cards : card[d] \in CardRec(Jobs)
  BY Numbers DEF IInv, Sound, CardRec
<1>2. /\ job' = job \/ \E j \in Jobs, s \in {"cancelled", "over"} :
                         job' = [job EXCEPT ![j].state = s]
      /\ Jobs' = Jobs
      /\ \A j \in Jobs : /\ job'[j].by = job[j].by /\ job'[j].target = job[j].target
                         /\ job'[j].state = "active" => job[j].state = "active"
  BY <1>1, Cancelling DEF IInv, Sound, Jobs
<1>3. /\ card' \in Seq(CardRec(Jobs)) /\ Cards' = Cards
      /\ card'[c] = new /\ \A d \in Cards \ {c} : card'[d] = card[d]
  <2>1. /\ card' = [d \in DOMAIN card |-> card'[d]]
        /\ \A d \in DOMAIN card : card'[d] \in CardRec(Jobs)
    BY <1>1 DEF Cards
  <2> QED
    BY <1>1, <2>1, InPlace DEF Cards
<1>4. parted \subseteq parted' /\ parted' \subseteq Jobs /\ lost' = lost
  BY <1>1 DEF IInv, Sound, GetTypeOK, Requests
<1>5. Sound' /\ \A r \in Get : Steady(r)
  BY <1>2, <1>3, <1>4, RequestsRest
<1>6. ~Live(c)' /\ ~Runs(card[c].of)'
  BY <1>3 DEF Live, Runs, Close
<1>7. Fades
  <2>1. ASSUME NEW d \in Cards
        PROVE  /\ card'[d].of = card[d].of
               /\ Live(d)' => Live(d) /\ card'[d].target = card[d].target
               /\ Runs(card[d].of)' => /\ card'[d].target = card[d].target
                                       /\ card'[d].state \in {card[d].state, "superseded"}
    <3>1. CASE d = c
      BY <1>3, <1>6, <3>1
    <3>2. CASE d # c
      BY <1>2, <1>3, <1>4, <3>2 DEF Live, Close
    <3> QED
      BY <3>1, <3>2
  <2> QED
    BY <1>2, <1>3, <1>4, <2>1 DEF Fades
<1> QED
  BY <1>5, <1>7, FadesKeeps DEF IInv

LEMMA CardsKeep ==
  ASSUME IInv, NEW c \in Cards, CardCloses(c) \/ CardReopens(c) \/ CardRemoved(c)
  PROVE  IInv'
<1>1. card[c] \in CardRec(Jobs) /\ card[c].of \in Jobs /\ job[card[c].of] \in JobRec
  BY Numbers DEF IInv, Sound, CardRec
<1>2. UNCHANGED Requests /\ onDisk' \in BOOLEAN
  BY DEF CardCloses, CardReopens, CardRemoved, CardMoves, Requests, IInv, Sound, GetTypeOK
<1>3. CASE CardCloses(c)
  <2>1. PICK new \in CardRec(Jobs) : /\ card' = [card EXCEPT ![c] = new]
                                     /\ new.of = card[c].of /\ new.state # "active"
    <3>1. [card[c] EXCEPT !.state = "over"] \in CardRec(Jobs)
      BY <1>1 DEF CardRec
    <3> QED
      BY <1>1, <1>3, <3>1 DEF CardCloses, CardMoves, CardRec
  <2> QED
    BY <1>2, <1>3, <2>1, CardStepsKeep DEF CardCloses, Parts
<1>4. CASE CardReopens(c)
  <2>1. PICK new \in CardRec(Jobs) : card' = [card EXCEPT ![c] = new] /\ new.of = card[c].of
    <3>1. [card[c] EXCEPT !.state = "active"] \in CardRec(Jobs)
      BY <1>1 DEF CardRec
    <3> QED
      BY <1>1, <1>4, <3>1 DEF CardReopens, CardMoves, CardRec
  <2> QED
    BY <1>2, <1>4, <2>1, CardStepsKeep DEF CardReopens, Parts
<1>5. CASE CardRemoved(c)
  <2>1. PICK new \in CardRec(Jobs) : /\ card' = [card EXCEPT ![c] = new]
                                     /\ new.of = card[c].of /\ new.state # "active"
    <3> DEFINE new == [card[c] EXCEPT !.state = "gone", !.target = {}]
    <3>1. new \in CardRec(Jobs) /\ new.of = card[c].of /\ new.state # "active"
      BY <1>1 DEF CardRec
    <3>2. card' = [card EXCEPT ![c] = new]
      BY <1>5 DEF CardRemoved
    <3> QED
      BY <3>1, <3>2
  <2>2. CASE job' = Cancelled(card[c].of) /\ UNCHANGED parted
    BY <1>1, <1>2, <2>1, <2>2, Cancelling, CardStepsKeep DEF IInv, Sound
  <2>3. CASE UNCHANGED job /\ Parts(card[c].of)
    BY <1>2, <2>1, <2>3, CardStepsKeep DEF Parts
  <2> QED
    BY <1>5, <2>2, <2>3 DEF CardRemoved
<1> QED
  BY <1>3, <1>4, <1>5

---------------------------------------------------------------------------
LEMMA Starts ==
  ASSUME GetInit
  PROVE  IInv
<1>1. Jobs = {} /\ Cards = {} /\ Len(job) = 0
  BY DEF GetInit, Jobs, Cards
<1>2. Conflict \in Nat
  BY GetsAssumption DEF Conflict
<1>3. GetTypeOK
  <2>1. /\ job \in Seq([by : {"acquire", "hunt", "grab"}, target : SUBSET Facet,
                       state : {"active", "cancelled", "over"}])
        /\ card \in Seq([of : Jobs, target : SUBSET Facet,
                        state : {"active", "superseded", "over", "gone"}])
    BY DEF GetInit
  <2>2. /\ at \in [Get -> Waits] /\ answer \in [Get -> 0..Conflict]
        /\ key \in 0..Len(job) /\ lost \subseteq Jobs
    BY <1>1, <1>2 DEF GetInit, Waits
  <2> QED
    BY <2>1, <2>2 DEF GetInit, GetTypeOK
<1>4. Fits /\ Asked
  BY <1>1, GetsAssumption DEF GetInit, Fits, Asked
<1>5. Guarded
  BY <1>1 DEF GetInit, Guarded, Told, Kept, Apart, Clear, AddonOne, OneRow
<1> QED
  BY <1>3, <1>4, <1>5 DEF IInv, Sound

LEMMA Keeps ==
  ASSUME IInv, [GetNext]_getVars
  PROVE  IInv'
<1>1. CASE \E r \in Get :
        \/ AcquireStarts(r) \/ AcquireEnds(r) \/ AcquireGoesOn(r)
        \/ HuntStarts(r) \/ HuntNamed(r) \/ HuntUnnamed(r) \/ GrabStarts(r)
        \/ AddonCreates(r) \/ RowWritten(r) \/ ConflictArrives(r)
        \/ HuntReplaces(r) \/ CreateFails(r) \/ AnswerLost(r)
  BY <1>1, StartsKeep, HuntNamedKeeps, GoingOnKeeps, AddonCreatesKeeps, RowWrittenKeeps,
     ConflictArrivesKeeps, EndingsKeep
<1>2. CASE \E j \in Jobs : PollerMints(j)
  BY <1>2, PollerMintsKeeps
<1>3. CASE \E j \in Jobs : JobEnds(j)
  BY <1>3, JobStepsKeep DEF JobEnds
<1>4. CASE \/ \E j \in Jobs : PollerReleases(j)
           \/ \E c \in Cards : UserCancels(c)
  <2>1. PICK j \in Jobs :
          /\ job' = Cancelled(j)
          /\ UNCHANGED <<at, hold, replace, answer, card, key, onDisk, watch, lost, parted>>
    BY <1>4, Numbers DEF PollerReleases, UserCancels, IInv, Sound, CardRec
  <2>2. \E s \in {"cancelled", "over"} : job' = [job EXCEPT ![j].state = s]
    BY <2>1, Cancelling DEF IInv, Sound
  <2> QED
    BY <2>1, <2>2, JobStepsKeep
<1>5. CASE \E c \in Cards : CardCloses(c) \/ CardReopens(c) \/ CardRemoved(c)
  BY <1>5, CardsKeep
<1>6. CASE Rearm
  <2>1. /\ UNCHANGED <<at, hold, replace, answer, job, card, key, onDisk, lost, parted>>
        /\ watch' = "watching"
    BY <1>6 DEF Rearm
  <2>2. GetTypeOK' /\ Fits'
    BY <2>1, TypedInPlace, Numbers DEF IInv, Sound, GetTypeOK
  <2>3. Asked'
    BY <2>1 DEF IInv, Sound, Asked, Answering
  <2>4. Fades /\ \A r \in Get : Steady(r)
    BY <2>1, RetiresFades DEF IInv, Sound, Steady
  <2> QED
    BY <2>2, <2>3, <2>4, FadesKeeps DEF IInv, Sound
<1>7. CASE UNCHANGED getVars
  BY <1>7, JobStepsKeep DEF getVars
<1> QED
  BY <1>1, <1>2, <1>3, <1>4, <1>5, <1>6, <1>7 DEF GetNext

LEMMA Always == GetSpec => []IInv
<1>1. GetInit => IInv
  BY Starts
<1>2. IInv /\ [GetNext]_getVars => IInv'
  BY Keeps
<1> QED
  BY <1>1, <1>2, PTL DEF GetSpec

(* The feed never shows one album as two downloads: whatever lanes ask for   *)
(* it at the same time, with whatever targets, replaces, polls between the   *)
(* addon's acceptance and the insert, and answers of the addon, the live     *)
(* cards of two jobs match neither by id nor by name, but for a job whose    *)
(* answer core did not get or whose card closed or reopened on its own.      *)
THEOREM AlbumOnce == GetSpec => []OneRow
<1>1. IInv => OneRow
  BY DEF IInv, Guarded
<1> QED
  BY <1>1, Always, PTL

(* The lanes keep their types, and a request holds the album exactly while   *)
(* it is being served: no way out of a lane leaks its hold.                  *)
THEOREM HoldsReleased == GetSpec => []GetTypeOK
<1>1. IInv => GetTypeOK
  BY DEF IInv, Sound
<1> QED
  BY <1>1, Always, PTL

---------------------------------------------------------------------------
(* What core knows a job as, while it runs, guards the album: it is in a     *)
(* live card of it or held by a request that awaits its answer.              *)
LEMMA Guards ==
  ASSUME IInv, NEW j, Runs(j), NEW facet \in KnownAs(j),
         \A c \in CardsOf(j) : card[c].state # "superseded"
  PROVE  \/ \E c \in CardsOf(j) : Live(c) /\ facet \in card[c].target
         \/ \E r \in Get : answer[r] = j /\ facet \in hold[r]
<1>1. \A c \in CardsOf(j) : Live(c)
  BY DEF IInv, Guarded, Kept, CardsOf, Live, Runs
<1>2. CASE \E c \in CardsOf(j) : facet \in card[c].target
  BY <1>1, <1>2
<1>3. CASE facet \in job[j].target
  <2>1. CASE \E c \in Cards : card[c].of = j /\ job[j].target \subseteq card[c].target
    BY <1>3, <2>1, <1>1 DEF CardsOf
  <2>2. CASE \E r \in Get : answer[r] = j /\ job[j].target \subseteq hold[r]
    BY <1>3, <2>2
  <2> QED
    BY <2>1, <2>2 DEF IInv, Guarded, Told, Runs, Close
<1> QED
  BY <1>2, <1>3 DEF KnownAs

(* Two of which nothing is lost or parted and no card was retired have no    *)
(* album in common.                                                          *)
LEMMA GuardsApart ==
  ASSUME IInv, NEW j, NEW k, j # k, Runs(j), Runs(k),
         \A c \in CardsOf(j) \cup CardsOf(k) : card[c].state # "superseded"
  PROVE  KnownAs(j) \cap KnownAs(k) = {}
<1> SUFFICES ASSUME NEW facet \in KnownAs(j), facet \in KnownAs(k)
             PROVE  FALSE
  OBVIOUS
<1>1. \/ \E c \in CardsOf(j) : Live(c) /\ facet \in card[c].target
      \/ \E r \in Get : answer[r] = j /\ facet \in hold[r]
  BY Guards
<1>2. \/ \E c \in CardsOf(k) : Live(c) /\ facet \in card[c].target
      \/ \E r \in Get : answer[r] = k /\ facet \in hold[r]
  BY Guards
<1>3. ASSUME NEW c \in CardsOf(j), NEW d \in CardsOf(k), Live(c), Live(d),
             facet \in card[c].target, facet \in card[d].target
      PROVE  FALSE
  BY <1>3 DEF IInv, Guarded, OneRow, CardsOf, Live, Close, Match
<1>4. ASSUME NEW c \in Cards, Live(c), facet \in card[c].target,
             NEW r \in Get, answer[r] # card[c].of, facet \in hold[r]
      PROVE  FALSE
  BY <1>4 DEF IInv, Guarded, Clear
<1>5. ASSUME NEW r \in Get, NEW o \in Get, answer[r] = j, answer[o] = k,
             facet \in hold[r], facet \in hold[o]
      PROVE  FALSE
  BY <1>5 DEF IInv, Guarded, Apart
<1> QED
  BY <1>1, <1>2, <1>3, <1>4, <1>5 DEF CardsOf

LEMMA Downloads ==
  ASSUME IInv
  PROVE  OneDownload
<1> SUFFICES ASSUME NEW j \in Jobs, NEW k \in Jobs, j < k,
                    job[j].state = "active", job[k].state = "active",
                    KnownAs(j) \cap KnownAs(k) # {},
                    \A c \in CardsOf(j) \cup CardsOf(k) : card[c].state # "superseded"
             PROVE  Unguarded(j, k)
  BY DEF OneDownload, Match
<1>1. j # k
  BY Numbers DEF IInv, Sound
<1>2. {j, k} \cap (lost \cup parted) # {}
  <2>1. SUFFICES ASSUME Close(j), Close(k)
                 PROVE  FALSE
    BY DEF Close
  <2> QED
    BY <1>1, <2>1, GuardsApart DEF Runs
<1>3. "grab" \in {job[j].by, job[k].by} \/ "name" \notin job[j].target \cap job[k].target
  <2>1. job[j] \in JobRec /\ job[k] \in JobRec
    BY Numbers DEF IInv, Sound
  <2> QED
    BY <2>1 DEF IInv, Guarded, AddonOne, Album, JobRec
<1> QED
  BY <1>2, <1>3 DEF Unguarded

(* The album is not fetched twice: whatever lanes ask for it at the same     *)
(* time, with replays, conflicts and polls at any moment, of two jobs the    *)
(* addon runs for what core knows as one album one was retired by a replace, *)
(* or one is lost or parted from a card and neither core nor the addon       *)
(* could tell.                                                               *)
THEOREM FetchedOnce == GetSpec => []OneDownload
<1>1. IInv => OneDownload
  BY Downloads
<1> QED
  BY <1>1, Always, PTL
====
