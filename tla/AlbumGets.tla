---- MODULE AlbumGets ----
(***************************************************************************)
(* One album = one download.  Every lane that gets an album - the watchlist  *)
(* and missing-list pollers and the retry of a failed card through           *)
(* acquireAlbum, the catalog's hunt-download, a peer-folder grab - checks    *)
(* the active rows of acquisition_jobs, the cards of the feed, holds the     *)
(* album in memory, awaits Lidarr and the addon, and inserts a card of its   *)
(* own last (services/album-acquire.ts, acquisition-job-store.ts,            *)
(* watchlist.service.ts, routes/discography.ts, routes/downloads.ts).  A     *)
(* card closes, reopens and is removed apart from the addon's job.           *)
(*                                                                           *)
(* All requests are for one album.  A target names it by its Lidarr id, by   *)
(* artist and title, or by both, and two targets match when they share one   *)
(* of these facets.  A request may be made again once it has been answered.  *)
(***************************************************************************)
EXTENDS Integers, Sequences, FiniteSets

CONSTANTS Acquire,     \* calls of acquireAlbum
          Retry,       \* those made by the retry of a failed card
          Watch,       \* the watchlist's
          Hunt,        \* hunt-download requests
          Grab,        \* album-shaped grabs of a peer's folder
          GrabFacets,  \* the targets a grab may have
          MaxJobs,     \* bound: jobs the addon mints
          MaxApart,    \* bound: jobs whose answer is lost or that part
                       \* from their cards
          MaxCards     \* bound: cards with which a request starts

Facet == {"id", "name"}
Get == Acquire \cup Hunt \cup Grab

ASSUME GetsAssumption ==
  /\ Acquire \cap Hunt = {} /\ Acquire \cap Grab = {} /\ Hunt \cap Grab = {}
  /\ Retry \subseteq Acquire /\ Watch \in Acquire \ Retry
  /\ GrabFacets \subseteq {F \in SUBSET Facet : "name" \in F}
  /\ MaxJobs \in Nat /\ MaxApart \in Nat /\ MaxCards \in Nat

VARIABLES
  at,       \* what each request awaits
  hold,     \* the facets it holds
  replace,  \* made with ?replace=true
  answer,   \* the addon's answer on its way: a job, or Conflict
  job,      \* the addon's jobs, oldest first
  card,     \* acquisition_jobs, oldest first: of names the addon's job
  key,      \* the job that acquire:<id> names, or 0
  onDisk,   \* the album is complete in the library
  watch,    \* the album's watchlist row
  lost,     \* history: jobs whose creation core was never told of
  parted    \* history: jobs a card of which closed, was removed or reopened
            \* on its own

getVars == <<at, hold, replace, answer, job, card, key, onDisk, watch, lost, parted>>

Conflict == MaxJobs + 1
Jobs == DOMAIN job
Cards == DOMAIN card
Album(kind) == kind \in {"acquire", "hunt"}      \* the addon's intent: album
KindOf(r) == CASE r \in Acquire -> "acquire" [] r \in Hunt -> "hunt" [] OTHER -> "grab"

GetInit ==
  /\ at = [r \in Get |-> "idle"] /\ hold = [r \in Get |-> {}]
  /\ replace = [r \in Get |-> FALSE] /\ answer = [r \in Get |-> 0]
  /\ job = <<>> /\ card = <<>> /\ key = 0
  /\ onDisk = FALSE /\ watch = "watching" /\ lost = {} /\ parted = {}

(* activeAlbumJobIds, heldAlbums: albumTargetsMatch.                         *)
Match(target, other) == target \cap other # {}
ActiveRows(target) == {c \in Cards : card[c].state = "active" /\ Match(target, card[c].target)}
Held_Never(r, target) == FALSE
Held(r, target) == \E o \in Get \ {r} : Match(hold[o], target)
Supersede(target) ==
  [c \in Cards |-> IF c \in ActiveRows(target)
                     THEN [card[c] EXCEPT !.state = "superseded"] ELSE card[c]]

(* The request r is answered, its holds released; the watchlist's caller     *)
(* maps the outcome to its row's state.                                      *)
WatchAfter(r, outcome) ==
  IF r # Watch THEN watch
  ELSE CASE outcome \in {"enqueued", "already-complete", "in-flight"} -> "acquired"
         [] outcome = "enqueue-failed" -> "failed"
         [] OTHER -> watch
Answered_KeepsHold(r, outcome) ==
  /\ at' = [at EXCEPT ![r] = "idle"]
  /\ hold' = hold
  /\ replace' = [replace EXCEPT ![r] = FALSE]
  /\ answer' = [answer EXCEPT ![r] = 0]
  /\ watch' = WatchAfter(r, outcome)
GetAnswered(r, outcome) ==
  /\ at' = [at EXCEPT ![r] = "idle"]
  /\ hold' = [hold EXCEPT ![r] = {}]
  /\ replace' = [replace EXCEPT ![r] = FALSE]
  /\ answer' = [answer EXCEPT ![r] = 0]
  /\ watch' = WatchAfter(r, outcome)

(* A bound: the cards there are, those of the requests under way, and one.   *)
Room == Len(card) + Cardinality({r \in Get : at[r] # "idle"}) < MaxCards

(* Guard and hold in one turn: superseded instead of refused under replace.  *)
Enter(r, target, rep, next) ==
  /\ card' = IF rep THEN Supersede(target) ELSE card
  /\ IF (~rep /\ ActiveRows(target) # {}) \/ Held(r, target)
       THEN GetAnswered(r, "in-flight")
       ELSE /\ hold' = [hold EXCEPT ![r] = @ \cup target]
            /\ at' = [at EXCEPT ![r] = next]
            /\ replace' = [replace EXCEPT ![r] = rep]
            /\ UNCHANGED <<answer, watch>>
  /\ UNCHANGED <<job, key, onDisk, lost, parted>>

AcquireStarts(r) ==
  /\ r \in Acquire /\ at[r] = "idle" /\ Room
  /\ r = Watch => watch = "watching"
  /\ r \in Retry => \E c \in Cards : card[c].state = "over" /\ "id" \in card[c].target
  /\ Enter(r, Facet, FALSE, "lidarr")

(* The tracklist and the hunt: nothing to do, nothing found, an outage or a  *)
(* throw; or a candidate to ask the addon for.                               *)
AcquireEnds(r) ==
  /\ r \in Acquire /\ at[r] \in {"lidarr", "search"}
  /\ \E outcome \in {"no-candidate", "slskd-unavailable"} \cup
                    (IF onDisk THEN {"already-complete"} ELSE {}) :
       GetAnswered(r, outcome)
  /\ UNCHANGED <<job, card, key, onDisk, lost, parted>>

AcquireGoesOn(r) ==
  /\ r \in Acquire
  /\ \/ at[r] = "lidarr" /\ ~onDisk /\ at' = [at EXCEPT ![r] = "search"]
     \/ at[r] = "search" /\ at' = [at EXCEPT ![r] = "create"]
  /\ UNCHANGED <<hold, replace, answer, job, card, key, onDisk, watch, lost, parted>>

HuntStarts(r) ==
  /\ r \in Hunt /\ at[r] = "idle" /\ Room
  /\ \E rep \in BOOLEAN : Enter(r, {"id"}, rep, "lidarr")

(* Lidarr names the album: guard and hold by name too.                       *)
HuntNamed_NoHold(r) ==
  /\ r \in Hunt /\ at[r] = "lidarr" /\ "name" \notin hold[r]
  /\ card' = IF replace[r] THEN Supersede({"name"}) ELSE card
  /\ IF ~replace[r] /\ (ActiveRows({"name"}) # {} \/ onDisk)
       THEN GetAnswered(r, "refused")
       ELSE /\ at' = [at EXCEPT ![r] = "create"]
            /\ hold' = [hold EXCEPT ![r] = Facet]
            /\ UNCHANGED <<replace, answer, watch>>
  /\ UNCHANGED <<job, key, onDisk, lost, parted>>
HuntNamed(r) ==
  /\ r \in Hunt /\ at[r] = "lidarr"
  /\ card' = IF replace[r] THEN Supersede({"name"}) ELSE card
  /\ IF \/ ~replace[r] /\ (ActiveRows({"name"}) # {} \/ onDisk)
        \/ Held(r, {"name"})
       THEN GetAnswered(r, "refused")
       ELSE /\ at' = [at EXCEPT ![r] = "create"]
            /\ hold' = [hold EXCEPT ![r] = Facet]
            /\ UNCHANGED <<replace, answer, watch>>
  /\ UNCHANGED <<job, key, onDisk, lost, parted>>

(* Lidarr does not answer: the download goes on without a name.              *)
HuntUnnamed(r) ==
  /\ r \in Hunt /\ at[r] = "lidarr"
  /\ at' = [at EXCEPT ![r] = "create"]
  /\ UNCHANGED <<hold, replace, answer, job, card, key, onDisk, watch, lost, parted>>

GrabStarts(r) ==
  /\ r \in Grab /\ at[r] = "idle" /\ Room
  /\ \E target \in GrabFacets, rep \in BOOLEAN : Enter(r, target, rep, "create")

(* The addon's createJob.  A key replays the job it minted; where that was   *)
(* cancelled, or is over and deleted, client.createJob asks again without    *)
(* the key.  An album job is refused while one of the same name is active.   *)
Keyed(r) == ~replace[r] /\ r \in Hunt \cup (Acquire \ Retry)
Replays(r) == Keyed(r) /\ key # 0 /\ job[key].state # "cancelled"
Dead(r) == Keyed(r) /\ key # 0 => job[key].state # "active"
SameAlbum(r) == {j \in Jobs : /\ job[j].state = "active" /\ Album(job[j].by)
                              /\ "name" \in job[j].target \cap hold[r]}
AddonCreates(r) ==
  /\ at[r] \in {"create", "recreate"}
  /\ at' = [at EXCEPT ![r] = IF at[r] = "create" THEN "answer" ELSE "reanswer"]
  /\ \/ /\ Replays(r)
        /\ answer' = [answer EXCEPT ![r] = key]
        /\ UNCHANGED <<job, key>>
     \/ /\ Dead(r) /\ Album(KindOf(r)) /\ SameAlbum(r) # {}
        /\ answer' = [answer EXCEPT ![r] = Conflict]
        /\ UNCHANGED <<job, key>>
     \/ /\ Dead(r) /\ ~(Album(KindOf(r)) /\ SameAlbum(r) # {}) /\ Len(job) < MaxJobs
        /\ job' = Append(job, [by |-> KindOf(r), target |-> hold[r], state |-> "active"])
        /\ answer' = [answer EXCEPT ![r] = Len(job')]
        /\ key' = IF Keyed(r) /\ key = 0 THEN Len(job') ELSE key
  /\ UNCHANGED <<hold, replace, card, onDisk, watch, lost, parted>>

Answering(r) == at[r] \in {"answer", "reanswer"}

(* The answer arrives: a card is inserted, then the hold released.           *)
Inserted(j, target) == Append(card, [of |-> j, target |-> target, state |-> "active"])
RowWritten(r) ==
  /\ Answering(r) /\ answer[r] \in Jobs
  /\ card' = Inserted(answer[r], hold[r])
  /\ GetAnswered(r, "enqueued")
  /\ UNCHANGED <<job, key, onDisk, lost, parted>>

(* A 409: in flight, or under replace the addon's job is to be cancelled.    *)
ConflictArrives(r) ==
  /\ Answering(r) /\ answer[r] = Conflict
  /\ IF replace[r] /\ at[r] = "answer"
       THEN /\ at' = [at EXCEPT ![r] = "cancel"]
            /\ answer' = [answer EXCEPT ![r] = 0]
            /\ UNCHANGED <<hold, replace, watch>>
       ELSE GetAnswered(r, "in-flight")
  /\ UNCHANGED <<job, card, key, onDisk, lost, parted>>

(* The re-hunt asks the addon to cancel its active job of that name, which   *)
(* may come to nothing, retires the album's cards and asks again.            *)
HuntReplaces(r) ==
  /\ at[r] = "cancel"
  /\ \/ UNCHANGED job
     \/ \E j \in SameAlbum(r) : job' = [job EXCEPT ![j].state = "cancelled"]
  /\ card' = Supersede(hold[r])
  /\ at' = [at EXCEPT ![r] = "recreate"]
  /\ UNCHANGED <<hold, replace, answer, key, onDisk, watch, lost, parted>>

(* The addon refuses or is down before it mints; its answer is lost, or the  *)
(* insert of the card fails, which is only logged.                           *)
CreateFails(r) ==
  /\ at[r] \in {"create", "cancel", "recreate"}
  /\ \E outcome \in {"enqueue-failed", "slskd-unavailable"} : GetAnswered(r, outcome)
  /\ UNCHANGED <<job, card, key, onDisk, lost, parted>>

AnswerLost(r) ==
  /\ Answering(r)
  /\ lost' = lost \cup ({answer[r]} \cap Jobs) /\ Cardinality(lost' \cup parted) <= MaxApart
  /\ \E outcome \in {"enqueued", "enqueue-failed", "slskd-unavailable"} : GetAnswered(r, outcome)
  /\ UNCHANGED <<job, card, key, onDisk, parted>>

---------------------------------------------------------------------------
(* The cards.  The poller inserts one, named from the addon's metadata, for  *)
(* an active job that none names, its answer lost or still on its way.       *)
CardsOf(j) == {c \in Cards : card[c].of = j}
PollerMints(j) ==
  /\ j \in Jobs /\ job[j].state = "active" /\ CardsOf(j) = {}
  /\ card' = Inserted(j, job[j].target \ {"id"})
  /\ UNCHANGED <<at, hold, replace, answer, job, key, onDisk, watch, lost, parted>>

JobEnds(j) ==
  /\ j \in Jobs /\ job[j].state = "active"
  /\ job' = [job EXCEPT ![j].state = "over"]
  /\ UNCHANGED <<at, hold, replace, answer, card, key, onDisk, watch, lost, parted>>

Parts(j) == parted' = parted \cup {j} /\ Cardinality(lost \cup parted') <= MaxApart
CardMoves(c, from, to) ==
  /\ c \in Cards /\ card[c].state = from
  /\ card' = [card EXCEPT ![c].state = to]
  /\ UNCHANGED <<at, hold, replace, answer, key, watch, lost>>

(* A card closes with its items: behind its job's end, or while the job runs *)
(* on, by the grace sweep of a cancel, the idle valve or its last file.      *)
CardCloses(c) ==
  /\ CardMoves(c, "active", "over")
  /\ IF job[card[c].of].state = "active" THEN Parts(card[c].of) ELSE UNCHANGED parted
  /\ onDisk' \in {onDisk, TRUE} /\ UNCHANGED job

(* recomputeStage: an item that moves again reopens a closed card.           *)
CardReopens(c) ==
  /\ CardMoves(c, "over", "active") /\ Parts(card[c].of)
  /\ UNCHANGED <<job, onDisk>>

(* removeJob, from the feed or at the end of a retry, and the user's cancel: *)
(* what they ask of the addon may come to nothing.                           *)
Cancelled(j) == [job EXCEPT ![j].state = IF @ = "active" THEN "cancelled" ELSE @]
CardRemoved(c) ==
  /\ c \in Cards /\ card[c].state # "gone"
  /\ card' = [card EXCEPT ![c].state = "gone", ![c].target = {}]
  /\ \/ job' = Cancelled(card[c].of) /\ UNCHANGED parted
     \/ UNCHANGED job /\ Parts(card[c].of)
  /\ UNCHANGED <<at, hold, replace, answer, key, onDisk, watch, lost>>

UserCancels(c) ==
  /\ c \in Cards /\ card[c].state = "active" /\ job[card[c].of].state = "active"
  /\ job' = Cancelled(card[c].of)
  /\ UNCHANGED <<at, hold, replace, answer, card, key, onDisk, watch, lost, parted>>

(* releaseRemovedJob: the card that the job's newest entry names is gone.    *)
PollerReleases(j) ==
  /\ j \in Jobs /\ job[j].state = "active"
  /\ \E c \in CardsOf(j) : card[c].state = "gone" /\ \A d \in CardsOf(j) : d <= c
  /\ job' = Cancelled(j)
  /\ UNCHANGED <<at, hold, replace, answer, card, key, onDisk, watch, lost, parted>>

(* WatchlistService.add re-arms a row.                                       *)
Rearm ==
  /\ watch # "watching" /\ at[Watch] = "idle"
  /\ watch' = "watching"
  /\ UNCHANGED <<at, hold, replace, answer, job, card, key, onDisk, lost, parted>>

GetNext ==
  \/ \E r \in Get :
       \/ AcquireStarts(r) \/ AcquireEnds(r) \/ AcquireGoesOn(r)
       \/ HuntStarts(r) \/ HuntNamed(r) \/ HuntUnnamed(r) \/ GrabStarts(r)
       \/ AddonCreates(r) \/ RowWritten(r) \/ ConflictArrives(r)
       \/ HuntReplaces(r) \/ CreateFails(r) \/ AnswerLost(r)
  \/ \E j \in Jobs : PollerMints(j) \/ JobEnds(j) \/ PollerReleases(j)
  \/ \E c \in Cards : CardCloses(c) \/ CardReopens(c) \/ CardRemoved(c) \/ UserCancels(c)
  \/ Rearm

GetSpec == GetInit /\ [][GetNext]_getVars

---------------------------------------------------------------------------
Waits == {"idle", "lidarr", "search", "create", "answer", "cancel", "recreate", "reanswer"}

(* The variables hold values of their types, and a request holds the album   *)
(* exactly while it is being served: no way out of a lane leaks its hold.    *)
GetTypeOK ==
  /\ at \in [Get -> Waits] /\ hold \in [Get -> SUBSET Facet]
  /\ replace \in [Get -> BOOLEAN] /\ answer \in [Get -> 0..Conflict]
  /\ job \in Seq([by : {"acquire", "hunt", "grab"}, target : SUBSET Facet,
                   state : {"active", "cancelled", "over"}])
  /\ card \in Seq([of : Jobs, target : SUBSET Facet,
                    state : {"active", "superseded", "over", "gone"}])
  /\ key \in 0..Len(job) /\ onDisk \in BOOLEAN
  /\ watch \in {"watching", "acquired", "failed"} /\ lost \subseteq Jobs /\ parted \subseteq Jobs
  /\ \A r \in Get : (hold[r] # {}) = (at[r] # "idle")

(* The feed never shows one album as two downloads: whatever lanes ask for   *)
(* it at the same time, the live cards of two jobs match neither by id nor   *)
(* by name, but for a job whose answer core did not get or whose card closed *)
(* or reopened on its own.                                                   *)
OneRow == \A c, d \in Cards :
  (card[c].of # card[d].of /\ card[c].state = "active" /\ card[d].state = "active")
    => \/ ~Match(card[c].target, card[d].target)
       \/ {card[c].of, card[d].of} \cap (lost \cup parted) # {}

(* The addon knows an album job by its name and a grab not at all: where one *)
(* of two jobs is a grab or has no name, core's card is the only guard; a    *)
(* lost answer leaves none, and a card that closed guards nothing.           *)
Unguarded(j, k) ==
  /\ {j, k} \cap (lost \cup parted) # {}
  /\ "grab" \in {job[j].by, job[k].by} \/ "name" \notin job[j].target \cap job[k].target

KnownAs(j) == job[j].target \cup UNION {card[c].target : c \in CardsOf(j)}

(* Nor is it fetched twice: of two jobs the addon runs for what core knows   *)
(* as one album one was retired by a replace, whatever is asked for at the   *)
(* same time, replayed, or asked for again after an answer was lost or a     *)
(* card closed.                                                              *)
OneDownload == \A j, k \in Jobs :
  (/\ j < k /\ job[j].state = "active" /\ job[k].state = "active"
   /\ Match(KnownAs(j), KnownAs(k)))
    => \/ \E c \in CardsOf(j) \cup CardsOf(k) : card[c].state = "superseded"
       \/ Unguarded(j, k)
====
