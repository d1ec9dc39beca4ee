------------------------------ MODULE AiChats ------------------------------
(***************************************************************************)
(* The local AI of the gateway (ai/ai.js): places for answers, the model   *)
(* download and the regular question whether the AI server is there.       *)
(* An action is the code between two awaits.  The AI server is external:   *)
(* a request to it ends, well or badly, and at once when it is aborted.    *)
(***************************************************************************)
EXTENDS Naturals, Sequences, FiniteSets

CONSTANTS
    Chats,        \* answers the server asks for
    MaxActive,    \* MAX_ACTIVE
    MaxWaiting,   \* MAX_WAITING
    MaxSettings,  \* bound: changes of the settings
    MaxPulls      \* bound: downloads and removals of models

VARIABLES
    source,     \* cfg: off, service or lan
    active,     \* this.active
    waiting,    \* this.waiting
    chat,       \* chat -> new, waiting, running, aborted, ended
    pull,       \* pullState: none, pulling, aborted, listing, done, cancelled, error
    reachable,  \* this.reachable
    ticking,    \* tick -> idle, asked (a removal comes first), or the backend it took
    aiUsed

aivars == <<source, active, waiting, chat, pull, reachable, ticking, aiUsed>>

\* the tick of the loop, and those after a download and a removal
Ticks == {"loop", "pull", "remove"}

Init ==
    /\ source = "off" /\ active = 0 /\ waiting = <<>> /\ pull = "none" /\ reachable = "no"
    /\ chat = [c \in Chats |-> "new"] /\ ticking = [t \in Ticks |-> "idle"]
    /\ aiUsed = [settings |-> 0, pulls |-> 0]

Running == {c \in Chats : chat[c] \in {"running", "aborted"}}

\* chat and _slot: a place, a place in the queue, or busy
startChat(c) ==
    /\ chat[c] = "new" /\ source # "off"
    /\ \/ /\ active < MaxActive /\ active' = active + 1
          /\ chat' = [chat EXCEPT ![c] = "running"] /\ UNCHANGED waiting
       \/ /\ active >= MaxActive /\ Len(waiting) >= MaxWaiting
          /\ chat' = [chat EXCEPT ![c] = "ended"] /\ UNCHANGED <<active, waiting>>
       \/ /\ active >= MaxActive /\ Len(waiting) < MaxWaiting
          /\ waiting' = Append(waiting, c) /\ chat' = [chat EXCEPT ![c] = "waiting"]
          /\ UNCHANGED active
    /\ UNCHANGED <<source, pull, reachable, ticking, aiUsed>>

\* mutant: the place is given back although it was passed on
releaseTwice(c) ==
    /\ active' = active - 1
    /\ \/ /\ waiting # <<>> /\ waiting' = Tail(waiting)
          /\ chat' = [chat EXCEPT ![c] = "ended", ![Head(waiting)] = "running"]
       \/ /\ waiting = <<>> /\ UNCHANGED waiting /\ chat' = [chat EXCEPT ![c] = "ended"]

\* _release: the place passes to the first who waits
release(c) ==
    \/ /\ waiting # <<>> /\ waiting' = Tail(waiting) /\ UNCHANGED active
       /\ chat' = [chat EXCEPT ![c] = "ended", ![Head(waiting)] = "running"]
    \/ /\ waiting = <<>> /\ active' = active - 1 /\ UNCHANGED waiting
       /\ chat' = [chat EXCEPT ![c] = "ended"]

\* b.chat ends: an answer, an error, a timeout or the abort
endChat(c) ==
    /\ c \in Running /\ release(c)
    /\ UNCHANGED <<source, pull, reachable, ticking, aiUsed>>

\* the server closes the stream: a waiting chat leaves the queue
clientCloses(c) ==
    /\ \/ /\ chat[c] = "waiting" /\ chat' = [chat EXCEPT ![c] = "ended"]
          /\ \E k \in 1..Len(waiting) :
                /\ waiting[k] = c
                /\ waiting' = SubSeq(waiting, 1, k - 1) \o SubSeq(waiting, k + 1, Len(waiting))
       \/ chat[c] = "running" /\ chat' = [chat EXCEPT ![c] = "aborted"] /\ UNCHANGED waiting
    /\ UNCHANGED <<source, active, pull, reachable, ticking, aiUsed>>

\* cancelPull has no effect once the download is complete
cancelPull == pull' = IF pull = "pulling" THEN "aborted" ELSE pull

abortRunning == chat' = [c \in Chats |-> IF c \in Running THEN "aborted" ELSE chat[c]]

\* apply with changed settings; chats that wait keep waiting
apply(s) ==
    /\ s # source /\ source' = s
    /\ aiUsed.settings < MaxSettings /\ aiUsed' = [aiUsed EXCEPT !.settings = @ + 1]
    /\ IF s = "service" THEN UNCHANGED pull ELSE cancelPull
    /\ IF s = "off" THEN abortRunning ELSE UNCHANGED chat
    /\ reachable' = "no" /\ UNCHANGED <<active, waiting, ticking>>

requestPull ==
    /\ source = "service" /\ pull \notin {"pulling", "aborted", "listing"} /\ reachable = "yes"
    /\ aiUsed.pulls < MaxPulls /\ aiUsed' = [aiUsed EXCEPT !.pulls = @ + 1]
    /\ pull' = "pulling" /\ UNCHANGED <<source, active, waiting, chat, reachable, ticking>>

requestCancel ==
    /\ pull = "pulling" /\ cancelPull
    /\ UNCHANGED <<source, active, waiting, chat, reachable, ticking, aiUsed>>

\* tick up to the question: the backend is taken before it
tick(t) ==
    /\ ticking[t] \in {"idle", "asked"}
    /\ ticking' = [ticking EXCEPT ![t] = IF source = "off" THEN "idle" ELSE source]
    /\ reachable' = IF source = "off" THEN "no" ELSE reachable

loopTick == tick("loop") /\ UNCHANGED <<source, active, waiting, chat, pull, aiUsed>>

\* the AI server answers the tick, or does not
ticked(t) ==
    /\ ticking[t] \in {"service", "lan"} /\ ticking' = [ticking EXCEPT ![t] = "idle"]
    /\ reachable' \in {"yes", "no"}

loopTicked == ticked("loop") /\ UNCHANGED <<source, active, waiting, chat, pull, aiUsed>>

\* removeModel: the AI server is asked, then a tick, or an error
removeModel ==
    /\ source = "service" /\ reachable = "yes" /\ ticking["remove"] = "idle"
    /\ aiUsed.pulls < MaxPulls /\ aiUsed' = [aiUsed EXCEPT !.pulls = @ + 1]
    /\ ticking' = [ticking EXCEPT !["remove"] = "asked"]
    /\ UNCHANGED <<source, active, waiting, chat, pull, reachable>>

RemoveStep ==
    /\ \/ ticking["remove"] = "asked" /\ tick("remove")
       \/ /\ ticking["remove"] = "asked" /\ UNCHANGED reachable
          /\ ticking' = [ticking EXCEPT !["remove"] = "idle"]
       \/ ticked("remove")
    /\ UNCHANGED <<source, active, waiting, chat, pull, aiUsed>>

\* the download ends: first the list of models, then done
pullEnds ==
    \/ /\ pull \in {"pulling", "aborted"} /\ tick("pull")
       /\ pull' = IF source = "off" THEN "done" ELSE "listing"
    \/ pull = "pulling" /\ pull' = "error" /\ UNCHANGED <<reachable, ticking>>
    \/ pull = "aborted" /\ pull' = "cancelled" /\ UNCHANGED <<reachable, ticking>>

PullStep ==
    /\ \/ pullEnds
       \/ pull = "listing" /\ ticked("pull") /\ pull' = "done"
    /\ UNCHANGED <<source, active, waiting, chat, aiUsed>>

Next ==
    \/ \E c \in Chats : startChat(c) \/ endChat(c) \/ clientCloses(c)
    \/ \E s \in {"off", "service", "lan"} : apply(s)
    \/ requestPull \/ requestCancel \/ PullStep \/ removeModel \/ RemoveStep
    \/ loopTick \/ loopTicked

-----------------------------------------------------------------------------
(* Type invariant of the AI service. *)
TypeOK ==
    /\ source \in {"off", "service", "lan"} /\ reachable \in {"yes", "no"}
    /\ active \in Nat /\ waiting \in Seq(Chats)
    /\ chat \in [Chats -> {"new", "waiting", "running", "aborted", "ended"}]
    /\ pull \in {"none", "pulling", "aborted", "listing", "done", "cancelled", "error"}
    /\ ticking \in [Ticks -> {"idle", "asked", "service", "lan"}]

(* docs/local-ai.md: at most one answer at a time, two more wait.  active  *)
(* counts exactly the chats that run, the queue holds exactly those that   *)
(* wait, each once, and nobody waits while a place is free.                *)
SlotsAccounted ==
    /\ active = Cardinality(Running) /\ active <= MaxActive /\ Len(waiting) <= MaxWaiting
    /\ Len(waiting) = Cardinality({c \in Chats : chat[c] = "waiting"})
    /\ \A c \in Chats : (chat[c] = "waiting") <=> \E k \in 1..Len(waiting) : waiting[k] = c
    /\ waiting # <<>> => active = MaxActive

(* A chat that waits gets its place or leaves the queue.                   *)
ChatsEnd == <>[](\A c \in Chats : chat[c] # "waiting")

(* A download ends: done, cancelled or with an error, its tick over too    *)
(* (as MaxPulls bounds the downloads, in the end none is under way).       *)
PullEnds == <>[](pull \in {"none", "done", "cancelled", "error"})

(* The answer of a tick that was under way when the AI was switched off    *)
(* does not stay: in the end a disabled AI is not reported as reachable.   *)
OffIsUnreachable == <>[](source = "off" => reachable = "no")
=============================================================================
