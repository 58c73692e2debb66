----------------------------- MODULE MCServices -----------------------------
(***************************************************************************)
(* Small instances of six components of the services that share nothing:   *)
(* the conversation store, the Groq key pool, the Spotify tokens, the      *)
(* identity tokens, the agent's memory and the platform monitor. They never*)
(* step together, so a behaviour is one component's: Init chooses it, and  *)
(* the variables of the others stay Off.                                   *)
(***************************************************************************)
EXTENDS Integers, FiniteSets, TLC

CONSTANTS
    Requests, Calls, Browsers, Chats,
    Conversations, Users, Nobody,
    None, Off,
    \* bounds, one of each per component
    SpotifyClock, AuthClock, MemoryClock, MonitorClock, SpotifyTokenBound, AuthTokenBound,
    KeyCounts, MaxChunks,
    Life, ExpiryBuffer, DefaultTtl, MaxDelay,
    RefreshLife, MaxStamps,
    Legacy, MaxMessages, CompactFrom, ReadLimit, WindowBudget, SummaryBudgets

\* The components' parameters: lives, limits and bounds are numbers, a
\* compaction needs messages and a window or a read holds some.
ASSUME ConstantsAssumption ==
    /\ KeyCounts \cup SummaryBudgets \subseteq Nat
    /\ {SpotifyClock, AuthClock, MemoryClock, MonitorClock, SpotifyTokenBound, AuthTokenBound, MaxChunks,
        Life, ExpiryBuffer, DefaultTtl, MaxDelay, RefreshLife, MaxStamps, Legacy, MaxMessages} \subseteq Nat
    /\ Nobody \notin Users
    /\ {CompactFrom, ReadLimit, WindowBudget} \subseteq Nat \ {0}
    /\ \A S \in {Requests, Calls, Browsers, Chats} : IsFiniteSet(S)

VARIABLES
    component, pc, doc, job,
    messages, known, raced, counted, firstUse, erased, renamed,      \* ConversationStore
    size, index, draws, attempt, chunks,                             \* GroqRotation
    store, rotates, issued, live, lost, disconnected,                \* SpotifyTokens
    user, cookie, generated, request, refused,                       \* AuthTokens
    created, stored, read, older, window, excused, mixed,            \* ContextMemory
    audits, disturbed,                                               \* PlatformMonitor
    clock                                                            \* the last four

storeVars == <<messages, known, raced, counted, firstUse, erased, renamed>>
groqVars == <<size, index, draws, attempt, chunks>>
spotifyVars == <<store, rotates, issued, live, lost, disconnected>>
authVars == <<user, cookie, generated, request, refused>>
memoryVars == <<created, stored, read, older, window, excused, mixed>>
monitorVars == <<audits, disturbed>>
vars == <<component, pc, doc, job, storeVars, groqVars, spotifyVars, authVars, memoryVars,
          monitorVars, clock>>

\* A conversation is new, or of an earlier schema, without a user.
Documents ==
    {[exists |-> exists, owner |-> Nobody, title |-> "default", count |-> 0] : exists \in BOOLEAN}

Store == INSTANCE ConversationStore WITH Requests <- Calls, InitialDocs <- Documents
Groq == INSTANCE GroqRotation
Spotify == INSTANCE SpotifyTokens WITH MaxClock <- SpotifyClock, MaxTokens <- SpotifyTokenBound
Auth == INSTANCE AuthTokens WITH MaxClock <- AuthClock, MaxTokens <- AuthTokenBound, NoToken <- None
Memory == INSTANCE ContextMemory WITH MaxClock <- MemoryClock
Monitor == INSTANCE PlatformMonitor WITH Requests <- Calls, MaxClock <- MonitorClock

\* None is no refresh token, no time and no status.
ASSUME NoneAssumption ==
    None \notin Auth!Token /\ None \notin 0..MonitorClock /\ None \notin Monitor!Status

NoStore ==
    /\ messages = Off /\ known = Off /\ raced = Off /\ counted = Off /\ firstUse = Off
    /\ erased = Off /\ renamed = Off

NoGroq ==
    /\ size = Off /\ index = Off /\ draws = Off /\ attempt = Off /\ chunks = Off

NoSpotify ==
    /\ store = Off /\ rotates = Off /\ issued = Off /\ live = Off
    /\ lost = Off /\ disconnected = Off

NoAuth ==
    /\ user = Off /\ cookie = Off /\ generated = Off /\ request = Off /\ refused = Off

NoMemory ==
    /\ created = Off /\ stored = Off /\ read = Off /\ older = Off
    /\ window = Off /\ excused = Off /\ mixed = Off

NoMonitor == audits = Off /\ disturbed = Off

Init ==
    \/ /\ component = "store" /\ Store!Init /\ clock = Off
       /\ NoGroq /\ NoSpotify /\ NoAuth /\ NoMemory /\ NoMonitor
    \/ /\ component = "groq" /\ Groq!Init /\ clock = Off /\ doc = Off /\ job = Off
       /\ NoStore /\ NoSpotify /\ NoAuth /\ NoMemory /\ NoMonitor
    \/ /\ component = "spotify" /\ Spotify!Init /\ doc = Off
       /\ NoStore /\ NoGroq /\ NoAuth /\ NoMemory /\ NoMonitor
    \/ /\ component = "auth" /\ Auth!Init /\ doc = Off /\ job = Off
       /\ NoStore /\ NoGroq /\ NoSpotify /\ NoMemory /\ NoMonitor
    \/ /\ component = "memory" /\ Memory!Init /\ job = Off
       /\ NoStore /\ NoGroq /\ NoSpotify /\ NoAuth /\ NoMonitor
    \/ /\ component = "monitor" /\ Monitor!Init
       /\ NoStore /\ NoGroq /\ NoSpotify /\ NoAuth /\ NoMemory

Next ==
    /\ UNCHANGED component
    /\ \/ /\ component = "store"
          /\ Store!Next
          /\ UNCHANGED <<clock, groqVars, spotifyVars, authVars, memoryVars, monitorVars>>
       \/ /\ component = "groq"
          /\ Groq!Next
          /\ UNCHANGED <<clock, doc, job, storeVars, spotifyVars, authVars, memoryVars, monitorVars>>
       \/ /\ component = "spotify"
          /\ Spotify!Next
          /\ UNCHANGED <<doc, storeVars, groqVars, authVars, memoryVars, monitorVars>>
       \/ /\ component = "auth"
          /\ Auth!Next
          /\ UNCHANGED <<doc, job, storeVars, groqVars, spotifyVars, memoryVars, monitorVars>>
       \/ /\ component = "memory"
          /\ Memory!Next
          /\ UNCHANGED <<job, storeVars, groqVars, spotifyVars, authVars, monitorVars>>
       \/ /\ component = "monitor"
          /\ Monitor!Next
          /\ UNCHANGED <<storeVars, groqVars, spotifyVars, authVars, memoryVars>>

Spec == Init /\ [][Next]_vars

Symmetry == Permutations(Requests) \cup Permutations(Calls) \cup Permutations(Users)

-----------------------------------------------------------------------------
(* The properties of the component that runs                               *)

\* A conversation's document agrees with the messages stored, however prompts,
\* replies and deletions overlap.
CountsAndDeletionsHold == component = "store" => Store!CountsAndDeletionsHold

\* Replies have their prompts, chosen titles stay, and nobody else's message gets
\* into a conversation that has a user.
HistoryHolds == component = "store" => Store!HistoryHolds

\* A request uses up the pool of keys before it tries one again or gives up.
RotationIsFair == component = "groq" => Groq!RotationIsFair

\* The stored refresh token of an account works, or its replacement is about to
\* be saved or was lost with the call that was to save it.
AccountStaysUsable == component = "spotify" => Spotify!AccountStaysUsable

\* An access token taken from the store without a refresh is one Spotify accepts.
CachedTokenIsValid == [][component = "spotify" => Spotify!HandsOutValidToken]_vars

\* Logging in or refreshing in one browser never invalidates the session of
\* another.
SessionsHold == component = "auth" => Auth!SessionsHold

\* However compactions of a conversation overlap, a message is told by the summary
\* or still kept, no chat's history has one twice or leaves out one between those it
\* has, and what is lost was lost where the code can lose it.
MemoryIsAccountedFor == component = "memory" => Memory!MemoryIsAccountedFor

\* However recordings of the platform's own activity overlap and fail, the status
\* counts no request that was not recorded, and it is exact when none overlap.
StatusIsTrue == component = "monitor" => Monitor!StatusIsTrue

=============================================================================
