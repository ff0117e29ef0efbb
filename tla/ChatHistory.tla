---------------------------- MODULE ChatHistory -----------------------------
(***************************************************************************)
(* Conversations of a KakaoTalk channel (kakao_handlers.py,                *)
(* kakao_live_handlers.py, kakao_core.py, kakao_browser_chat.py,           *)
(* kakao_media.py, kakao_quota.py).  `chats pull` takes the threads from   *)
(* the server and adds what is new to chats.json, media files first;       *)
(* `chats reply` sends one approved message, then spends the approval,     *)
(* stores a copy of its own and counts one unit of the monthly quota.      *)
(*                                                                         *)
(* The commands are processes without a lock; any of them may be killed    *)
(* and the server may fail a reply, having sent it or not.  A contact is   *)
(* the name a chat is shown under, so chats may share one.  Within a month *)
(* and within the 100 messages a thread is asked for.                      *)
(***************************************************************************)
EXTENDS Naturals, FiniteSets

CONSTANTS
  Procs,
  Chats,       \* chat ids on the server
  Contacts,    \* names
  ChatsNamed,  \* the chats of each name, in the order of the chat list
  MaxMessages, \* bound on messages on the server
  Ceilings     \* quota ceilings of the calibration, 0 for none

VARIABLES
  server,   \* messages of all threads
  store,    \* chats.json, by contact
  media,    \* ids of the messages whose media files are there and whole
  spoilt,   \* history: of those whose file was opened again, and not refilled
  usage,    \* units of this month in quota.json
  approved, \* contacts a reply is approved for
  proc

vars == <<server, store, media, spoilt, usage, approved, proc>>

Idle == [cmd |-> "none"]
Start(p, command) == proc[p] = Idle /\ proc' = [proc EXCEPT ![p] = command]
Step(p, command) == proc' = [proc EXCEPT ![p] = command]
End(p) == Step(p, Idle)

Outbound(chat) == {m \in server : m.chat = chat /\ m.out}
ThreadOf(contact) == {ChatsNamed[contact][i] : i \in DOMAIN ChatsNamed[contact]}
NameOf(chat) == CHOOSE n \in Contacts : chat \in ThreadOf(n)

Init ==
  /\ server = {} /\ store = [n \in Contacts |-> {}]
  /\ media = {} /\ spoilt = {}
  /\ usage = 0 /\ approved = {} /\ proc = [p \in Procs |-> Idle]

Post(chat, out, withMedia) ==
  /\ Cardinality(server) < MaxMessages
  /\ server' = server \cup {[id |-> Cardinality(server), chat |-> chat, out |-> out, media |-> withMedia]}

\* A customer writes, with a picture perhaps.
CustomerWrites(chat, withMedia) ==
  /\ Post(chat, FALSE, withMedia)
  /\ UNCHANGED <<store, media, spoilt, usage, approved, proc>>

Grant(contact) ==
  /\ approved' = approved \cup {contact}
  /\ UNCHANGED <<server, store, media, spoilt, usage, proc>>

-----------------------------------------------------------------------------
(* chats pull *)

\* pull_threads: all threads and all media are downloaded first.
PullThreads(p) ==
  /\ server # {}
  /\ Start(p, [cmd |-> "pull", got |-> server, todo |-> Chats])
  /\ UNCHANGED <<server, store, media, spoilt, usage, approved>>

\* A message as it is stored: by its server id, or as the copy of a reply.
Stored(m, copy) == [id |-> m.id, copy |-> copy, out |-> m.out, ref |-> m.media]
IsNew(m, messages) == \A s \in messages : s.copy \/ s.id # m.id

\* A bug to be caught: the media are left for later.
LoadThreadOnly(p, chat) ==
  LET contact == NameOf(chat)
      new == {m \in proc[p].got : m.chat = chat /\ IsNew(m, store[contact])} IN
  /\ proc[p].cmd = "pull" /\ chat \in proc[p].todo
  /\ Step(p, [cmd |-> "ingest", got |-> proc[p].got, todo |-> proc[p].todo \ {chat},
              contact |-> contact, seen |-> store, files |-> {},
              new |-> {Stored(m, FALSE) : m \in new}])
  /\ UNCHANGED <<server, store, media, spoilt, usage, approved>>

\* ingest_chat_history: the store is read; the media of what it lacks of the
\* thread are to be written.
LoadThread(p, chat) ==
  LET contact == NameOf(chat)
      new == {m \in proc[p].got : m.chat = chat /\ IsNew(m, store[contact])} IN
  /\ proc[p].cmd = "pull" /\ chat \in proc[p].todo
  /\ Step(p, [cmd |-> "ingest", got |-> proc[p].got, todo |-> proc[p].todo \ {chat},
              contact |-> contact, seen |-> store,
              files |-> {m.id : m \in {n \in new : n.media}},
              new |-> {Stored(m, FALSE) : m \in new}])
  /\ UNCHANGED <<server, store, media, spoilt, usage, approved>>

\* store_inbound_media, in place: a pull may open what another has written.
OpenMedia(p, id) ==
  LET c == proc[p] IN
  /\ c.cmd = "ingest" /\ id \in c.files
  /\ media' = media \ {id}
  /\ spoilt' = spoilt \cup (media \cap {id})
  /\ Step(p, [cmd |-> "fill", got |-> c.got, todo |-> c.todo, contact |-> c.contact,
              seen |-> c.seen, files |-> c.files, new |-> c.new, id |-> id])
  /\ UNCHANGED <<server, store, usage, approved>>

FillMedia(p) ==
  LET c == proc[p] IN
  /\ c.cmd = "fill"
  /\ media' = media \cup {c.id}
  /\ spoilt' = spoilt \ {c.id}
  /\ Step(p, [cmd |-> "ingest", got |-> c.got, todo |-> c.todo, contact |-> c.contact,
              seen |-> c.seen, files |-> c.files \ {c.id}, new |-> c.new])
  /\ UNCHANGED <<server, store, usage, approved>>

SaveThread(p) ==
  LET c == proc[p] IN
  /\ c.cmd = "ingest" /\ c.files = {}
  /\ store' = [c.seen EXCEPT ![c.contact] = @ \cup c.new]
  /\ Step(p, IF c.todo = {} THEN Idle ELSE [cmd |-> "pull", got |-> c.got, todo |-> c.todo])
  /\ UNCHANGED <<server, media, spoilt, usage, approved>>

-----------------------------------------------------------------------------
(* chats reply *)

\* The gate found the approval; the server is still to be asked.
StartReply(p, contact) ==
  /\ contact \in approved
  /\ Start(p, [cmd |-> "send", contact |-> contact])
  /\ UNCHANGED <<server, store, media, spoilt, usage, approved>>

\* send_reply goes to the first chat of that name.  The answer may be lost.
SendReply(p, answered) ==
  LET c == proc[p] IN
  /\ c.cmd = "send"
  /\ Post(ChatsNamed[c.contact][1], TRUE, FALSE)
  /\ IF answered
     THEN Step(p, [cmd |-> "consume", contact |-> c.contact, id |-> Cardinality(server)])
     ELSE End(p)
  /\ UNCHANGED <<store, media, spoilt, usage, approved>>

ConsumeReply(p) ==
  LET c == proc[p] IN
  /\ c.cmd = "consume"
  /\ approved' = approved \ {c.contact}
  /\ Step(p, [cmd |-> "load", contact |-> c.contact, id |-> c.id])
  /\ UNCHANGED <<server, store, media, spoilt, usage>>

\* The reply is ingested under an id of its own, outbound-<now>.
LoadCopy(p) ==
  LET c == proc[p] IN
  /\ c.cmd = "load"
  /\ Step(p, [cmd |-> "copy", contact |-> c.contact, id |-> c.id, seen |-> store])
  /\ UNCHANGED <<server, store, media, spoilt, usage, approved>>

SaveCopy(p) ==
  LET c == proc[p] IN
  /\ c.cmd = "copy"
  /\ store' = [c.seen EXCEPT ![c.contact] =
                 @ \cup {[id |-> c.id, copy |-> TRUE, out |-> TRUE, ref |-> FALSE]}]
  /\ Step(p, [cmd |-> "count", seen |-> usage])
  /\ UNCHANGED <<server, media, spoilt, usage, approved>>

\* record_kakao_send_usage
SaveUsage(p) ==
  /\ proc[p].cmd = "count"
  /\ usage' = proc[p].seen + 1
  /\ End(p)
  /\ UNCHANGED <<server, store, media, spoilt, approved>>

\* Killed, or refused by the server, or not logged in.
Kill(p) ==
  /\ proc[p] # Idle
  /\ End(p)
  /\ UNCHANGED <<server, store, media, spoilt, usage, approved>>

Next ==
  \/ \E chat \in Chats :
       \/ \E withMedia \in BOOLEAN : CustomerWrites(chat, withMedia)
       \/ \E p \in Procs : LoadThread(p, chat)
  \/ \E p \in Procs, message \in server : OpenMedia(p, message.id)
  \/ \E contact \in Contacts :
       Grant(contact) \/ \E p \in Procs : StartReply(p, contact)
  \/ \E p \in Procs :
       \/ PullThreads(p) \/ FillMedia(p) \/ SaveThread(p)
       \/ \E answered \in BOOLEAN : SendReply(p, answered)
       \/ ConsumeReply(p) \/ LoadCopy(p) \/ SaveCopy(p) \/ SaveUsage(p) \/ Kill(p)

Spec == Init /\ [][Next]_vars

-----------------------------------------------------------------------------
(* What the commands show: kakao status and kakao summary.                 *)

QuotaState(sent, ceiling) ==
  CASE ceiling = 0             -> "unknown"
    [] sent > ceiling          -> "over_limit"
    [] sent * 3 >= ceiling * 2 -> "warning"
    [] OTHER                   -> "ok"

OutboundCount(contact) == Cardinality({s \in store[contact] : s.out})

(* The history and the quota only tell what happened, whatever overlaps,   *)
(* dies or goes unanswered: a reply of the history was sent to a chat of   *)
(* that name and counts at most twice, as the copy and as the server's     *)
(* message; a stored picture has its file whole, unless a pull that        *)
(* overlapped is writing it again or died at it; the quota is not said to  *)
(* be passed before that many replies were sent (ingest_chat_history,      *)
(* store_inbound_media, send_chat_reply, summarize_kakao_quota).           *)
HistoryIsBacked ==
  LET sent == UNION {Outbound(chat) : chat \in Chats} IN
  /\ \A n \in Contacts :
       /\ \A s \in store[n] : s.out =>
            \E chat \in ThreadOf(n) : \E m \in Outbound(chat) : m.id = s.id
       /\ OutboundCount(n) <= 2 * Cardinality({m \in sent : m.chat \in ThreadOf(n)})
       /\ \A s \in store[n] : s.ref => s.id \in media \cup spoilt
  /\ \A c \in Ceilings : QuotaState(usage, c) = "over_limit" => Cardinality(sent) > c
=============================================================================
