-------------------------- MODULE ClipboardService --------------------------
(***************************************************************************)
(* The clipboard service of the controlled side: the thread made by        *)
(* ServiceTmpl::repeat (src/src/server/service.rs) around the callback of  *)
(* src/src/server/clipboard_service.rs, the subscription table of Service, *)
(* and the connections that set the clipboard themselves                   *)
(* (update_clipboard in src/src/common.rs).                                *)
(*                                                                         *)
(* CONTENT is the text the program believes is on the clipboard.  The      *)
(* thread, the connections and the local user race on it and on the        *)
(* clipboard of the operating system.                                      *)
(***************************************************************************)
EXTENDS Service

CONSTANTS
    Texts,       \* clipboard texts
    Oversize,    \* those of 2,000,000 bytes and more, which are not sent
    Empty,       \* the empty text
    MaxEdits     \* bound: how often users set the clipboard

ASSUME TextsAssumption == Empty \notin Texts /\ Oversize \subseteq Texts
ASSUME MaxEditsAssumption == MaxEdits \in Nat
(* clipboard_service::new asks for snapshots. *)
ASSUME ClipboardNeedsSnapshot == NeedSnapshot = TRUE

VARIABLES
    os,          \* the operating system's clipboard
    CONTENT,     \* the static CONTENT of common.rs
    clip_pc,          \* where the thread is
    text,        \* its local: the text read from the clipboard or CONTENT
    may_reset,   \* its local
    setting,     \* per connection: the text update_clipboard is yet to set
    edits,       \* number of edits so far
    sent,        \* history: the last text sent to each connection
    gap,         \* history: joined after the snapshot was sent, got nothing
    origin       \* history: whether the host or a peer wrote CONTENT last

threadVars == <<clip_pc, text, may_reset>>
clipVars == <<os, CONTENT, setting, edits, origin>>
clipboardVars == <<vars, threadVars, clipVars, sent, gap>>

Content == Texts \cup {Empty}

ClipThreadSteps ==
    {"top", "has", "get", "cmp", "set", "send", "snap", "clone", "send_new", "swap", "exit"}

ClipboardTypeOK ==
    /\ TypeOK
    /\ os \in Content
    /\ CONTENT \in Content
    /\ clip_pc \in ClipThreadSteps
    /\ text \in Content
    /\ may_reset \in BOOLEAN
    /\ setting \in [Conns -> Content]
    /\ edits \in 0..MaxEdits
    /\ sent \in [Conns -> Content]
    /\ gap \subseteq Conns
    /\ origin \in {"host", "peer"}

ClipboardInit ==
    /\ Init
    /\ os \in Content
    /\ CONTENT = Empty
    /\ clip_pc = "top"
    /\ text = Empty
    /\ may_reset = FALSE
    /\ setting = [c \in Conns |-> Empty]
    /\ edits = 0
    /\ sent = [c \in Conns |-> Empty]
    /\ gap = {}
    /\ origin = "host"

-----------------------------------------------------------------------------
(* The thread.                                                             *)

Deliver(cs, t) ==
    /\ sent' = [c \in Conns |-> IF c \in cs THEN t ELSE sent[c]]
    /\ gap' = gap \ cs

ClipGoto(from, to) == clip_pc = from /\ clip_pc' = to

repeat_top_for_ever ==
    /\ ClipGoto("top", "has")
    /\ UNCHANGED <<vars, text, may_reset, clipVars, sent, gap>>

(* while sp.active() *)
repeat_top ==
    /\ clip_pc = "top"
    /\ clip_pc' = IF active THEN "has" ELSE "exit"
    /\ UNCHANGED <<vars, text, may_reset, clipVars, sent, gap>>

repeat_without_reset ==
    /\ clip_pc = "has"
    /\ IF Subscribed # {}
       THEN clip_pc' = "get" /\ UNCHANGED may_reset
       ELSE clip_pc' = "top" /\ may_reset' = FALSE
    /\ UNCHANGED <<vars, text, clipVars, sent, gap>>

(* A round with subscribers runs the callback; the first round without     *)
(* them after that resets the state, which forgets CONTENT.                *)
repeat_has_subscribes ==
    /\ clip_pc = "has"
    /\ IF Subscribed # {}
       THEN /\ clip_pc' = "get"
            /\ UNCHANGED <<CONTENT, may_reset, origin>>
       ELSE /\ clip_pc' = "top"
            /\ may_reset' = FALSE
            /\ IF may_reset
               THEN CONTENT' = Empty /\ origin' = "host"
               ELSE UNCHANGED <<CONTENT, origin>>
    /\ UNCHANGED <<vars, text, os, setting, edits, sent, gap>>

(* check_clipboard reads the clipboard ... *)
check_get_text ==
    /\ ClipGoto("get", "cmp")
    /\ text' = os
    /\ UNCHANGED <<vars, may_reset, clipVars, sent, gap>>

(* ... and gives up when there is no context or the read fails. *)
check_get_text_fails ==
    /\ ClipGoto("get", "snap")
    /\ UNCHANGED <<vars, text, may_reset, clipVars, sent, gap>>

(* ... compares it with CONTENT under CONTENT's lock ... *)
check_compare ==
    /\ clip_pc = "cmp"
    /\ clip_pc' = IF text \notin Oversize \cup {Empty, CONTENT}
             THEN "set" ELSE "snap"
    /\ UNCHANGED <<vars, text, may_reset, clipVars, sent, gap>>

check_set_without_store ==
    /\ ClipGoto("set", "send")
    /\ origin' = "host"
    /\ UNCHANGED <<vars, text, may_reset, os, CONTENT, setting, edits, sent, gap>>

(* ... and stores it under the same lock, taken again. *)
check_set ==
    /\ ClipGoto("set", "send")
    /\ CONTENT' = text
    /\ origin' = "host"
    /\ UNCHANGED <<vars, text, may_reset, os, setting, edits, sent, gap>>

run_send_new_only ==
    /\ ClipGoto("send", "snap")
    /\ Deliver(new_subscribes, text)
    /\ UNCHANGED <<vars, text, may_reset, clipVars>>

(* sp.send: the subscribers, not the new ones. *)
run_send ==
    /\ ClipGoto("send", "snap")
    /\ Deliver(subscribes, text)
    /\ UNCHANGED <<vars, text, may_reset, clipVars>>

(* sp.snapshot runs its callback when there are new subscribers. *)
run_snapshot ==
    /\ clip_pc = "snap"
    /\ IF new_subscribes # {}
       THEN clip_pc' = "clone" /\ UNCHANGED may_reset
       ELSE clip_pc' = "top" /\ may_reset' = TRUE
    /\ UNCHANGED <<vars, text, clipVars, sent, gap>>

snapshot_clone ==
    /\ ClipGoto("clone", "send_new")
    /\ text' = CONTENT
    /\ UNCHANGED <<vars, may_reset, clipVars, sent, gap>>

(* sps.send_shared: those that are new by now; nothing when it is empty. *)
snapshot_send ==
    /\ ClipGoto("send_new", "swap")
    /\ IF text # Empty
       THEN Deliver(new_subscribes, text)
       ELSE UNCHANGED <<sent, gap>>
    /\ UNCHANGED <<vars, text, may_reset, clipVars>>

(* The ServiceSwap is dropped. *)
clipboard_snapshot_swap ==
    /\ ClipGoto("swap", "top")
    /\ may_reset' = TRUE
    /\ ThreadSwap
    /\ UNCHANGED <<text, clipVars, sent, gap>>

ClipThreadStep ==
    \/ repeat_top \/ repeat_has_subscribes
    \/ check_get_text \/ check_get_text_fails
    \/ check_compare \/ check_set
    \/ run_send \/ run_snapshot
    \/ snapshot_clone \/ snapshot_send \/ clipboard_snapshot_swap

-----------------------------------------------------------------------------
(* The others.                                                             *)

(* The local user copies something. *)
LocalCopy(t) ==
    /\ edits < MaxEdits
    /\ os # t
    /\ os' = t
    /\ edits' = edits + 1
    /\ UNCHANGED <<vars, threadVars, CONTENT, setting, origin, sent, gap>>

(* update_clipboard for a text from c's peer: first CONTENT ... *)
update_content(c, t) ==
    /\ c \in connections
    /\ setting[c] = Empty
    /\ edits < MaxEdits
    /\ edits' = edits + 1
    /\ CONTENT' = t
    /\ origin' = "peer"
    /\ setting' = [setting EXCEPT ![c] = t]
    /\ UNCHANGED <<vars, threadVars, os, sent, gap>>

(* ... then the system's clipboard, which may refuse (allow_err). *)
update_set_text(c) ==
    /\ setting[c] # Empty
    /\ os' \in {os, setting[c]}
    /\ setting' = [setting EXCEPT ![c] = Empty]
    /\ UNCHANGED <<vars, threadVars, CONTENT, edits, origin, sent, gap>>

(* A connection that joins after send_new_subscribes and before the swap   *)
(* is moved over without having been sent anything.                        *)
ServerOp ==
    /\ ServerStep
    /\ gap' = IF clip_pc = "swap"
              THEN gap \cup (new_subscribes' \ new_subscribes)
              ELSE gap
    /\ UNCHANGED <<threadVars, clipVars, sent>>

ClipboardNext ==
    \/ ClipThreadStep
    \/ \E t \in Texts : LocalCopy(t)
    \/ \E c \in Conns, t \in Texts : update_content(c, t)
    \/ \E c \in Conns : update_set_text(c)
    \/ ServerOp

(* The thread and the calls under way are scheduled by the operating       *)
(* system and tokio, and reading the clipboard does not fail every time;   *)
(* nobody is obliged to copy, join or leave.                               *)
ClipboardFairness ==
    /\ WF_clipboardVars(ClipThreadStep)
    /\ SF_clipboardVars(check_get_text)
    /\ WF_clipboardVars(is_subed_second_read /\ ServerOp)
    /\ WF_clipboardVars(subscribe_apply /\ ServerOp)
    /\ \A c \in Conns : WF_clipboardVars(update_set_text(c))

ClipboardSpec ==
    ClipboardInit /\ [][ClipboardNext]_clipboardVars /\ ClipboardFairness

-----------------------------------------------------------------------------
(* When a round is over, every subscriber has been sent the text the host  *)
(* put in CONTENT: by sp.send when it was already subscribed, by the       *)
(* snapshot when it was new.  The exceptions are the connections that      *)
(* joined between the snapshot's send and its swap.                        *)
SubscribersAreCurrent ==
    (clip_pc = "top" /\ origin = "host" /\ CONTENT # Empty) =>
        \A c \in subscribes \ gap : sent[c] = CONTENT

(* The inductive invariant behind it: what the host put in CONTENT is what *)
(* the thread holds while it sends it, and the subscribers, and after the  *)
(* snapshot's send the new ones too, have it.                              *)
Have(cs) == \A c \in cs \ gap : sent[c] = CONTENT

ClipboardInv ==
    /\ ClipboardTypeOK
    /\ ServiceInv
    /\ (origin = "host" /\ CONTENT # Empty) =>
          /\ clip_pc \in {"send", "send_new"} => text = CONTENT
          /\ clip_pc # "send" => Have(subscribes)
          /\ clip_pc = "swap" => Have(new_subscribes)

(* No snapshot of an earlier session: once the last subscriber has left    *)
(* and the thread has noticed, CONTENT is forgotten.  A text found there   *)
(* with may_reset clear was set by a peer.                                 *)
ForgottenWhenUnused ==
    (clip_pc \in {"top", "has"} /\ ~may_reset /\ origin = "host") => CONTENT = Empty

(* Once the users stop copying, whatever the thread and the connections    *)
(* were in the middle of, the program's idea of the clipboard becomes the  *)
(* clipboard's text, and a connection that stays subscribed has been sent  *)
(* it unless a peer set it or the connection joined in the gap.            *)
Settled(c) ==
    \/ os \in Oversize \cup {Empty}
    \/ /\ CONTENT = os
       /\ c \in gap \/ origin = "peer" \/ sent[c] = os

ClipboardSettles ==
    \A c \in Conns : <>[](active /\ c \in subscribes) => <>[]Settled(c)

(* Shutting down the Server ends the thread. *)
JoinEndsThread == ~active ~> clip_pc = "exit"
=============================================================================
