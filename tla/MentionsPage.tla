---------------------------- MODULE MentionsPage ----------------------------
(***************************************************************************)
(* The mentions of a user (MyMentionsView.vue, mentions/current.ts) and    *)
(* what becomes of them on the server (mention-workflow.service.ts): each  *)
(* is open or done, until a later Meeting replaces it; it can be resolved  *)
(* with a comment, which is an update of its Topic.                        *)
(*                                                                         *)
(* A comment is sealed once and gets its identity then.  It is sent again  *)
(* as it is when its answer was lost, so that it is stored once.  Other    *)
(* tabs of the user change the same mentions.                              *)
(***************************************************************************)
EXTENDS ProtectedText

CONSTANTS Mentions,  \* of the user, captured in completed Meetings
          Comments   \* identities of updates

VARIABLES captured,  \* mention_states, with what decides whether one is current
          comments,  \* updates stored to resolve a mention, with their receipts
          identities \* history: those that were drawn

mentionVars == <<captured, comments, identities>>
-----------------------------------------------------------------------------
MentionsInit ==
    /\ captured = [m \in Mentions |-> [current |-> TRUE, done |-> FALSE,
                                       reopened |-> 0]]  \* history: how often
    /\ comments = {}
    /\ identities = {}

OnMentions == route = "mentions" /\ screen.mounted

NoDialog(p) == [p EXCEPT !.screen.selected = Nothing, !.screen.operation = Nothing]

\* A list that is asked for: on its own, or after a change that was refused.
LoadMentions(p, after) ==
    WithCall([p EXCEPT !.screen.loading = TRUE, !.screen.error = FALSE],
             [Task("mentions", "asked") EXCEPT !.got = [after |-> after]])

VisitMentions ==
    /\ route = "elsewhere" /\ text.user /\ UserCanAct
    /\ Spend("mentions")
    /\ Become(Entered(Page, "mentions"))
    /\ UNCHANGED <<mentionVars, server>>

LeaveMentions ==
    /\ route = "mentions"
    /\ Spend("leave")
    /\ Become(Left(Page))
    /\ UNCHANGED <<mentionVars, server>>

MentionsMounted ==
    /\ route = "mentions" /\ ~screen.mounted
    /\ LET p == [Page EXCEPT !.screen =
                    [mounted |-> TRUE, rows |-> [m \in Mentions |-> "none"], loading |-> FALSE,
                     error |-> FALSE, pending |-> {}, selected |-> Nothing,
                     operation |-> Nothing, failed |-> FALSE]]
       IN Become(IF text.status = "unlocked" THEN LoadMentions(p, Nothing) ELSE p)
    /\ UNCHANGED <<mentionVars, server, left>>
-----------------------------------------------------------------------------
(* The list *)

\* Mentions that a later Meeting replaced are not listed.
Listing ==
    [m \in Mentions |-> IF ~captured[m].current THEN "none"
                        ELSE IF captured[m].done THEN "done" ELSE "open"]

Denies(p, c) ==
    IF c.here /\ text.status = "unlocked" THEN PerformLock(p, "authorization-loss") ELSE p

MentionsServed(c) ==
    /\ IsTask(c, "mentions", "asked")
    /\ Become(IF server.admits
              THEN Onward(Page, c, "read", [after |-> c.got.after, rows |-> Listing])
              ELSE Denies(WithoutCall(Page, c), c))
    /\ UNCHANGED <<mentionVars, server, left>>

LoadOver(p, c) ==
    [p EXCEPT !.screen.loading = FALSE, !.screen.pending = @ \ {c.got.after}]

\* The rows are decrypted; the view may be gone by then.
MentionsShown(c) ==
    /\ IsTask(c, "mentions", "read")
    /\ LET p == WithoutCall(Page, c)
       IN Become(IF c.here THEN LoadOver([p EXCEPT !.screen.rows = c.got.rows], c) ELSE p)
    /\ UNCHANGED <<mentionVars, server, left>>

MentionsFail(c) ==
    /\ IsTask(c, "mentions", "asked") /\ c.here
    /\ Spend("fault")
    /\ Become(LoadOver([WithoutCall(Page, c) EXCEPT !.screen.error = TRUE], c))
    /\ UNCHANGED <<mentionVars, server>>

RetryLoad ==
    /\ OnMentions /\ screen.error /\ text.status = "unlocked" /\ screen.selected = Nothing
    /\ Spend("retry")
    /\ Become(LoadMentions(Page, Nothing))
    /\ UNCHANGED <<mentionVars, server>>
-----------------------------------------------------------------------------
(* Changes *)

Free(m) == OnMentions /\ text.status = "unlocked" /\ m \notin screen.pending

\* The comment is written while nothing else can be done in the tab.
OpenComment(m) ==
    /\ Free(m) /\ text.manages /\ UserCanAct
    /\ screen.rows[m] = "open" /\ screen.selected = Nothing
    /\ Spend("edit")
    /\ Become([Page EXCEPT !.screen.selected = m, !.screen.operation = Nothing,
                           !.screen.failed = FALSE])
    /\ UNCHANGED <<mentionVars, server>>

CloseComment ==
    /\ OnMentions /\ screen.selected # Nothing /\ Free(screen.selected)
    /\ Become(NoDialog(Page))
    /\ UNCHANGED <<mentionVars, server, left>>

\* A change of one mention: without a comment, with one that has to be sealed
\* first, or with one that was.
StateChange(p, m, done, stage, comment) ==
    WithCall([p EXCEPT !.screen.pending = @ \cup {m}, !.screen.failed = FALSE],
             [Task("state", stage) EXCEPT
                 !.got = [mention |-> m, done |-> done, comment |-> comment,
                          answer |-> "none"]])

ChangeState(m) ==
    /\ Free(m) /\ screen.rows[m] # "none" /\ screen.selected = Nothing /\ UserCanAct
    /\ Spend("change")
    /\ Become(StateChange(Page, m, screen.rows[m] = "open", "asked", Nothing))
    /\ UNCHANGED <<mentionVars, server>>

SubmitComment ==
    /\ OnMentions /\ screen.selected # Nothing /\ Free(screen.selected) /\ UserCanAct
    /\ Spend("save")
    /\ Become(StateChange(Page, screen.selected, TRUE,
                          IF screen.operation = Nothing THEN "sealing" ELSE "asked",
                          screen.operation))
    /\ UNCHANGED <<mentionVars, server>>

CommentSealed(c) ==
    /\ IsTask(c, "state", "sealing")
    /\ LET p == WithoutCall(Page, c)
       IN IF ~c.here THEN Become(p) /\ UNCHANGED identities
          ELSE \E id \in Comments \ identities :
                   /\ identities' = identities \cup {id}
                   /\ Become(Onward([p EXCEPT !.screen.operation = id], c, "asked",
                                    [c.got EXCEPT !.comment = id]))
    /\ UNCHANGED <<captured, comments, server, left>>

Known(m, id) == [id |-> id, mention |-> m] \in comments

\* The Topic is locked, so that one change is looked at after the other.  What
\* was stored before is neither stored nor carried out again.
Verdict(m, id) ==
    IF ~captured[m].current THEN "stale" ELSE IF Known(m, id) THEN "known"
    ELSE IF id # Nothing /\ captured[m].done THEN "resolved" ELSE "taken"

SetState(m, done, id) ==
    /\ captured' = [captured EXCEPT ![m].done = done,
                                    ![m].reopened = IF @ < 2 /\ captured[m].done /\ ~done
                                                    THEN @ + 1 ELSE @]
    /\ comments' = IF id = Nothing THEN comments
                   ELSE comments \cup {[id |-> id, mention |-> m]}

StateServed(c) ==
    /\ IsTask(c, "state", "asked")
    /\ LET m == c.got.mention
           verdict == Verdict(m, c.got.comment)
           Answers(answer, done) ==
               Onward(Page, c, "answered", [c.got EXCEPT !.answer = answer, !.done = done])
       IN \/ /\ server.admits /\ verdict = "taken"
             /\ SetState(m, c.got.done, c.got.comment)
             /\ \/ Become(Answers("ok", c.got.done)) /\ UNCHANGED left
                \/ Become(Answers("failed", FALSE)) /\ Spend("lose")
          \/ /\ server.admits /\ verdict # "taken"
             /\ Become(IF verdict = "known" THEN Answers("ok", captured[m].done)
                       ELSE Answers(verdict, FALSE))
             /\ UNCHANGED <<captured, comments, left>>
          \/ /\ ~server.admits
             /\ Become(Answers("denied", FALSE))
             /\ UNCHANGED <<captured, comments, left>>
    /\ UNCHANGED <<identities, server>>

\* A change that was refused for what others did closes whatever dialog is open.
StateAnswered(c) ==
    /\ IsTask(c, "state", "answered")
    /\ LET p == WithoutCall(Page, c)
           m == c.got.mention
           q == [p EXCEPT !.screen.pending = @ \ {m}]
       IN Become(CASE ~c.here -> p
                   [] c.here /\ c.got.answer = "ok" ->
                          LET r == [q EXCEPT !.screen.rows[m] =
                                       IF @ = "none" THEN @
                                       ELSE IF c.got.done THEN "done" ELSE "open"]
                          IN IF c.got.comment = Nothing THEN r ELSE NoDialog(r)
                   [] c.here /\ c.got.answer \in {"stale", "resolved"} ->
                          LoadMentions([NoDialog(p) EXCEPT !.screen.failed = TRUE], m)
                   [] c.here /\ c.got.answer = "failed" -> [q EXCEPT !.screen.failed = TRUE]
                   [] OTHER -> Denies(q, c))
    /\ UNCHANGED <<mentionVars, server, left>>

\* Another tab of the user, and Meetings that are completed.
OthersResolve ==
    /\ server.admits
    /\ Spend("resolve")
    /\ \E m \in Mentions :
           \/ /\ captured[m].current
              /\ \/ /\ \E done \in BOOLEAN : SetState(m, done, Nothing)
                    /\ UNCHANGED identities
                 \/ \E id \in Comments \ identities :
                        /\ Verdict(m, id) = "taken"
                        /\ SetState(m, TRUE, id)
                        /\ identities' = identities \cup {id}
           \/ /\ captured' = [captured EXCEPT ![m].current = FALSE]
              /\ UNCHANGED <<comments, identities>>
    /\ UNCHANGED <<pageVars, server>>

MentionsNext ==
    \/ VisitMentions \/ LeaveMentions \/ MentionsMounted \/ RetryLoad
    \/ CloseComment \/ SubmitComment \/ OthersResolve
    \/ \E m \in Mentions : OpenComment(m) \/ ChangeState(m)
    \/ \E c \in calls :
           \/ MentionsServed(c) \/ MentionsShown(c) \/ MentionsFail(c)
           \/ CommentSealed(c) \/ StateServed(c) \/ StateAnswered(c)
-----------------------------------------------------------------------------
(* Properties *)

\* A mention is resolved with one comment, whatever is sent again and whichever
\* tab sends it; with another one only after it was opened again.
CommentedOnce ==
    \A m \in Mentions :
        Cardinality({c \in comments : c.mention = m}) <= 1 + captured[m].reopened

\* After a list that came for a mention that was replaced, all of the rows are
\* as the server has them.
RowsAreCurrent ==
    (/\ OnMentions /\ text.status = "unlocked" /\ ~screen.error
     /\ ~\E c \in calls : c.kind = "task"
     /\ \E m \in Mentions : ~captured[m].current /\ screen.rows[m] = "none")
        => screen.rows = Listing

\* A comment that is being written is lost to nothing but its own answer.
DraftStays ==
    [][(OnMentions /\ screen.selected # Nothing /\ screen.operation = Nothing
        /\ OnMentions' /\ text'.status = text.status /\ screen'.selected = Nothing)
       => CloseComment]_<<vars, mentionVars>>
=============================================================================
