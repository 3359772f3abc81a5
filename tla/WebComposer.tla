----------------------------- MODULE WebComposer -----------------------------
(***************************************************************************)
(* The message composer of the page (webapp/app.js): one text field that   *)
(* shows the draft of one conversation at a time.  A draft belongs to an   *)
(* agent and a recipient; the field follows them only when                 *)
(* syncComposerDraft() runs, and the agent may change without it.          *)
(*                                                                         *)
(* A text is represented by the conversation it was typed in.              *)
(***************************************************************************)
EXTENDS Naturals

CONSTANTS
    Senders,        \* scopes: relay, account and selected agent, one of them without an agent
    NoSender,       \* the scope in which no agent is selected
    Frequencies,    \* values of the recipient selector
    Peers,          \* callsigns with a private tab
    Blank           \* an empty field, no draft, nothing sent

ASSUME ComposerAssumption == NoSender \in Senders /\ Blank \notin Senders \X (Frequencies \cup Peers)

Conversations == Senders \X (Frequencies \cup Peers)
Views == {"all"} \cup Peers     \* every tab that is not private behaves as All

VARIABLES
    sender,         \* the agent that would send the message
    view,           \* state.filter and state.privatePeer
    frequency,      \* state.chatRecipient
    draftKey,       \* state.chatDraftKey
    field,          \* the text in the field
    drafts,         \* state.chatDrafts
    unsent,         \* history: conversations with a text that was neither sent nor erased
    sent            \* history: the last message, as <<typed in, sent to>>

composerVars == <<sender, view, frequency, draftKey, field, drafts, unsent, sent>>

ComposerInit ==
    /\ sender \in Senders /\ view = "all" /\ frequency \in Frequencies
    /\ draftKey = <<sender, frequency>> /\ field = Blank
    /\ drafts = [conversation \in Conversations |-> Blank]
    /\ unsent = {} /\ sent = Blank

Recipient(v, f) == IF v \in Peers THEN v ELSE f
Conversation == <<sender, Recipient(view, frequency)>>

\* syncComposerDraft(): the field is put away under its own key and shows the
\* draft of the conversation the page is in now.
SyncDraft ==
    /\ draftKey' = Conversation'
    /\ IF draftKey' = draftKey
       THEN UNCHANGED <<field, drafts>>
       ELSE /\ drafts' = [drafts EXCEPT ![draftKey] = field]
            /\ field' = drafts[draftKey']

\* The agent goes offline or revokes the pairing, or the relay names another
\* account: state changes and the composer is not told.
SenderChanges(next) ==
    /\ next # sender /\ sender' = next
    /\ UNCHANGED <<view, frequency, draftKey, field, drafts, unsent, sent>>

\* selectRemoteDevice().
SelectsSender(next) ==
    /\ next # NoSender /\ sender' = next
    /\ UNCHANGED <<view, frequency, unsent, sent>>
    /\ SyncDraft

\* setActiveChatFilter() and closePrivateChat() end in updateComposerContext().
ChoosesView(v) ==
    /\ view' = v
    /\ UNCHANGED <<sender, frequency, unsent, sent>>
    /\ SyncDraft

\* The selector is locked in a private tab.
ChoosesFrequency(f) ==
    /\ view \notin Peers /\ frequency' = f
    /\ UNCHANGED <<sender, view, unsent, sent>>
    /\ SyncDraft

\* The pilot writes for the conversation the field is shown for, or erases it.
Types(text) ==
    /\ field' = text
    /\ unsent' = IF text = Blank THEN unsent \ {draftKey} ELSE unsent \cup {draftKey}
    /\ UNCHANGED <<sender, view, frequency, draftKey, drafts, sent>>

-----------------------------------------------------------------------------
\* What a message that was accepted leaves: no draft and an empty field.
Accepted ==
    /\ drafts' = [drafts EXCEPT ![draftKey] = Blank]
    /\ field' = Blank
    /\ unsent' = unsent \ {draftKey}
    /\ UNCHANGED <<sender, view, frequency, draftKey>>

\* Send without a look at the conversation.
SendsAtOnce ==
    /\ field # Blank /\ sender # NoSender
    /\ sent' = <<field, Conversation>>
    /\ Accepted

\* submitMessage() of a message.  When the field belongs to another
\* conversation than the page, the right draft is shown and nothing is sent.
SubmitsMessage ==
    IF draftKey # Conversation
    THEN UNCHANGED <<sender, view, frequency, unsent, sent>> /\ SyncDraft
    ELSE SendsAtOnce

\* submitMessage() of ".chat PEER": the tab of the peer opens with its own
\* draft, and the command is not kept as a draft of the former conversation.
SubmitsChat(peer) ==
    /\ draftKey = Conversation /\ field # Blank /\ sender # NoSender
    /\ view' = peer
    /\ draftKey' = <<sender, peer>>
    /\ drafts' = [drafts EXCEPT ![draftKey] = Blank]
    /\ field' = IF draftKey' = draftKey THEN Blank ELSE drafts[draftKey']
    /\ unsent' = unsent \ {draftKey}
    /\ UNCHANGED <<sender, frequency, sent>>

ComposerNext ==
    \/ \E next \in Senders : SenderChanges(next) \/ SelectsSender(next)
    \/ \E v \in Views : ChoosesView(v)
    \/ \E f \in Frequencies : ChoosesFrequency(f)
    \/ Types(draftKey) \/ Types(Blank)
    \/ SubmitsMessage
    \/ \E peer \in Peers : SubmitsChat(peer)

ComposerSpec == ComposerInit /\ [][ComposerNext]_composerVars

-----------------------------------------------------------------------------
\* A message goes to the agent and the recipient it was written for, whatever
\* the page did between the first key and Send (the comment in submitMessage).
MessageGoesWhereTyped == sent # Blank => sent[1] = sent[2]

\* A text that was neither sent nor erased is never lost: it is in the field of
\* its conversation or among the drafts, under that conversation.
DraftsKept ==
    \A conversation \in unsent :
        IF draftKey = conversation THEN field = conversation ELSE drafts[conversation] = conversation
=============================================================================
