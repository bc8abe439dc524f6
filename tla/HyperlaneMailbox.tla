-------------------------- MODULE HyperlaneMailbox ---------------------------
(***************************************************************************)
(* The Hyperlane mailboxes, one per chain, modelled from how the contracts *)
(* and the solver use them (their code is not part of this repository):    *)
(* dispatch gives every message of a chain a nonce of its own and logs it, *)
(* process asks the security module of the recipient, hands it a message   *)
(* at most once and is rolled back, mark included, when the recipient      *)
(* reverts.  Between the two a message may wait for ever and may be        *)
(* overtaken.  The default module, which the core leaves in place, is      *)
(* taken to verify that a message was dispatched; the one VRFRequestV1     *)
(* names accepts every message.                                            *)
(***************************************************************************)
EXTENDS VRFMessages

VARIABLES
  mailboxNonce,  \* [Domains -> Nat]: messages dispatched on the chain so far
  dispatched,    \* the messages in the Dispatch logs
  delivered      \* the messages whose process() call succeeded

mailboxVars == <<mailboxNonce, dispatched, delivered>>

MailboxTypeOK ==
  /\ mailboxNonce \in [Domains -> Nat]
  /\ dispatched \in SUBSET Messages
  /\ delivered \in SUBSET Messages

MailboxInit ==
  /\ mailboxNonce = [d \in Domains |-> 0]
  /\ dispatched = {}
  /\ delivered = {}

Message(origin, sender, destination, recipient, body) ==
  [nonce |-> mailboxNonce[origin], origin |-> origin, sender |-> sender,
   destination |-> destination, recipient |-> recipient, body |-> body]

\* mailbox.dispatch, called by a contract on chain origin.
Dispatch(origin, sender, destination, recipient, body) ==
  /\ mailboxNonce' = [mailboxNonce EXCEPT ![origin] = @ + 1]
  /\ dispatched' = dispatched \cup
       {Message(origin, sender, destination, recipient, body)}

NoDispatch == UNCHANGED <<mailboxNonce, dispatched>>

\* mailbox.process of a logged message, on the chain and for the recipient it
\* names; the caller conjoins the recipient's handle(), whose revert reverts
\* this too.
Process(m, domain, recipient) ==
  /\ m \in dispatched \ delivered
  /\ m.destination = domain
  /\ m.recipient = recipient
  /\ delivered' = delivered \cup {m}

\* mailbox.process of a message no contract dispatched, which only a recipient
\* whose security module accepts everything is handed.  It is not one that is
\* dispatched later, and there is always another one with the same body and
\* another nonce, so that its own mark is not kept.
ProcessUndispatched == UNCHANGED delivered
=============================================================================
