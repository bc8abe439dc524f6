----------------------------- MODULE VRFMessages -----------------------------
(***************************************************************************)
(* The data the contracts of the random network exchange: request ids,     *)
(* answers with their VRF proofs, and the Hyperlane messages that carry    *)
(* them.  Hashes are injective: a request id is the record of what         *)
(* requestRandomness hashes, a proof the record of the key and the message *)
(* it was made for.                                                        *)
(***************************************************************************)
EXTENDS Integers

CONSTANTS
  Chains,         \* the origin chains, each with one VRFRequestV1 contract
  RandomNetwork,  \* the chain of VRFCoreV1 (domain 112000)
  Clients,        \* contracts that ask for randomness
  Executors,      \* accounts that may be granted EXECUTOR_ROLE; also their keys
  Values,         \* the 32-byte random strings an executor may draw
  MaxRequests,    \* bound: requests made through one VRFRequestV1 contract
  RequestAddress, \* RequestAddress[c] is the address of VRFRequestV1 on c
  CoreAddress,    \* the address of VRFCoreV1 on RandomNetwork
  Zero,           \* the value of unset EVM storage: zero address, zero domain
  NoAnswer        \* the absent answer of a request message

ASSUME DistinctChains == RandomNetwork \notin Chains /\ Zero \notin Chains
ASSUME BoundIsNat == MaxRequests \in Nat
\* Nobody has the zero address, and 32 zero bytes are never drawn.
ASSUME ZeroIsNobody ==
  /\ Zero \notin Clients \cup Values
  /\ Zero # CoreAddress
  /\ Zero # RandomNetwork

\* keccak256(abi.encode(currentChainId, msg.sender, nonce++, block.number));
\* the nonce alone tells two requests of one contract apart.
RequestIds == [chain : Chains, client : Clients, nonce : 0 .. MaxRequests - 1]

Proofs == [key : Executors, message : Values]

\* IVRFProofVerifier.verify: a proof verifies for the key and the message it
\* was made with, and for no other.
Verify(publicKey, proof, message) ==
  proof = [key |-> publicKey, message |-> message]

\* The part of executeVRF's arguments that is stored and sent back.
Answers == [randomness : Values, publicKey : Executors, proof : Proofs]
ASSUME NoAnswerIsNone == NoAnswer \notin Answers

\* abi.encode(requestId) carries NoAnswer; the message of executeVRF is
\* abi.encode(requestId, randomness, publicKey, proof).
Bodies == [id : RequestIds, answer : Answers \cup {NoAnswer}]

Domains == Chains \cup {RandomNetwork, Zero}
Addresses == {RequestAddress[c] : c \in Chains} \cup {CoreAddress, Zero}

Messages ==
  [nonce : Nat, origin : Domains, sender : Addresses,
   destination : Domains, recipient : Addresses, body : Bodies]
=============================================================================
