\* Two chains with contracts at one address and one client on each.
CONSTANTS
  Chains = {arbitrum, sepolia}
  RandomNetwork = rndm
  Clients = {alice}
  Executors = {e1}
  Values = {v1, v2}
  MaxRequests = 1
  RequestAddress <- MCRequestAddress
  SharedAddress = requestContract
  CoreAddress = coreContract
  Zero = zero
  NoAnswer = noAnswer
  Relayers = {relayer}
  MailboxAccount = mailbox
SPECIFICATION Spec
SYMMETRY Symmetric
INVARIANTS
  
  ClientsHoldTheCoresValue
  
  
PROPERTY DecidedStays
