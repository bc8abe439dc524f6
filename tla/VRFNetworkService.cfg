\* One chain and one client whose second request may come from its callback.
CONSTANTS
  Chains = {arbitrum}
  RandomNetwork = rndm
  Clients = {alice}
  Executors = {e1}
  Values = {v1}
  MaxRequests = 2
  RequestAddress <- MCRequestAddress
  SharedAddress = requestContract
  CoreAddress = coreContract
  Zero = zero
  NoAnswer = noAnswer
  Relayers = {relayer}
  MailboxAccount = mailbox
SPECIFICATION ServicesSpec
INVARIANTS
  OneCallback
PROPERTIES
  
  EveryRequestIsAnswered
