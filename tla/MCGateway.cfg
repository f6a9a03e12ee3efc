SPECIFICATION FairCitySpec
CONSTANTS
  r1 = r1
  population = population
  population2 = population2
  GatewayRequests = {r1}
  Backends = {population, population2}
  FieldOf <- BackendFields
  GatewayFaults = {"lookup", "backend", "hang"}
  MaxLives = 2
  MaxRows = 3
INVARIANTS
  CityTypeOK
  LastInListWins
  CalledWasListed
  SteadyIsAnswered
PROPERTIES
  RequestEnds
CHECK_DEADLOCK FALSE
