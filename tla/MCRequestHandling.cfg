SPECIFICATION Spec
CONSTANTS
  MaxLimit = 12
  DefaultLimit = 10
  UInt32Max = 99
  Config <- MCConfig
  IdText <- MCIdText
  RawRequests <- MCRawRequests
  Asks <- MCAsks
  CorsOptions <- MCCorsOptions
  ValidIds = {"good"}
  Statuses = {400, 401, 403, 404, 405, 409, 413, 500, 501, 502, 503}
INVARIANTS
  TypeOK
  OneCorrelationId
  CorsReadable
  ServedAsAsked
  OrderDoesNotMatter
