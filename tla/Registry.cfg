SPECIFICATION FairSpec
CONSTANTS
  u1 = u1  u2 = u2  d1 = d1  d2 = d2  d3 = d3
  j1 = j1  j2 = j2  j3 = j3  w1 = w1  w2 = w2  w3 = w3
  A = A  B = B  o1 = o1  o2 = o2  k1 = k1  k2 = k2  k3 = k3  p1 = p1  p2 = p2
  n1 = n1  n2 = n2  n3 = n3  c1 = c1  c2 = c2
  Users = {u1, u2}
  Registered = {u1}
  DeviceIds = {d1, d2, d3}
  Jkts = {j1, j2, j3}
  Jwks = {w1, w2, w3}
  Cases = {A, B}
  Ops = {o1, o2}
  Keys = {k1, k2, k3}
  Revs = {1}
  Procs = {p1, p2}
  Faulty = {p1, c1}
  Callers = {c1, c2}
  Nonces = {n1, n2, n3}
  MaxKids = 2
  Workloads <- AllWork
INVARIANTS
  AuthTypeOK
  RecordsNameOwnDevices
  UsedOnce
  PolicyTookEffect
  PolicyRecorded
  RecoveredDeviceStays
  SignedRequestsActOnce
  RevokedDevicesAreRefused
  TokensStayVerifiable
PROPERTIES
  CredentialsStay
  Answered
