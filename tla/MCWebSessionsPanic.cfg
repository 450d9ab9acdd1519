SPECIFICATION Spec
CONSTANTS
  s1 = s1
  s2 = s2
  s3 = s3
  t1 = t1
  t2 = t2
  home = home
  lab = lab
  None = None
  Sessions = {t1, t2}
  Ips = {home, lab}
  ipOf <- MCIpOf
  Trusted = {lab}
  OneClientPerIP = TRUE
  SendCap = 1
  ResponseCap = 1
INVARIANT
  NoSendOnClosed
CHECK_DEADLOCK FALSE
