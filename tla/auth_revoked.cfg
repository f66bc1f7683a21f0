SPECIFICATION Spec
CONSTANTS
  c1 = c1  c2 = c2  c3 = c3  u1 = u1  u2 = u2  e1 = e1  e2 = e2
  Callers = {c1, c2}
  Main = c1
  Urls = {u1}
  Emails = {e1}
  Lives = {3}
  Grace = 1
  Fallback = 4
  IssueLag = 1
  UseLag = 1
  MaxTime = 5
  Nil = Nil  NoCaller = NoCaller  NoFile = NoFile  Opaque = Opaque
PROPERTIES NoRejectedJWT
