CONSTANTS
  MAX_STRING_LEN = 3
  Platforms = {"win32", "hpux", "libc"}
  MaxKeys = 4
  NULL = NULL

SPECIFICATION Spec

PROPERTY PasswordReturns
