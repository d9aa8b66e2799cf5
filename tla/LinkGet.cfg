SPECIFICATION GetSpec
CONSTANTS
  clashing = clashing
  apart = apart
  avatar = avatar
  cases = cases
  ann = ann
  bob = bob
  la = la
  lb = lb
  lad = lad
  md5 = md5
  sha = sha
  md5b = md5b
  shab = shab
  NoFile = NoFile
  NoJob = NoJob
  Walking = {clashing, apart}
  Testing = {avatar, cases}
  Names = {ann, bob}
  Apps <- MCApps
  Hashes <- MCHashes
  LinksOf <- MCLinksOf
  LooksFor <- MCLooksFor
  MaxEvents <- MCMaxEvents
INVARIANTS
  GetTypeOK
  FilesAreLinked
  NoDanglingLink
  CalmFileIsServed
PROPERTIES
  OnlyClashesSteal
  FileGetsLinks
