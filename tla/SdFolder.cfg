SPECIFICATION ListingSpec
CONSTANTS
  Name <- MCNames
  Cwd <- MCCwd
  FolderString <- MCFolders
  FileString <- MCFiles
  DataSize = {0, 1}
INVARIANTS TypeOK AnswersAgree ListsEntries
