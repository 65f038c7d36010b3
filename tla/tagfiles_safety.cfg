CONSTANTS
  Images = {a, b}
  Tags = {x}
SPECIFICATION FairSpec
INVARIANTS TypeOK OnDiskNamed BackupIsConsistent BackupIsOfStart EndSaves
PROPERTY EndsAndSaves
