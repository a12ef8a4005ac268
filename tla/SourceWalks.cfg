SPECIFICATION Spec
CONSTANTS
    Sources = {"jira", "servicenow", "azure_devops", "docker_image", "jenkins",
               "github_actions", "container_registry", "terraform_state", "postman", "salesforce",
               "box", "mattermost", "slack"}
    NumItems = 2
    NumPlaces <- MCNumPlaces
    Cap <- MCCap
    MaxTime = 2
    MaxFaults = 1
INVARIANTS
    WalkInv
PROPERTIES
    SweepsAreSound
CHECK_DEADLOCK FALSE
